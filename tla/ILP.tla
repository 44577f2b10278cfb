-------------------------------- MODULE ILP --------------------------------
(***************************************************************************)
(* The mixed integer programs of ilp/: the base class, which runs an       *)
(* external MIP solver on a model and reads the schedule off its           *)
(* variables, and the four formulations that build the model: discrete     *)
(* time (DTILP), event based (EBILP, with and without start points), order *)
(* based (OBILP) and flow based (FBILP, with and without flow proxies).    *)
(*                                                                         *)
(* A model is the set of its solutions, each given by what the program     *)
(* reads: the start times it stores and the least bound on the usage that  *)
(* the other variables admit with them.  Event times are continuous; they  *)
(* are counted in halves here, so that rounding them means something.      *)
(***************************************************************************)
EXTENDS LagSchedules, Sequences

CONSTANTS
  ILPCases,    \* which formulation is given which instance
  ILPHorizon,  \* bounds the deadlines
  NoAnswer     \* no incumbent

Formulations ==
  {"DTILP", "EBILP", "EBILPStartPoints", "OBILP", "FBILP", "FBILPProxy"}

ASSUME ILPAssumption ==
  /\ ILPHorizon \in Nat
  /\ ILPCases \subseteq Formulations \X LagInstance
  /\ \A c \in ILPCases : Acyclic(c[2]) /\ LastDeadline(c[2]) \in 1 .. ILPHorizon

VARIABLES
  ilpInstance, ilpFormulation,
  ilpWindows,  \* earliest_starts, latest_finishs, and the events left to a job
  ilpModel,    \* the solutions of the model: start times and bound on the usage
  ilpStatus,   \* get_status() of the model
  ilpAnswer    \* the incumbent, as get_solution() reads it

ilpVars ==
  <<ilpInstance, ilpFormulation, ilpWindows, ilpModel, ilpStatus, ilpAnswer>>

Total(f, S) == MapThenSumSet(LAMBDA x : f[x], S)

\* What CriticalPathComputer and NecessaryOrderComputer give for an instance:
\* skip_numbers shorten the events of a job at either end.
Windows(i) ==
  LET es == EarliestStarts(i)
      lf == LatestFinishs(i)
      Before(v) == {u \in Job : lf[u] <= es[v]}
      After(v) == {u \in Job : es[u] >= lf[v]}
  IN  [es |-> es, lf |-> lf,
       events |-> [v \in Job |-> 2 * Cardinality(Before(v)) + 1
                                   .. 2 * JobCount - 2 * Cardinality(After(v))]]

LatestStart(v) == ilpWindows.lf[v] - ilpInstance.duration[v]

\* generate_vars_start_points() with the edge constraints of the base class.
StartPoints == LagSchedules(ilpInstance)

-----------------------------------------------------------------------------
(* DTILP: a job occupies duration steps from the one it is switched on at.   *)

DiscreteUsage(start, t) ==
  LET Steps(v) == start[v] .. start[v] + ilpInstance.duration[v] - 1
  IN  Total(ilpInstance.usage, {v \in Job : t \in Steps(v)})

DTILP ==
  {<<start, Max({DiscreteUsage(start, t) : t \in 0 .. LastDeadline(ilpInstance) - 1})>> :
     start \in StartPoints}

-----------------------------------------------------------------------------
(* EBILP: 2n events in the order of their times; every job starts at one and *)
(* ends at a later one, within the events that its necessary predecessors    *)
(* and successors leave it.                                                  *)

Event == 1 .. 2 * JobCount

EventTimes ==
  LET Rising[k \in 0 .. 2 * JobCount] ==
        IF k = 0 THEN {<<>>}
        ELSE UNION {{Append(t, x) : x \in Max({0} \cup Range(t)) .. 2 * ILPHorizon} :
                      t \in Rising[k - 1]}
  IN  {t \in Rising[2 * JobCount] :
         /\ t \in [Event -> 0 .. 2 * ILPHorizon]
         /\ \A e1, e2 \in Event : e1 <= e2 => t[e1] <= t[e2]}

\* The events the jobs start and end at: for each job, one of either kind.
EventPairs ==
  {p \in [Job -> Event \X Event] :
     \A v \in Job : /\ p[v][1] \in ilpWindows.events[v]
                    /\ p[v][2] \in ilpWindows.events[v]
                    /\ p[v][1] < p[v][2]}

EventUsage(p, event) ==
  Total(ilpInstance.usage, {v \in Job : p[v][1] <= event})
    - Total(ilpInstance.usage, {v \in Job : p[v][2] <= event})

\* std::round() of a number of halves.
Rounded(halves) == (halves + 1) \div 2

\* The constraints of both modes.
InOrder(p, t) ==
  \A v \in Job : t[p[v][2]] - t[p[v][1]] >= 2 * ilpInstance.duration[v]

\* Without start points, events carry the windows and the lags.  A constraint is
\* there for every event or pair of events left to its jobs; latest_deadline as
\* big-M is to make it void unless the jobs start, or end, at these.
EventsInWindows(p, t) ==
  LET M == LastDeadline(ilpInstance)
      Off(v, k, event) == IF event = p[v][k] THEN 0 ELSE 1
  IN  /\ \A v \in Job : \A event \in ilpWindows.events[v] :
           /\ t[event] <= 2 * (ilpInstance.deadline[v] + Off(v, 2, event) * M)
           /\ t[event] >= 2 * (ilpInstance.release[v] - Off(v, 1, event) * M)
      /\ \A e \in ilpInstance.lags :
           \A from \in ilpWindows.events[e[1]], to \in ilpWindows.events[e[2]] :
             t[to] - t[from]
               >= 2 * ((1 - Off(e[1], 1, from) - Off(e[2], 1, to)) * (e[3] + M) - M)

\* With them, the events at which jobs start are tied to the start points, which
\* are integers, and all others lie within latest_deadline of them.
EventsLinked(p, t) ==
  /\ [v \in Job |-> Rounded(t[p[v][1]])] \in StartPoints
  /\ \A v \in Job :
       /\ t[p[v][1]] % 2 = 0
       /\ \A event \in ilpWindows.events[v] :
            LET D == 2 * LastDeadline(ilpInstance)
            IN  t[event] - t[p[v][1]] \in -D .. D

EventPeak(p) == Max({EventUsage(p, event) : event \in Event})

EBILP(startPoints) ==
  LET Times(p) == {t \in EventTimes :
                     /\ InOrder(p, t)
                     /\ IF startPoints THEN EventsLinked(p, t)
                        ELSE EventsInWindows(p, t)}
      Starts(p) == {[v \in Job |-> Rounded(t[p[v][1]])] : t \in Times(p)}
  IN  UNION {Starts(p) \X {EventPeak(p)} : p \in EventPairs}

-----------------------------------------------------------------------------
(* OBILP: for every two jobs whose windows meet, whether b has started when  *)
(* a starts (order_vars) and whether it has ended (disjunct_vars), where     *)
(* either may go both ways.                                                  *)

\* Both are open between two events of generate_events().
Meet(a, b) ==
  /\ ilpWindows.es[a] <= ilpWindows.lf[b]
  /\ ilpWindows.es[b] <= ilpWindows.lf[a]

HasOrderVar(b, a) ==
  /\ ilpWindows.es[b] <= LatestStart(a)
  /\ LatestStart(b) >= ilpWindows.es[a]

HasDisjunctVar(b, a) ==
  LatestStart(a) >= ilpWindows.es[b] + ilpInstance.duration[b]

\* Mutant: jobs that start together are not ordered.
StrictOrderVar(start, b, a) == IF start[a] - start[b] > 0 THEN {1} ELSE {0, 1}

\* What the big-M constraints leave to the variables.
OrderVar(start, b, a) == IF start[a] - start[b] + 1 > 0 THEN {1} ELSE {0, 1}
DisjunctVar(start, b, a) ==
  IF start[a] - start[b] - ilpInstance.duration[b] >= 0 THEN {0, 1} ELSE {0}

\* The part of b in the usage at the start of a: adder().
Share(start, b, a) ==
  LET always == LatestStart(b) < ilpWindows.es[a]
      order == IF HasOrderVar(b, a) THEN OrderVar(start, b, a)
               ELSE IF always THEN {1} ELSE {0}
      over == IF HasDisjunctVar(b, a) /\ (HasOrderVar(b, a) \/ always)
              THEN DisjunctVar(start, b, a) ELSE {0}
  IN  IF Meet(a, b) THEN {o - d : o \in order, d \in over} ELSE {0}

StartUsage(start, a) ==
  LET least == [b \in Job |-> Min(Share(start, b, a)) * ilpInstance.usage[b]]
  IN  ilpInstance.usage[a] + Total(least, Job \ {a})

OBILP ==
  {<<start, Max({StartUsage(start, a) : a \in Job})>> : start \in StartPoints}

-----------------------------------------------------------------------------
(* FBILP: a job is given its usage by jobs that have ended, or by an inflow  *)
(* from outside, whose sum is the usage to be minimised.  All bounds are     *)
(* integers, so the least sum is attained by integer flows.                  *)

\* Mutant: not at the very moment "from" ends.
CanFollowLater(from, to) ==
  /\ from # to
  /\ ilpInstance.deadline[to] - ilpInstance.duration[to]
       > ilpInstance.release[from] + ilpInstance.duration[from]

\* "to" may start after "from" has ended.
CanFollow(from, to) ==
  /\ from # to
  /\ ilpInstance.deadline[to] - ilpInstance.duration[to]
       >= ilpInstance.release[from] + ilpInstance.duration[from]

AlwaysFollows(from, to) == ilpInstance.release[to] >= ilpInstance.deadline[from]

\* The proxy of a job is the one with the earliest deadline that always follows
\* it; no flow variable leads to jobs that always follow the proxy.
Proxied(from, to) ==
  LET followers == {p \in Job : AlwaysFollows(from, p)}
  IN  /\ followers # {}
      /\ ilpInstance.release[to] >= Min({ilpInstance.deadline[p] : p \in followers})

FlowVars(proxy) ==
  {e \in Job \X Job : CanFollow(e[1], e[2]) /\ ~(proxy /\ Proxied(e[1], e[2]))}

\* (15) with the sequence variables of (14) set wherever they may be.
MayFlow(start, e) ==
  AlwaysFollows(e[1], e[2]) \/ start[e[1]] + ilpInstance.duration[e[1]] <= start[e[2]]

\* The sums of inflows that (15), (16) and (17) admit.  A proxy may pass on what
\* flows through it: all flow there is, if it must.
Inflows(start, proxy) ==
  LET edges == FlowVars(proxy)
      unit  == 0 .. IF proxy THEN Total(ilpInstance.usage, Job)
                    ELSE Max(Range(ilpInstance.usage))
      flows == {f \in [edges -> unit] : \A e \in edges : f[e] > 0 => MayFlow(start, e)}
      Into(f, in, v) == in[v] + Total(f, {e \in edges : e[2] = v})
      OutOf(f, v) == Total(f, {e \in edges : e[1] = v})
  IN  {Total(x[2], Job) :
         x \in {y \in flows \X [Job -> unit] : \A v \in Job :
                  /\ Into(y[1], y[2], v) >= ilpInstance.usage[v]
                  /\ OutOf(y[1], v) <= IF proxy THEN Into(y[1], y[2], v)
                                        ELSE ilpInstance.usage[v]}}

FBILP(proxy) ==
  {<<start, Min(Inflows(start, proxy))>> : start \in StartPoints}

-----------------------------------------------------------------------------
(* The base class.                                                           *)

Model ==
  CASE ilpFormulation = "DTILP" -> DTILP
    [] ilpFormulation = "EBILP" -> EBILP(FALSE)
    [] ilpFormulation = "EBILPStartPoints" -> EBILP(TRUE)
    [] ilpFormulation = "OBILP" -> OBILP
    [] ilpFormulation = "FBILP" -> FBILP(FALSE)
    [] ilpFormulation = "FBILPProxy" -> FBILP(TRUE)

ILPInit ==
  /\ \E c \in {CHOOSE c \in ILPCases : TRUE} :
       ilpFormulation = c[1] /\ ilpInstance = c[2] /\ ilpWindows = Windows(c[2])
  /\ ilpModel = {}
  /\ ilpStatus = "NEW"
  /\ ilpAnswer = NoAnswer

ComputeWindows ==
  /\ ilpStatus = "NEW"
  /\ \E c \in ILPCases :
       ilpFormulation' = c[1] /\ ilpInstance' = c[2] /\ ilpWindows' = Windows(c[2])
  /\ ilpStatus' = "PREPARING"
  /\ UNCHANGED <<ilpModel, ilpAnswer>>

Prepare ==
  /\ ilpStatus = "PREPARING"
  /\ ilpModel' = Model
  /\ ilpStatus' = "READY"
  /\ UNCHANGED <<ilpInstance, ilpFormulation, ilpWindows, ilpAnswer>>

\* The MIP solver proves an incumbent optimal, or that there is none.
SolveToOptimality ==
  /\ ilpStatus = "READY" /\ ilpModel # {}
  /\ \E m \in ilpModel : /\ \A other \in ilpModel : m[2] <= other[2]
                         /\ ilpAnswer' = m
  /\ ilpStatus' = "OPTIMAL"
  /\ UNCHANGED <<ilpInstance, ilpFormulation, ilpWindows, ilpModel>>

ProveInfeasible ==
  /\ ilpStatus = "READY" /\ ilpModel = {}
  /\ ilpStatus' = "INFEASIBLE"
  /\ UNCHANGED <<ilpInstance, ilpFormulation, ilpWindows, ilpModel, ilpAnswer>>

\* The time limit ends it with any incumbent, or with none.
StopSolving ==
  /\ ilpStatus = "READY"
  /\ ilpAnswer' \in ilpModel \cup {NoAnswer}
  /\ ilpStatus' = "STOPPED"
  /\ UNCHANGED <<ilpInstance, ilpFormulation, ilpWindows, ilpModel>>

ILPNext == ComputeWindows \/ Prepare \/ SolveToOptimality \/ ProveInfeasible \/ StopSolving

ILPSpec == ILPInit /\ [][ILPNext]_ilpVars

-----------------------------------------------------------------------------
\* What get_solution() stores respects all windows and lags, start times that are
\* read off rounded event times included.
AnswersAreFeasible ==
  ilpAnswer # NoAnswer => LagFeasible(ilpInstance, ilpAnswer[1])

(***************************************************************************)
(* Whatever the model is stopped with: the start times that are stored are *)
(* feasible, and the usage reported by the model is not below their peak.  *)
(***************************************************************************)
AnswersAreSchedules ==
  /\ AnswersAreFeasible
  /\ ilpAnswer # NoAnswer => Peak(ilpInstance, ilpAnswer[1]) <= ilpAnswer[2]

\* What the next property asks of the instances: all jobs take time (the pairwise
\* formulations count a job without duration, a peak does not), and no lag is
\* below minus the big-M of EBILP.
Ordinary(i) == /\ \A v \in Job : i.duration[v] > 0
               /\ \A e \in i.lags : e[3] >= -LastDeadline(i)

OrdinaryCases == \A c \in ILPCases : Ordinary(c[2])

(***************************************************************************)
(* No formulation cuts off the best schedules: neither the variables it    *)
(* leaves out for pairs of jobs and for events, nor its big-M constraints  *)
(* do.  get_solution() marks a schedule as optimal only if no feasible one *)
(* has a lower peak, and no feasible instance is called infeasible.        *)
(***************************************************************************)
OptimalIsLeastPeak ==
  LET peaks == {Peak(ilpInstance, start) : start \in LagSchedules(ilpInstance)}
  IN  /\ ilpStatus = "OPTIMAL" =>
           ilpAnswer[2] = Min(peaks) /\ Peak(ilpInstance, ilpAnswer[1]) = Min(peaks)
      /\ ilpStatus = "INFEASIBLE" => peaks = {}

=============================================================================
