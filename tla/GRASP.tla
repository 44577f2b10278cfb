-------------------------------- MODULE GRASP --------------------------------
(***************************************************************************)
(* grasp/grasp.cpp: the greedy randomised search.  An iteration rebuilds   *)
(* the schedule, job by job, from the one the last iteration left behind;  *)
(* a hill climber moves some jobs at a time and keeps what is better; the  *)
(* best schedule of all iterations is kept, and taken up again after       *)
(* resetCount iterations in vain.                                          *)
(*                                                                         *)
(* Every choice of the random generator is possible.  The time limit may   *)
(* cut the phases of an iteration at any step, and the search between two  *)
(* iterations; so may the numbers of iterations of the configuration.      *)
(* Costs are the usage of the one resource; those of a whole schedule are  *)
(* Instance::calculate_max_costs(), for which a job runs one step longer.  *)
(***************************************************************************)
EXTENDS LagSchedules, Sequences

CONSTANTS
  GraspCases,      \* the instances, with the variants of the search run on them
  graspSelection,  \* number of best positions to randomly select from
  graspSamples,    \* number of jobs looked at for the next position
  Selections,      \* uniformSelections and weightedSelections
  resetCount,      \* iterations without improvement before a reset, 0 for none
  Infinity         \* 1.0 / 0.0, above every cost

\* The order of the jobs, the structure that holds the usage, and whether
\* weightedIterations is not zero.
GraspVariants ==
  [order: {"random", "sorted"}, usage: {"array", "skyline"}, weighted: BOOLEAN]

\* The traits that the solver requires; the solver takes for granted that there
\* is a feasible schedule.
ASSUME GraspAssumption ==
  /\ GraspCases # {} /\ GraspCases \subseteq LagInstance \X GraspVariants
  /\ \A c \in GraspCases :
       /\ \A v \in Job : c[1].duration[v] > 0
       /\ \A e \in c[1].lags : e[3] >= 0
       /\ Acyclic(c[1]) /\ LagSchedules(c[1]) # {}
  /\ {graspSelection, graspSamples, Selections, resetCount} \subseteq Nat
  /\ Infinity \notin Nat

VARIABLES
  graspCase,
  graspPhase,   \* "new", "loop", "build", "climb", "weigh", "done"
  starts, bestStarts, bestCosts, nextReset,
  toPlace,      \* the local jobs of GraspImplementation: a sequence
  cost,         \* of starts, while hillClimber() runs
  newStarts, newCost,
  moved,        \* the jobs moved so far in this iteration of hillClimber()
  weighedUsage, newUsage  \* usage and newUsage of the weighted selection

climbVars == <<cost, newStarts, newCost, moved>>
usageVars == <<weighedUsage, newUsage>>
bestVars == <<bestStarts, bestCosts, nextReset>>
graspVars ==
  <<graspCase, graspPhase, starts, bestVars, toPlace, climbVars, usageVars>>

graspInstance == graspCase[1]
variant == graspCase[2]

NoStarts == [v \in Job |-> 0]
NoUsage == <<>>
BelowBest(c) == bestCosts = Infinity \/ c < bestCosts

GraspInit ==
  /\ graspCase = CHOOSE c \in GraspCases : TRUE
  /\ graspPhase = "new"
  /\ starts = NoStarts /\ bestStarts = NoStarts /\ newStarts = NoStarts
  /\ bestCosts = Infinity
  /\ nextReset = resetCount
  /\ toPlace = <<>>
  /\ moved = {}
  /\ cost = 0 /\ newCost = 0
  /\ weighedUsage = NoUsage /\ newUsage = NoUsage

\* The first lines of run().
StartRun ==
  /\ graspPhase = "new"
  /\ \E c \in GraspCases :
       /\ graspCase' = c
       /\ starts' = EarliestStarts(c[1])
  /\ graspPhase' = "loop"
  /\ UNCHANGED <<bestVars, toPlace, climbVars, usageVars>>

\* Mutant: the window of a job follows from the schedule before the iteration.
WindowOfLastSchedule(st, v) ==
  [release |-> Max({graspInstance.release[v]} \cup
                   {starts[e[1]] + e[3] :
                      e \in {f \in graspInstance.lags : f[2] = v}}),
   deadline |-> Min({graspInstance.deadline[v]} \cup
                    {starts[e[2]] - e[3] + graspInstance.duration[v] :
                       e \in {f \in graspInstance.lags : f[1] = v}})]

\* release and deadline of a job as its neighbours in a schedule leave them.
Window(st, v) ==
  [release |-> Max({graspInstance.release[v]} \cup
                   {st[e[1]] + e[3] :
                      e \in {f \in graspInstance.lags : f[2] = v}}),
   deadline |-> Min({graspInstance.deadline[v]} \cup
                    {st[e[2]] - e[3] + graspInstance.duration[v] :
                       e \in {f \in graspInstance.lags : f[1] = v}})]

Positions(w, v) == w.release .. w.deadline - graspInstance.duration[v]

\* calculate_max_costs() puts the end of a job at start + 1 + duration, and the
\* ends before the starts of the same time: it finds the peak of longer jobs.
MaxCosts(i, st) ==
  Peak([i EXCEPT !.duration = [v \in Job |-> i.duration[v] + 1]], st)

-----------------------------------------------------------------------------
(* grasp(): GraspAlgorithm orders the jobs, GraspImplementation places one    *)
(* of the next graspSamples jobs after the other.                            *)

JobOrders ==
  {q \in [1 .. JobCount -> Job] :
     /\ Range(q) = Job
     /\ variant.order = "sorted" =>
          \A a, b \in 1 .. JobCount :
            a < b => \/ graspInstance.duration[q[a]] > graspInstance.duration[q[b]]
                     \/ /\ graspInstance.duration[q[a]] = graspInstance.duration[q[b]]
                        /\ q[a] < q[b]}

BeginIteration ==
  /\ graspPhase = "loop"
  /\ graspPhase' = "build"
  /\ toPlace' \in IF graspSelection = 0 THEN {<<>>} ELSE JobOrders
  /\ UNCHANGED <<graspCase, starts, bestVars, climbVars, usageVars>>

\* The places in toPlace that are looked at: less than graspSamples if time is up.
Samples == {1 .. n : n \in 0 .. Min({graspSamples, Len(toPlace)})}

\* The usage of the other jobs, and its maximum while v would run.
OthersAt(v, x) ==
  LET Running == {u \in Job \ {v} :
                    starts[u] <= x /\ x < starts[u] + graspInstance.duration[u]}
  IN  MapThenSumSet(LAMBDA u : graspInstance.usage[u], Running)

CostAt(v, s) ==
  Max({OthersAt(v, x) : x \in s .. s + graspInstance.duration[v] - 1})

\* Lexicographic order of the candidates, tuples of one length.
Before(c, d) ==
  \E k \in DOMAIN c : /\ c[k] < d[k]
                      /\ \A l \in 1 .. k - 1 : c[l] = d[l]

\* GraspArray: cost, place in toPlace, position; all positions are candidates.
ArrayCandidates(sampled) ==
  UNION {LET v == toPlace[n]
         IN  {<<CostAt(v, s), n, s>> : s \in Positions(Window(starts, v), v)} :
           n \in sampled}

ArrayChoices(sampled) ==
  LET C == ArrayCandidates(sampled)
  IN  {<<c[2], c[3]>> :
         c \in {d \in C : Cardinality({b \in C : Before(b, d)}) < graspSelection}}

\* GraspSkyline: a candidate is an interval of positions, each of which begins
\* where the sky line without the job changes under one of its ends.
Borders(v, w) ==
  LET d  == graspInstance.duration[v]
      ev == {e \in UNION {{starts[u], starts[u] + graspInstance.duration[u]} :
                            u \in Job \ {v}} : w.release < e /\ e <= w.deadline}
  IN  {w.release, w.deadline - d + 1}
        \cup {e \in ev : e <= w.deadline - d}
        \cup {e - d : e \in {f \in ev : f >= w.release + d}}

SkylineCandidates(sampled) ==
  UNION {LET v  == toPlace[n]
             bs == Borders(v, Window(starts, v))
         IN  {<<CostAt(v, s), n, s, Min({b \in bs : b > s}) - s>> :
                s \in bs \ {Max(bs)}} : n \in sampled}

\* The number drawn is reduced by the position of every candidate it passes,
\* not by its length; below zero, nothing is chosen in this round.
Left(C, drawn, c) ==
  drawn - MapThenSumSet(LAMBDA b : b[3], {b \in C : Before(b, c)})

SkylineChoices(sampled) ==
  LET C == SkylineCandidates(sampled)
      Drawn == 0 .. Min({graspSelection, MapThenSumSet(LAMBDA c : c[4], C)}) - 1
      Passed(d, c) == \A b \in C : Before(b, c) => Left(C, d, b) >= b[4]
      Steps == UNION {{c} \X (0 .. c[4] - 1) : c \in C}
  IN  {<<x[1][2], x[1][3] + x[2]>> :
         x \in {y \in Steps : \E d \in Drawn : y[2] = Left(C, d, y[1]) /\ Passed(d, y[1])}}

Place ==
  /\ graspPhase = "build" /\ toPlace # <<>>
  /\ \E sampled \in Samples :
     \E c \in IF variant.usage = "array" THEN ArrayChoices(sampled)
                                        ELSE SkylineChoices(sampled) :
       /\ starts' = [starts EXCEPT ![toPlace[c[1]]] = c[2]]
       /\ toPlace' = [n \in 1 .. Len(toPlace) - 1 |->
                        IF n < c[1] THEN toPlace[n] ELSE toPlace[n + 1]]
  /\ UNCHANGED <<graspCase, graspPhase, bestVars, climbVars, usageVars>>

-----------------------------------------------------------------------------
(* hillClimber()                                                             *)

BeginClimb ==
  /\ graspPhase = "build"
  /\ graspPhase' = "climb"
  /\ toPlace' = <<>>
  /\ cost' = MaxCosts(graspInstance, starts)
  /\ newCost' = cost'
  /\ newStarts' = starts
  /\ moved' = {}
  /\ UNCHANGED <<graspCase, starts, bestVars, usageVars>>

\* uniform selection: one job after the other goes somewhere in its window.
Move(v) ==
  /\ graspPhase = "climb"
  /\ v \notin moved /\ Cardinality(moved) < Selections
  /\ moved' = moved \cup {v}
  /\ \E s \in Positions(Window(newStarts, v), v) :
       newStarts' = [newStarts EXCEPT ![v] = s]
  /\ UNCHANGED <<graspCase, graspPhase, starts, bestVars, toPlace, cost, newCost,
                 usageVars>>

AllMoved == moved # {} /\ Cardinality(moved) = Min({Selections, JobCount})

\* Mutant: the costs of the schedule taken over are forgotten.
KeepWithOldCosts ==
  /\ graspPhase = "climb" /\ AllMoved
  /\ IF MaxCosts(graspInstance, newStarts) < cost
     THEN starts' = newStarts ELSE UNCHANGED starts
  /\ cost' = cost
  /\ newStarts' = starts'
  /\ newCost' = cost'
  /\ moved' = {}
  /\ UNCHANGED <<graspCase, graspPhase, bestVars, toPlace, usageVars>>

Keep ==
  /\ graspPhase = "climb" /\ AllMoved
  /\ IF MaxCosts(graspInstance, newStarts) < cost
     THEN starts' = newStarts /\ cost' = MaxCosts(graspInstance, newStarts)
     ELSE UNCHANGED <<starts, cost>>
  /\ newStarts' = starts'
  /\ newCost' = cost'
  /\ moved' = {}
  /\ UNCHANGED <<graspCase, graspPhase, bestVars, toPlace, usageVars>>

\* weighted selection, on arrays of the usage at every time step.
resourceUsage(st) ==
  [x \in 0 .. LastDeadline(graspInstance) |-> UsageAt(graspInstance, st, x)]

BeginWeigh ==
  /\ graspPhase = "climb" /\ moved = {} /\ variant.weighted
  /\ graspPhase' = "weigh"
  /\ weighedUsage' = resourceUsage(starts)
  /\ newUsage' = weighedUsage'
  /\ UNCHANGED <<graspCase, starts, bestVars, toPlace, climbVars>>

\* The costs of the other jobs and of v everywhere in its window; a position
\* below the costs reached so far is taken if there is one, the release already
\* below the costs of starts.  newCost is the maximum over the job's new place.
Weigh(v) ==
  LET w      == Window(newStarts, v)
      d      == graspInstance.duration[v]
      Runs(s, x) == s <= x /\ x < s + d
      filled == [x \in DOMAIN newUsage |->
                   IF w.release <= x /\ x < w.deadline /\ ~ Runs(newStarts[v], x)
                   THEN newUsage[x] + graspInstance.usage[v] ELSE newUsage[x]]
      newCosts == [s \in Positions(w, v) |-> Max({filled[x] : x \in s .. s + d - 1})]
      better == {s \in Positions(w, v) :
                   newCosts[s] < IF s = w.release THEN cost ELSE newCost}
  IN  /\ graspPhase = "weigh"
      /\ v \notin moved /\ Cardinality(moved) < Selections
      /\ moved' = moved \cup {v}
      /\ \E s \in IF better = {} THEN Positions(w, v) ELSE better :
           /\ newStarts' = [newStarts EXCEPT ![v] = s]
           /\ newCost' = newCosts[s]
           /\ newUsage' =
                [x \in DOMAIN newUsage |->
                   IF w.release <= x /\ x < w.deadline /\ ~ Runs(s, x)
                   THEN filled[x] - graspInstance.usage[v] ELSE filled[x]]
      /\ UNCHANGED <<graspCase, graspPhase, starts, bestVars, toPlace, cost,
                     weighedUsage>>

\* usage stays that of the schedule the weighted selection began with.
KeepWeighed ==
  /\ graspPhase = "weigh" /\ AllMoved
  /\ IF newCost < cost
     THEN starts' = newStarts /\ cost' = newCost
     ELSE UNCHANGED <<starts, cost>>
  /\ newStarts' = starts'
  /\ newCost' = cost'
  /\ newUsage' = weighedUsage
  /\ moved' = {}
  /\ UNCHANGED <<graspCase, graspPhase, bestVars, toPlace, weighedUsage>>

-----------------------------------------------------------------------------
(* The end of an iteration of run(), and of the search.  nextReset wraps      *)
(* around below zero if there are no resets; it is not looked at then.       *)

EndIteration ==
  /\ moved = {}
  /\ graspPhase = IF variant.weighted THEN "weigh" ELSE "climb"
  /\ graspPhase' = "loop"
  /\ IF BelowBest(cost)
     THEN /\ bestStarts' = starts /\ bestCosts' = cost
          /\ nextReset' = resetCount
          /\ UNCHANGED starts
     ELSE /\ UNCHANGED <<bestStarts, bestCosts>>
          /\ IF resetCount = 0
             THEN UNCHANGED <<nextReset, starts>>
             ELSE IF nextReset = 1
             THEN nextReset' = resetCount /\ starts' = bestStarts
             ELSE nextReset' = nextReset - 1 /\ UNCHANGED starts
  /\ newStarts' = NoStarts
  /\ cost' = 0 /\ newCost' = 0
  /\ weighedUsage' = NoUsage /\ newUsage' = NoUsage
  /\ UNCHANGED <<graspCase, toPlace, moved>>

EndRun ==
  /\ graspPhase = "loop"
  /\ graspPhase' = "done"
  /\ UNCHANGED <<graspCase, starts, bestVars, toPlace, climbVars, usageVars>>

GraspNext ==
  \/ StartRun \/ BeginIteration \/ Place \/ BeginClimb \/ Keep
  \/ BeginWeigh \/ KeepWeighed \/ EndIteration \/ EndRun
  \/ \E v \in Job : Move(v) \/ Weigh(v)

GraspSpec == GraspInit /\ [][GraspNext]_graspVars

-----------------------------------------------------------------------------
(***************************************************************************)
(* The search never leaves the feasible schedules: one job after the other *)
(* moves in the window that the present places of its neighbours leave it, *)
(* in all four implementations, in both hill climbers and after a reset;   *)
(* and every window holds the place a job has.  The schedule returned is   *)
(* feasible as soon as one iteration has ended.                            *)
(***************************************************************************)
SearchIsFeasible ==
  graspPhase # "new" =>
    /\ LagFeasible(graspInstance, starts)
    /\ graspPhase \in {"climb", "weigh"} => LagFeasible(graspInstance, newStarts)
    /\ bestCosts # Infinity => LagFeasible(graspInstance, bestStarts)
    /\ graspPhase = "build" =>
         \A n \in DOMAIN toPlace :
           starts[toPlace[n]] \in Positions(Window(starts, toPlace[n]), toPlace[n])

(***************************************************************************)
(* Without the weighted selection, the costs that the search compares are  *)
(* the ones calculate_max_costs() finds for the schedules it holds:        *)
(* bestCosts for bestStarts, which no peak exceeds, cost for starts while  *)
(* the hill climber runs, and between two iterations no schedule is left   *)
(* that costs less than the best.  (The weighted selection takes the peak  *)
(* in a window for the costs, and goes on with the usage of a schedule it  *)
(* has left.)                                                              *)
(***************************************************************************)
CostsFollowSchedules ==
  graspPhase # "new" /\ ~ variant.weighted =>
    /\ bestCosts # Infinity => /\ bestCosts = MaxCosts(graspInstance, bestStarts)
                               /\ Peak(graspInstance, bestStarts) <= bestCosts
    /\ graspPhase = "climb" => cost = MaxCosts(graspInstance, starts)
    /\ graspPhase = "loop" /\ bestCosts # Infinity => bestCosts <= MaxCosts(graspInstance, starts)

(***************************************************************************)
(* What the comment in calculate_max_costs() asks for: where one job ends  *)
(* and another begins they are not added up, so that the best costs of the *)
(* search are the peak of its best schedule.  The end is put one step too  *)
(* late for that, and the search prefers schedules with gaps.              *)
(***************************************************************************)
BestCostsArePeak ==
  graspPhase # "new" /\ ~ variant.weighted /\ bestCosts # Infinity =>
    bestCosts = Peak(graspInstance, bestStarts)

=============================================================================
