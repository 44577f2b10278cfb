----------------------------- MODULE Solutions -----------------------------
(***************************************************************************)
(* What the runner makes of the start times a solver returns.  First it    *)
(* asks for their costs: compute_costs() sweeps over the starts and ends   *)
(* of the jobs and charges the usage that the availability does not cover. *)
(* Then verify() checks them against the windows of the instance, which it *)
(* may allow to be extended.  DTILP, the one solver that takes extensions  *)
(* and all these costs, is one source of start times; all others may occur *)
(* as well.                                                                *)
(*                                                                         *)
(* There is one resource; costs of several add up.  No edge recharges, and *)
(* no job is longer than its window.                                       *)
(***************************************************************************)
EXTENDS LagSchedules, Sequences

CONSTANTS
  SolutionCases,  \* instances with their extensions and costs
  NoDeadline      \* no hard deadline

\* A polynomial is the set of its terms <<coefficient, exponent>>; a step
\* function is the sequence of its points <<time, value from there on>>.
Increasing(points) == \A k \in 2 .. Len(points) : points[k - 1][1] < points[k][1]

Polynomial == {p \in SUBSET (Int \X Nat) : IsFiniteSet(p)}

ExtendedInstance ==
  [release: [Job -> Nat], deadline: [Job -> Nat], duration: [Job -> Nat],
   usage: [Job -> Nat], lags: SUBSET Lag,
   timeLimit: Nat, jobLimit: Nat, hardDeadline: Nat \cup {NoDeadline},
   available: Seq(Nat \X Nat), base: Polynomial,
   flexible: Seq(Nat \X Polynomial), investment: Polynomial]

ASSUME SolutionAssumption ==
  /\ SolutionCases # {} /\ SolutionCases \subseteq ExtendedInstance
  /\ \A i \in SolutionCases :
       /\ \A v \in Job : i.duration[v] <= i.deadline[v] - i.release[v]
       /\ Len(i.available) > 0 /\ i.available[1][1] = 0
       /\ Increasing(i.available) /\ Increasing(i.flexible)

VARIABLES
  solInstance, solStart,
  solSource,    \* where the start times are from: "any" or "DTILP"
  solPhase,     \* how far the runner has got with the solution
  solVerdict,   \* what verify() returns, and the error it fills in
  solEvents,    \* the events compute_costs() has still to handle, in their order
  solLast,      \* last_t
  solCurrent,   \* current
  solMaxUsage,  \* max_usage
  solCosts      \* acc_overshoot_costs and acc_investment_costs

sweepVars == <<solEvents, solLast, solCurrent, solMaxUsage, solCosts>>
solutionVars == <<solInstance, solStart, solSource, solPhase, solVerdict, sweepVars>>

SumOver(f, S) == MapThenSumSet(LAMBDA x : f[x], S)

\* std::pow()
Power(x, n) ==
  LET power[k \in 0 .. n] == IF k = 0 THEN 1 ELSE x * power[k - 1]
  IN  power[n]

Applied(poly, x) == SumOver([term \in poly |-> term[1] * Power(x, term[2])], poly)

\* get_at(): the last point that is not after pos.
ValueAt(points, pos, before) ==
  LET reached == {k \in DOMAIN points : points[k][1] <= pos}
  IN  IF reached = {} THEN before ELSE points[Max(reached)][2]

AvailableAt(i, t) == ValueAt(i.available, t, 0)

Coefficient(poly, e) == SumOver([x \in poly |-> x[1]], {x \in poly : x[2] = e})

\* add_poly(), which drops the terms that are zero.
AddPoly(p, q) ==
  {term \in {<<Coefficient(p, x[2]) + Coefficient(q, x[2]), x[2]>> : x \in p \cup q} :
     term[1] # 0}

\* set_flexible() adds the base to every point.
OvershootCosts(i, t) ==
  LET points == [k \in DOMAIN i.flexible |->
                   <<i.flexible[k][1], AddPoly(i.base, i.flexible[k][2])>>]
  IN  ValueAt(points, t, i.base)

-----------------------------------------------------------------------------
(* verify(), without recharge.                                               *)

EarlyBy(i, start, v) == Max({0, i.release[v] - start[v]})
LateBy(i, start, v) == Max({0, start[v] + i.duration[v] - i.deadline[v]})

Early(i, start) == {v \in Job : EarlyBy(i, start, v) > 0}
Late(i, start) == {v \in Job : LateBy(i, start, v) > 0}

\* Mutant: the windows that are extended to the left are free.
RightExtension(i, start) == SumOver([v \in Job |-> LateBy(i, start, v)], Job)

WindowExtension(i, start) ==
  SumOver([v \in Job |-> EarlyBy(i, start, v) + LateBy(i, start, v)], Job)
ExtendedJobs(i, start) == Cardinality(Early(i, start)) + Cardinality(Late(i, start))

InTime(i, start) ==
  i.hardDeadline # NoDeadline =>
    \A v \in Job : start[v] + i.duration[v] <= i.hardDeadline

Rejected(fault) == [valid |-> FALSE, fault |-> fault]
Accepted(fault) == [valid |-> TRUE, fault |-> fault]

\* The faults of the windows, in the order in which they are looked for.
WindowFault(i, start) ==
  LET outside == Early(i, start) \cup Late(i, start)
  IN  IF i.timeLimit = 0 /\ i.jobLimit = 0
      THEN CASE outside = {} -> "none"
             [] outside # {} /\ Min(outside) \in Early(i, start) -> "release"
             [] OTHER -> "deadline"
      ELSE CASE ~(WindowExtension(i, start) <= i.timeLimit) -> "extension sum"
             [] ~(ExtendedJobs(i, start) <= i.jobLimit) -> "extended jobs"
             [] OTHER -> "none"

\* The hard deadline is looked at only where windows may be extended, and its
\* fault does not end the verification.
HardDeadlineFault(i, start) ==
  IF InTime(i, start) \/ (i.timeLimit = 0 /\ i.jobLimit = 0)
  THEN "none" ELSE "hard deadline"

Verdict(i, start) ==
  IF WindowFault(i, start) # "none" THEN Rejected(WindowFault(i, start))
  ELSE IF \E e \in i.lags : start[e[1]] + e[3] > start[e[2]] THEN Rejected("lag")
  ELSE Accepted(HardDeadlineFault(i, start))

-----------------------------------------------------------------------------
(* DTILP: every job is switched on at one of the steps that the limit of all *)
(* extensions leaves to it, before the hard deadline.                        *)

\* Mutant: the windows are not extended beyond the deadlines.
LastStepInWindow(i, v) ==
  (IF i.hardDeadline = NoDeadline THEN i.deadline[v]
   ELSE Min({i.deadline[v], i.hardDeadline})) - i.duration[v]

FirstStep(i, v) == Max({0, i.release[v] - i.timeLimit})
LastStep(i, v) ==
  LET finish == i.deadline[v] + i.timeLimit
      last   == IF i.hardDeadline = NoDeadline THEN finish
                ELSE Min({finish, i.hardDeadline})
  IN  last - i.duration[v]

SwitchOnSteps(i, v) == FirstStep(i, v) .. LastStep(i, v)

\* The number of steps is kept in an unsigned: below zero it becomes almost 2^32,
\* more variables than memory or a solver with int for their indices can hold.
CountWraps(i) == \E v \in Job : LastStep(i, v) - FirstStep(i, v) + 1 < 0

Horizon(i) == LastDeadline(i) + i.timeLimit

\* The iterator over the points moves on by at most one for every step.
AvailabilityWalk(i) ==
  LET at[t \in 0 .. Horizon(i)] ==
        LET k == IF t = 0 THEN 1 ELSE at[t - 1]
        IN  IF k < Len(i.available) /\ i.available[k + 1][1] <= t THEN k + 1 ELSE k
  IN  [t \in 0 .. Horizon(i) |-> i.available[at[t]][2]]

\* An extension in one direction, or none: SOS1 over both and the variable that
\* says that the window is not modified.
ExtensionsAllowed(i, start) ==
  /\ Early(i, start) \cap Late(i, start) = {}
  /\ WindowExtension(i, start) <= i.timeLimit
  /\ Cardinality(Early(i, start) \cup Late(i, start)) <= i.jobLimit

DiscreteSchedules(i) ==
  {start \in [Job -> 0 .. Horizon(i)] :
     /\ \A v \in Job : start[v] \in SwitchOnSteps(i, v)
     /\ ExtensionsAllowed(i, start)
     /\ \A e \in i.lags : start[e[1]] + e[3] <= start[e[2]]}

Linear(i) ==
  \A poly \in {i.investment} \cup {OvershootCosts(i, t) : t \in 0 .. Horizon(i)} :
    \A term \in poly : term[2] = 1

\* The variables of the overshoot, one more than there are steps with a constraint,
\* and of the capacity have no upper bound: with a coefficient below zero they
\* bring the sum down to anything, and the costs, whose lower bound is 0, to 0.
OvershootRebate(i) ==
  \E t \in 0 .. Horizon(i) : Coefficient(OvershootCosts(i, t), 1) < 0
InvestmentRebate(i) == Coefficient(i.investment, 1) < 0

\* The least objective for a schedule, where all exponents are 1.
Objective(i, start) ==
  LET available == AvailabilityWalk(i)
      Steps == 0 .. Horizon(i) - 1
      overshoot == [t \in Steps |-> Max({0, UsageAt(i, start, t) - available[t]})]
      costs == [t \in Steps |-> Applied(OvershootCosts(i, t), overshoot[t])]
  IN  (IF OvershootRebate(i) THEN 0 ELSE SumOver(costs, Steps))
        + IF InvestmentRebate(i) THEN 0
          ELSE Applied(i.investment, Max({0} \cup Range(overshoot)))

-----------------------------------------------------------------------------
NotVerified == [valid |-> FALSE, fault |-> "none"]

SolutionInit ==
  /\ solInstance = CHOOSE i \in SolutionCases : TRUE
  /\ solStart = [v \in Job |-> 0]
  /\ solSource = "any"
  /\ solPhase = "none"
  /\ solVerdict = NotVerified
  /\ solEvents = {} /\ solLast = 0 /\ solCurrent = 0 /\ solMaxUsage = 0
  /\ solCosts = [overshoot |-> 0, investment |-> 0]

\* Any start times up to the last step that DTILP looks at.
TakeSchedule ==
  /\ solPhase = "none"
  /\ \E i \in SolutionCases :
       solInstance' = i /\ solStart' \in [Job -> 0 .. Horizon(i)]
  /\ solPhase' = "solved"
  /\ UNCHANGED <<solSource, solVerdict, sweepVars>>

\* The model cannot be built, has no solution, or is solved to optimality.
SolveDTILP ==
  /\ solPhase = "none"
  /\ \E i \in SolutionCases :
       /\ solInstance' = i
       /\ LET model == DiscreteSchedules(i)
              cost == [start \in model |-> Objective(i, start)]
          IN  IF CountWraps(i) \/ ~ Linear(i)
              THEN solPhase' = "failed" /\ UNCHANGED solStart
              ELSE IF model = {} THEN solPhase' = "infeasible" /\ UNCHANGED solStart
              ELSE /\ solStart' \in {start \in model : cost[start] = Min(Range(cost))}
                   /\ solPhase' = "solved"
  /\ solSource' = "DTILP"
  /\ UNCHANGED <<solVerdict, sweepVars>>

\* By time; ends before starts; by the number of the job.
EventBefore(a, b) ==
  \/ a.at < b.at
  \/ a.at = b.at /\ ~a.start /\ b.start
  \/ a.at = b.at /\ a.start = b.start /\ a.job < b.job

StartOf(start, v) == [at |-> start[v], start |-> TRUE, job |-> v]
EndOf(i, start, v) == [at |-> start[v] + i.duration[v], start |-> FALSE, job |-> v]

AllEvents(i, start) ==
  {StartOf(start, v) : v \in Job} \cup {EndOf(i, start, v) : v \in Job}

\* The order of the events is that of EventBefore from here on.
SortEvents ==
  /\ solPhase = "solved"
  /\ solEvents' = AllEvents(solInstance, solStart)
  /\ solLast' = Min({e.at : e \in solEvents'})
  /\ solPhase' = "sweeping"
  /\ UNCHANGED <<solInstance, solStart, solSource, solVerdict, solCurrent, solMaxUsage, solCosts>>

UsedHere(t) == Max({0, solCurrent - AvailableAt(solInstance, t)})

\* Mutant: the availability at the beginning of a segment stands for all of it.
SegmentCostsAtOnce(until) ==
  LET steps == solLast .. until - 1
  IN  SumOver([t \in steps |-> Applied(OvershootCosts(solInstance, t), UsedHere(solLast))],
              steps)

\* The costs of the segment that ends at the event.
SegmentCosts(until) ==
  LET steps == {t \in solLast .. until - 1 : UsedHere(t) > 0}
  IN  SumOver([t \in steps |-> Applied(OvershootCosts(solInstance, t), UsedHere(t))], steps)

HandleEvent ==
  /\ solPhase = "sweeping"
  /\ \E ev \in solEvents :
       /\ \A other \in solEvents \ {ev} : EventBefore(ev, other)
       /\ solMaxUsage' = Max({solMaxUsage} \cup {UsedHere(t) : t \in solLast .. ev.at - 1})
       /\ solCosts' = [solCosts EXCEPT !.overshoot = @ + SegmentCosts(ev.at)]
       /\ LET used == solInstance.usage[ev.job]
          IN  solCurrent' = IF ev.start THEN solCurrent + used ELSE solCurrent - used
       /\ solLast' = ev.at
       /\ solEvents' = solEvents \ {ev}
  /\ UNCHANGED <<solInstance, solStart, solSource, solPhase, solVerdict>>

InvestmentCosts ==
  /\ solPhase = "sweeping" /\ solEvents = {}
  /\ solCosts' = [solCosts EXCEPT !.investment = Applied(solInstance.investment, solMaxUsage)]
  /\ solPhase' = "evaluated"
  /\ UNCHANGED <<solInstance, solStart, solSource, solVerdict, solEvents,
                 solLast, solCurrent, solMaxUsage>>

\* Any solution but one that has no start times is verified; if it is rejected,
\* the runner throws the error instead of storing it.
Verify ==
  /\ solPhase = "evaluated"
  /\ solVerdict' = Verdict(solInstance, solStart)
  /\ solPhase' = "verified"
  /\ UNCHANGED <<solInstance, solStart, solSource, sweepVars>>

SolutionNext ==
  \/ TakeSchedule \/ SolveDTILP
  \/ SortEvents \/ HandleEvent \/ InvestmentCosts \/ Verify

SolutionSpec == SolutionInit /\ [][SolutionNext]_solutionVars

-----------------------------------------------------------------------------
\* The schedules that respect all lags and windows that have been extended, by
\* no more than the limit in total and for no more jobs than allowed.
Extended(i, start) ==
  \E by \in [Job -> (0 .. i.timeLimit) \X (0 .. i.timeLimit)] :
    /\ SumOver([v \in Job |-> by[v][1] + by[v][2]], Job) <= i.timeLimit
    /\ Cardinality({v \in Job : by[v] # <<0, 0>>}) <= i.jobLimit
    /\ LagFeasible([i EXCEPT !.release = [v \in Job |-> i.release[v] - by[v][1]],
                             !.deadline = [v \in Job |-> i.deadline[v] + by[v][2]]],
                   start)

(***************************************************************************)
(* verify() accepts a schedule if and only if its windows can be extended  *)
(* within both limits so that it respects them and all lags, whether or    *)
(* not it meets the hard deadline.                                         *)
(***************************************************************************)
VerifiedIfExtensible ==
  solPhase = "verified" => (solVerdict.valid <=> Extended(solInstance, solStart))

\* Usage beyond the availability, and what it costs in the steps of a set.
Beyond(i, start, t) == Max({0, UsageAt(i, start, t) - AvailableAt(i, t)})
CostsIn(i, start, steps) ==
  LET over == {t \in steps : Beyond(i, start, t) > 0}
  IN  SumOver([t \in over |-> Applied(OvershootCosts(i, t), Beyond(i, start, t))], over)

\* No job of any schedule here runs later.
AllSteps(i) == 0 .. Horizon(i) + LastDeadline(i)
LeastCapacity(i, start) == Max({Beyond(i, start, t) : t \in AllSteps(i)})

(***************************************************************************)
(* However jobs start and end at the same time, and wherever availability  *)
(* and costs change between two events, compute_costs() has charged each   *)
(* step before the last event once, at its own availability and costs, and *)
(* in the end no step is missing and the investment is for the highest     *)
(* usage not covered by the availability.                                  *)
(***************************************************************************)
CostsExact ==
  /\ solPhase = "sweeping" =>
       solCosts.overshoot = CostsIn(solInstance, solStart, 0 .. solLast - 1)
  /\ solPhase = "evaluated" =>
       /\ solCosts.overshoot = CostsIn(solInstance, solStart, AllSteps(solInstance))
       /\ solCosts.investment =
            Applied(solInstance.investment, LeastCapacity(solInstance, solStart))

(***************************************************************************)
(* DTILP neither cuts off a cheapest schedule nor pays for one with an     *)
(* extension that verify() rejects: its optimum passes verify(), meets the *)
(* hard deadline, and, if no coefficient is below zero, costs no more,     *)
(* when the solution is evaluated, than any schedule that does both.  If   *)
(* it has no solution, or breaks down over linear costs, there is none.    *)
(***************************************************************************)
DiscreteOptimum ==
  LET acceptable == {start \in [Job -> 0 .. Horizon(solInstance)] :
                       /\ Verdict(solInstance, start).valid
                       /\ InTime(solInstance, start)}
      Costs(start) ==
        CostsIn(solInstance, start, AllSteps(solInstance))
          + Applied(solInstance.investment, LeastCapacity(solInstance, start))
  IN  solSource = "DTILP" =>
        /\ \/ solPhase = "infeasible"
           \/ solPhase = "failed" /\ Linear(solInstance)
             => acceptable = {}
        /\ solPhase = "verified" =>
             /\ solStart \in acceptable
             /\ ~ OvershootRebate(solInstance) /\ ~ InvestmentRebate(solInstance) =>
                  solCosts.overshoot + solCosts.investment
                    = Min({Costs(start) : start \in acceptable})

(***************************************************************************)
(* Where windows may be extended, verify() accepts no schedule that ends   *)
(* after the hard deadline.  It does not hold: verify() fills in the error *)
(* and returns true, so that the runner stores the solution.               *)
(***************************************************************************)
HardDeadlineRejects ==
  solPhase = "verified" /\ solVerdict.valid /\ solInstance.timeLimit > 0
    => InTime(solInstance, solStart)

=============================================================================
