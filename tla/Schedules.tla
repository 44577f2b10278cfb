----------------------------- MODULE Schedules -----------------------------
(***************************************************************************)
(* Instances and schedules as the successor-only solvers see them: jobs    *)
(* with a window, a duration and a usage of one resource, and a lag graph  *)
(* whose edges say that one job starts after the end of another.           *)
(***************************************************************************)
EXTENDS Integers, FiniteSets, FiniteSetsExt

CONSTANT JobCount  \* Instance::job_count()

ASSUME JobCountAssumption == JobCount \in Nat \ {0}

Job == 1 .. JobCount

Instance ==
  [release: [Job -> Nat], deadline: [Job -> Nat], duration: [Job -> Nat],
   usage: [Job -> Nat], lag: SUBSET (Job \X Job)]

\* Solution::verify(), for an instance without window extension and drain.
Feasible(i, start) ==
  /\ start \in [Job -> Nat]
  /\ \A v \in Job : /\ i.release[v] <= start[v]
                    /\ start[v] + i.duration[v] <= i.deadline[v]
  /\ \A e \in i.lag : start[e[1]] + i.duration[e[1]] <= start[e[2]]

\* Some schedule of the instance is feasible.
Solvable(i) ==
  \E start \in [Job -> 0 .. Max({i.deadline[v] : v \in Job})] : Feasible(i, start)

\* Where the sky line may change, and its height at one time step.
Events(i, start) ==
  {start[v] : v \in Job} \cup {start[v] + i.duration[v] : v \in Job}

UsageAt(i, start, x) ==
  LET Running == {v \in Job : start[v] <= x /\ x < start[v] + i.duration[v]}
  IN  MapThenSumSet(LAMBDA v : i.usage[v], Running)

Peak(i, start) == Max({UsageAt(i, start, x) : x \in Events(i, start)})

\* get_maximum_range(): an interval between events over which the usage is
\* maximal.  Which one the tree reports, and whether it joins neighbouring
\* intervals of equal height, is left open.
PeakRanges(i, start) ==
  LET top == Peak(i, start)
      ev  == Events(i, start)
  IN  {r \in ev \X ev :
         /\ r[1] < r[2]
         /\ \A x \in ev : r[1] <= x /\ x < r[2] => UsageAt(i, start, x) = top}

=============================================================================
