---------------------------- MODULE LagSchedules ----------------------------
(***************************************************************************)
(* Instances with arbitrary time lags: an edge <<s, t, lag>> of the lag    *)
(* graph asks t to start at least lag steps after the start of s, and lag  *)
(* may be smaller than the duration of s, or negative.  What the solvers   *)
(* other than SWAG promise is said in terms of these operators.            *)
(***************************************************************************)
EXTENDS Schedules, Functions

Lag == Job \X Job \X Int

LagInstance ==
  [release: [Job -> Nat], deadline: [Job -> Nat], duration: [Job -> Nat],
   usage: [Job -> Nat], lags: SUBSET Lag]

\* Solution::verify(), for an instance without window extension and drain.
LagFeasible(i, start) ==
  /\ \A v \in Job : /\ i.release[v] <= start[v]
                    /\ start[v] + i.duration[v] <= i.deadline[v]
  /\ \A e \in i.lags : start[e[1]] + e[3] <= start[e[2]]

LastDeadline(i) == Max(Range(i.deadline))

LagSchedules(i) ==
  {start \in [Job -> 0 .. LastDeadline(i)] : LagFeasible(i, start)}

\* The start times that respect the releases and the lags, and the finish times
\* that respect the deadlines and the lags.
NotTooEarly(i, start) ==
  /\ \A v \in Job : i.release[v] <= start[v]
  /\ \A e \in i.lags : start[e[1]] + e[3] <= start[e[2]]

NotTooLate(i, finish) ==
  /\ \A v \in Job : finish[v] <= i.deadline[v]
  /\ \A e \in i.lags :
       finish[e[1]] - i.duration[e[1]] + e[3] <= finish[e[2]] - i.duration[e[2]]

\* Each of them is where it is because nothing earlier, or later, is allowed.
\* In a graph without cycles that makes them the earliest and the latest.
Earliest(i, start) ==
  /\ NotTooEarly(i, start)
  /\ \A v \in Job : \/ start[v] = i.release[v]
                    \/ \E e \in i.lags : e[2] = v /\ start[v] = start[e[1]] + e[3]

Latest(i, finish) ==
  /\ NotTooLate(i, finish)
  /\ \A v \in Job :
       \/ finish[v] = i.deadline[v]
       \/ \E e \in i.lags :
            /\ e[1] = v
            /\ finish[v] - i.duration[v] + e[3] = finish[e[2]] - i.duration[e[2]]

\* What CriticalPathComputer returns for it, as module CriticalPaths shows, if
\* there is a feasible schedule.
EarliestStarts(i) ==
  CHOOSE start \in [Job -> 0 .. LastDeadline(i)] : Earliest(i, start)

LatestFinishs(i) ==
  CHOOSE finish \in [Job -> 0 .. LastDeadline(i)] : Latest(i, finish)

\* No cycle of lags: the jobs can be numbered along the edges.
Acyclic(i) ==
  \E number \in [Job -> Job] : \A e \in i.lags : number[e[1]] < number[e[2]]

=============================================================================
