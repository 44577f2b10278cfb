---------------------------- MODULE CriticalPaths ----------------------------
(***************************************************************************)
(* algorithms/graphalgos.cpp, what every solver prepares an instance with: *)
(* the depth first search of TopologicalSort, the two sweeps of            *)
(* CriticalPathComputer and the scan of NecessaryOrderComputer, and the    *)
(* test of TraitsBuilder::check_lag_dag(), which sorts graphs that may     *)
(* have cycles.                                                            *)
(***************************************************************************)
EXTENDS LagSchedules, Sequences

CONSTANTS
  PathInstances,  \* the instances
  NoOrder         \* pathOrder before the sort has ended

\* The places of the jobs are unsigned numbers, and none is the largest of them.
ASSUME PathAssumption ==
  /\ PathInstances \subseteq LagInstance
  /\ \A i \in PathInstances : IsFiniteSet(i.lags)
  /\ JobCount <= 2147483647

VARIABLES
  pathInstance,
  pathPhase,    \* "new", "sort", "forward", "reverse", "count", "done", or how
                \* it ended otherwise: "throw", or "overrun" of a vector
  pathRoot,     \* the loop variable of TopologicalSort::get()
  pathStack,    \* the jobs dfs_rec() is in, innermost first
  visited,      \* of the search from the current root
  indices, index,
  pathOrder,    \* topological_order
  pathSwept,    \* how many jobs of the order the sweep has relaxed
  earliest_start, latest_finish,
  predecessor_count, successor_count,
  lagsDag       \* whether check_lag_dag() sets LAGS_DAG

sortVars == <<pathRoot, pathStack, visited, indices, index>>
countVars == <<predecessor_count, successor_count>>
pathVars ==
  <<pathInstance, pathPhase, sortVars, pathOrder, pathSwept, earliest_start,
    latest_finish, countVars, lagsDag>>

Zero == [v \in Job |-> 0]

PathInit ==
  /\ pathInstance = CHOOSE i \in PathInstances : TRUE
  /\ pathPhase = "new"
  /\ pathRoot = 1
  /\ pathStack = <<>>
  /\ visited = {}
  /\ indices = Zero
  /\ index = JobCount - 1
  /\ pathOrder = NoOrder
  /\ pathSwept = 0
  /\ earliest_start = Zero
  /\ latest_finish = Zero
  /\ predecessor_count = Zero
  /\ successor_count = Zero
  /\ lagsDag = FALSE

Begin ==
  /\ pathPhase = "new"
  /\ pathInstance' \in PathInstances
  /\ pathPhase' = "sort"
  /\ UNCHANGED <<sortVars, pathOrder, pathSwept, earliest_start, latest_finish,
                 countVars, lagsDag>>

Neighbors(v) == {e \in pathInstance.lags : e[1] = v}
ReverseNeighbors(v) == {e \in pathInstance.lags : e[2] = v}

-----------------------------------------------------------------------------
(* TopologicalSort::get().  The places count from zero, as in the code.      *)

\* Only jobs without incoming edges become roots, each with a fresh search.
NextRoot ==
  /\ pathPhase = "sort" /\ pathStack = <<>> /\ pathRoot <= JobCount
  /\ pathRoot' = pathRoot + 1
  /\ IF ReverseNeighbors(pathRoot) = {}
     THEN pathStack' = <<pathRoot>> /\ visited' = {pathRoot}
     ELSE UNCHANGED <<pathStack, visited>>
  /\ UNCHANGED <<pathInstance, pathPhase, indices, index, pathOrder, pathSwept,
                 earliest_start, latest_finish, countVars, lagsDag>>

Unvisited == {e[2] : e \in Neighbors(Head(pathStack))} \ visited

Descend ==
  /\ pathStack # <<>> /\ Unvisited # {}
  /\ pathStack' = <<Min(Unvisited)>> \o pathStack
  /\ visited' = visited \cup {Min(Unvisited)}
  /\ UNCHANGED <<pathInstance, pathPhase, pathRoot, indices, index, pathOrder,
                 pathSwept, earliest_start, latest_finish, countVars, lagsDag>>

\* Mutant: a job found from a second root gets a second index.
BacktrackAgain ==
  LET v == Head(pathStack)
  IN  /\ pathStack # <<>> /\ Unvisited = {}
      /\ pathStack' = Tail(pathStack)
      /\ indices' = [indices EXCEPT ![v] = index]
      /\ index' = IF index = 0 THEN 2147483647 ELSE index - 1
      /\ UNCHANGED <<pathInstance, pathPhase, pathRoot, visited, pathOrder,
                     pathSwept, earliest_start, latest_finish, countVars, lagsDag>>

\* index-- wraps around after the last job: it is larger than every index then.
Backtrack ==
  LET v == Head(pathStack)
  IN  /\ pathStack # <<>> /\ Unvisited = {}
      /\ pathStack' = Tail(pathStack)
      /\ IF indices[v] <= index
         THEN /\ indices' = [indices EXCEPT ![v] = index]
              /\ index' = IF index = 0 THEN 2147483647 ELSE index - 1
         ELSE UNCHANGED <<indices, index>>
      /\ UNCHANGED <<pathInstance, pathPhase, pathRoot, visited, pathOrder,
                     pathSwept, earliest_start, latest_finish, countVars, lagsDag>>

\* ordered[indices[v]] = v for one job after the other, over a vector of zeros
\* (job 1 here).
Ordered ==
  [p \in 1 .. JobCount |->
     LET here == {v \in Job : indices[v] = p - 1}
     IN  IF here = {} THEN 1 ELSE Max(here)]

\* topo_index[v], likewise.
TopoIndex(order) ==
  [v \in Job |-> LET places == {p \in 1 .. JobCount : order[p] = v}
                 IN  IF places = {} THEN 0 ELSE Max(places) - 1]

\* The vectors of both sweeps hold zeros but for the jobs that occur in the order:
\* on a cycle that no source leads to, jobs may be missing from it.
Initialised(values) ==
  [v \in Job |-> IF v \in Range(Ordered) THEN values[v] ELSE 0]

\* check_lag_dag() takes the order for granted; the sweeps go along it in any
\* case, as check_consistent_windows() and the ILP formulations ask no trait of
\* the graph.
EndSort ==
  LET place == TopoIndex(Ordered)
  IN  /\ pathPhase = "sort" /\ pathStack = <<>> /\ pathRoot > JobCount
      /\ pathOrder' = Ordered
      /\ lagsDag' = (\A e \in pathInstance.lags : place[e[1]] <= place[e[2]])
      /\ pathPhase' = "forward"
      /\ earliest_start' = Initialised(pathInstance.release)
      /\ latest_finish' = Initialised(pathInstance.deadline)
      /\ UNCHANGED <<pathInstance, sortVars, pathSwept, countVars>>

-----------------------------------------------------------------------------
(* CriticalPathComputer                                                      *)

Larger(a, b) == IF a < b THEN b ELSE a

\* get_forward(): the edges out of the next job of the order; a lag that leads
\* below zero counts as zero.
RelaxForward ==
  LET v == pathOrder[pathSwept + 1]
  IN  /\ pathPhase = "forward"
      /\ earliest_start' =
           [t \in Job |->
              Max({earliest_start[t]} \cup
                  {Larger(0, earliest_start[v] + e[3]) :
                     e \in {f \in Neighbors(v) : f[2] = t}})]
      /\ IF pathSwept + 1 = JobCount
         THEN pathPhase' = "reverse" /\ pathSwept' = 0
         ELSE pathSwept' = pathSwept + 1 /\ UNCHANGED pathPhase
      /\ UNCHANGED <<pathInstance, sortVars, pathOrder, latest_finish, countVars,
                     lagsDag>>

\* get_reverse(): the edges into the next job of the reversed order; a finish
\* below zero is an InconsistentDataError.
NewFinish(e) ==
  latest_finish[e[2]] - pathInstance.duration[e[2]]
    + pathInstance.duration[e[1]] - e[3]

RelaxReverse ==
  LET v == pathOrder[JobCount - pathSwept]
  IN  /\ pathPhase = "reverse"
      /\ IF \E e \in ReverseNeighbors(v) : NewFinish(e) < 0
         THEN pathPhase' = "throw" /\ UNCHANGED <<latest_finish, pathSwept>>
         ELSE /\ latest_finish' =
                   [s \in Job |->
                      Min({latest_finish[s]} \cup
                          {NewFinish(e) : e \in {f \in ReverseNeighbors(v) : f[1] = s}})]
              /\ pathSwept' = pathSwept + 1
              /\ pathPhase' = IF pathSwept + 1 = JobCount THEN "count" ELSE "reverse"
      /\ UNCHANGED <<pathInstance, sortVars, pathOrder, earliest_start, countVars,
                     lagsDag>>

-----------------------------------------------------------------------------
(* NecessaryOrderComputer::compute().  Its scans walk the jobs by latest     *)
(* finish, and backwards by earliest start, with nothing but the comparison  *)
(* to stop them: they leave the vector if all jobs are passed.               *)

FinishedBy(v) == {u \in Job : latest_finish[u] <= earliest_start[v]}
StartedAfter(v) == {u \in Job : earliest_start[u] >= latest_finish[v]}

Count ==
  /\ pathPhase = "count"
  /\ IF \E v \in Job : FinishedBy(v) = Job \/ StartedAfter(v) = Job
     THEN pathPhase' = "overrun" /\ UNCHANGED countVars
     ELSE /\ pathPhase' = "done"
          /\ predecessor_count' = [v \in Job |-> Cardinality(FinishedBy(v))]
          /\ successor_count' = [v \in Job |-> Cardinality(StartedAfter(v))]
  /\ UNCHANGED <<pathInstance, sortVars, pathOrder, pathSwept, earliest_start,
                 latest_finish, lagsDag>>

PathNext ==
  \/ Begin \/ NextRoot \/ Descend \/ Backtrack \/ EndSort
  \/ RelaxForward \/ RelaxReverse \/ Count

PathSpec == PathInit /\ [][PathNext]_pathVars

-----------------------------------------------------------------------------
(***************************************************************************)
(* What graphalgos.cpp promises of every instance, whatever cycles its     *)
(* lags have: no feasible schedule starts a job before earliest_start, or  *)
(* ends one that the order contains after latest_finish, and the exception *)
(* only meets instances without a feasible schedule.                       *)
(***************************************************************************)
PathsBound ==
  LET end(start, v) == start[v] + pathInstance.duration[v]
  IN  /\ pathPhase \in {"done", "throw", "overrun"} =>
           \A start \in LagSchedules(pathInstance) :
             /\ \A v \in Job : earliest_start[v] <= start[v]
             /\ \A v \in Range(pathOrder) : end(start, v) <= latest_finish[v]
      /\ pathPhase = "throw" => LagSchedules(pathInstance) = {}

(***************************************************************************)
(* And if the lags have no cycle: the trait LAGS_DAG is set,               *)
(* EarlyScheduler's schedule is the earliest one, latest_finish is the     *)
(* latest that the deadlines and lags leave, and the counts of             *)
(* NecessaryOrderComputer hold in every feasible schedule.  A scan that    *)
(* leaves its vector meets an instance without a feasible schedule, unless *)
(* there is a job of no duration that follows all others in every          *)
(* schedule, or precedes them.                                             *)
(***************************************************************************)
PathsExact ==
  LET end(start, v) == start[v] + pathInstance.duration[v]
  IN  /\ PathsBound
      /\ pathPhase \in {"done", "throw", "overrun"} /\ Acyclic(pathInstance) =>
        /\ lagsDag
        /\ Earliest(pathInstance, earliest_start)
        /\ pathPhase # "throw" => Latest(pathInstance, latest_finish)
        /\ pathPhase = "overrun" =>
             \E v \in Job :
               \/ \A start \in LagSchedules(pathInstance), u \in Job : end(start, u) <= start[v]
               \/ \A start \in LagSchedules(pathInstance), u \in Job : end(start, v) <= start[u]
        /\ pathPhase = "done" =>
             \A start \in LagSchedules(pathInstance), v \in Job :
               /\ predecessor_count[v] <= Cardinality({u \in Job : end(start, u) <= start[v]})
               /\ successor_count[v] <= Cardinality({u \in Job : end(start, v) <= start[u]})

=============================================================================
