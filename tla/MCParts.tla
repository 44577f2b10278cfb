------------------------------ MODULE MCParts ------------------------------
(***************************************************************************)
(* The parts of the system that share no state with each other at run      *)
(* time, checked together: every behaviour chooses one of them and leaves  *)
(* the others alone.  Three of them work on instances with three jobs.     *)
(***************************************************************************)
EXTENDS SwagGraph, Traits, ILP, GRASP, Solutions, Cluster

VARIABLE part  \* the part that has been chosen

partsVars ==
  <<part, graphVars, traitsVars, ilpVars, graspVars, solutionVars, clusterVars>>

Only(p, Step) == part \in {"none", p} /\ part' = p /\ Step

GraphStep == Only("graph", GraphNext)
               /\ UNCHANGED <<traitsVars, ilpVars, graspVars, solutionVars, clusterVars>>
TraitsStep == Only("traits", TraitsNext)
               /\ UNCHANGED <<graphVars, ilpVars, graspVars, solutionVars, clusterVars>>
ILPStep == Only("ilp", ILPNext)
               /\ UNCHANGED <<graphVars, traitsVars, graspVars, solutionVars, clusterVars>>
GraspStep == Only("grasp", GraspNext)
               /\ UNCHANGED <<graphVars, traitsVars, ilpVars, solutionVars, clusterVars>>
SolutionStep == Only("solution", SolutionNext)
               /\ UNCHANGED <<graphVars, traitsVars, ilpVars, graspVars, clusterVars>>
ClusterStep == Only("cluster", ClusterNext)
               /\ UNCHANGED <<graphVars, traitsVars, ilpVars, graspVars, solutionVars>>

PartsInit ==
  /\ part = "none"
  /\ GraphInit /\ TraitsInit /\ ILPInit /\ GraspInit /\ SolutionInit /\ ClusterInit

PartsNext ==
  GraphStep \/ TraitsStep \/ ILPStep \/ GraspStep \/ SolutionStep \/ ClusterStep

PartsSpec == PartsInit /\ [][PartsNext]_partsVars

-----------------------------------------------------------------------------
\* Five jobs: two lags, five pairs of other jobs that edges may be put between.
Lags == <<<<1, 2>>, <<4, 5>>>>
Others == {<<1, 3>>, <<2, 3>>, <<2, 4>>, <<2, 5>>, <<3, 5>>}

-----------------------------------------------------------------------------
I(r, d, p, u, l) ==
  [release |-> r, deadline |-> d, duration |-> p, usage |-> u, lags |-> l]

\* Every graph over four ordered pairs, cycles of two and of three jobs among
\* them, with lags below zero and beyond the durations, in a wide and in a
\* narrow set of windows, and in one that leaves no room between jobs of which
\* two have no duration.
Pairs == {<<1, 2>>, <<2, 3>>, <<3, 1>>, <<1, 3>>}
NoEdge == 9
EdgeSets ==
  {{<<q[1], q[2], f[q]>> : q \in {p \in Pairs : f[p] # NoEdge}} :
     f \in [Pairs -> {-1, 2, NoEdge}]}

AllGraphs ==
  {I(<<0, 1, 0>>, <<4, 4, 5>>, <<1, 2, 1>>, <<1, 1, 1>>, l) : l \in EdgeSets}
    \cup {I(<<0, 0, 0>>, <<2, 3, 3>>, <<2, 1, 1>>, <<1, 1, 1>>, l) : l \in EdgeSets}
    \cup {I(<<0, 0, 0>>, <<2, 2, 2>>, <<0, 2, 0>>, <<1, 1, 1>>, l) : l \in EdgeSets}

\* No window extension, and one of every job.
AnyExtension == {<<0, 0>>, <<3, 1>>}

\* What GRASP asks for, and what it takes one, two and three transformers to
\* provide, or none can.
Requests ==
  {{"LAGS_ONLY_POSITIVE", "LAGS_DAG", "NO_WINDOW_EXTENSION"},
   {"COMMON_RELEASE", "CONSISTENT_WINDOWS"},
   {"COMMON_RELEASE", "CONSISTENT_WINDOWS", "DUMMY_START_END"},
   {"NO_LAGS", "CONSISTENT_WINDOWS"}}

-----------------------------------------------------------------------------
\* Job 3 follows jobs 1 and 2 by its window, by a lag, or not at all; all have
\* to overlap; the windows are disjoint; there is no schedule.
Free   == I(<<0, 0, 3>>, <<3, 3, 4>>, <<1, 2, 1>>, <<1, 2, 1>>, {})
Lagged == I(<<0, 0, 3>>, <<3, 3, 4>>, <<1, 1, 1>>, <<1, 2, 2>>, {<<1, 2, 1>>})
Packed == I(<<0, 0, 0>>, <<3, 3, 3>>, <<1, 2, 1>>, <<1, 2, 2>>, {<<3, 1, -1>>})
Apart  == I(<<0, 1, 2>>, <<1, 2, 4>>, <<1, 1, 1>>, <<2, 1, 2>>, {})
Broken == I(<<0, 0, 3>>, <<2, 3, 4>>, <<2, 2, 1>>, <<1, 1, 1>>, {<<1, 2, 2>>})
Linked == I(<<0, 0, 2>>, <<2, 4, 4>>, <<1, 2, 1>>, <<1, 2, 2>>, {<<1, 3, 2>>})

\* Instances whose optimum the relaxation cannot reach take longer.
ILPSmall ==
  (Formulations \X {Free, Lagged, Broken, Apart})
    \cup ({"DTILP", "OBILP", "FBILP"} \X {Packed})
    \cup ({"EBILP", "EBILPStartPoints"} \X {Linked})

\* The instances are within what OptimalIsLeastPeak is proved for.
ASSUME OrdinaryILPSmall == OrdinaryCases

-----------------------------------------------------------------------------
Slack == I(<<0, 0, 1>>, <<3, 4, 4>>, <<1, 2, 1>>, <<1, 2, 1>>, {<<1, 2, 1>>})
Sparse == I(<<0, 0, 0>>, <<3, 3, 4>>, <<2, 1, 1>>, <<1, 2, 2>>,
            {<<2, 3, 2>>, <<1, 3, 0>>})

GraspSmall ==
  {<<Sparse, [order |-> "random", usage |-> "array", weighted |-> FALSE]>>,
   <<Sparse, [order |-> "sorted", usage |-> "skyline", weighted |-> TRUE]>>,
   <<Slack, [order |-> "sorted", usage |-> "skyline", weighted |-> FALSE]>>}

-----------------------------------------------------------------------------
\* The extensions and the costs an instance is given with.
E(inst, limits, hard, available, base, flexible, investment) ==
  [release |-> inst.release, deadline |-> inst.deadline, duration |-> inst.duration,
   usage |-> inst.usage, lags |-> inst.lags,
   timeLimit |-> limits[1], jobLimit |-> limits[2], hardDeadline |-> hard,
   available |-> available, base |-> base, flexible |-> flexible,
   investment |-> investment]

Line(c) == {<<c, 1>>}
Square(c) == {<<c, 2>>}

Narrow == I(<<1, 1, 2>>, <<2, 3, 3>>, <<1, 2, 1>>, <<1, 2, 2>>, {<<1, 2, 1>>})
Mixed  == I(<<0, 1, 1>>, <<2, 3, 2>>, <<2, 1, 0>>, <<2, 1, 1>>, {<<3, 1, -1>>})

\* Availability and costs that change while jobs run, limits on the time alone
\* or the jobs alone, a hard deadline that cuts off part of the extensions, one
\* that leaves no schedule, one before any job can end, one where no extension is
\* allowed, costs that DTILP does not take, and costs below zero.
SolutionsSmall ==
  {E(Narrow, <<2, 2>>, NoDeadline, <<<<0, 0>>, <<1, 2>>, <<3, 1>>>>,
     Line(1), <<<<2, Line(2)>>>>, Line(2)),
   E(Narrow, <<2, 1>>, 4, <<<<0, 1>>>>, Line(2), <<<<4, Line(-2)>>>>, Line(1)),
   E(Narrow, <<1, 0>>, NoDeadline, <<<<0, 0>>>>, {}, <<>>, Line(1)),
   E(Mixed, <<2, 3>>, 3, <<<<0, 1>>, <<2, 0>>>>, {}, <<<<1, Line(1)>>>>, Line(3)),
   E(Mixed, <<0, 0>>, 2, <<<<0, 0>>, <<1, 3>>>>, Line(1), <<>>, Line(1)),
   E(Narrow, <<1, 2>>, 2, <<<<0, 0>>>>, Line(1), <<>>, {}),
   E(Narrow, <<0, 0>>, 1, <<<<0, 0>>>>, Line(1), <<>>, {}),
   E(Narrow, <<1, 1>>, NoDeadline, <<<<0, 0>>>>, Line(1), <<<<2, Line(-3)>>>>, Line(1)),
   E(Mixed, <<1, 1>>, NoDeadline, <<<<0, 1>>, <<1, 0>>>>,
     Square(1), <<<<2, Line(1)>>>>, Line(1) \cup Square(2))}

-----------------------------------------------------------------------------
T(i, n, k) == [inst |-> i, name |-> n, kvs |-> k]

\* The last one has the name of the others and no key-values.
ThreeTasks == <<T("a", "fast", {"x"}), T("b", "fast", {"x"}), T("a", "fast", {})>>

\* One and a half tasks for every node.
HalfBorders == [k \in 0 .. 1 |-> (k * 3) \div 2]

=============================================================================
