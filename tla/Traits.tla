------------------------------- MODULE Traits -------------------------------
(***************************************************************************)
(* instance/traits.cpp: TraitsBuilder, which finds out what is true of an  *)
(* instance after the search and the sweeps of module CriticalPaths, and   *)
(* TraitsRouter, by which the runner looks for a sequence of transformers  *)
(* that turns the instance into one a solver accepts.                      *)
(***************************************************************************)
EXTENDS CriticalPaths

CONSTANTS
  Extensions,     \* window extension: how many jobs, and by how much at most
  ResourceFlags,  \* sets of the flags that the resources and the drain decide on
  TraitRequests   \* what solvers require: sets of flags

ASSUME TraitsAssumption ==
  /\ Extensions \subseteq Nat \X Nat
  /\ ResourceFlags \subseteq
       SUBSET {"NO_DRAIN", "ZERO_AVAILABILITY", "FLAT_AVAILABILITY", "FLAT_OVERSHOOT"}

VARIABLES
  traits,       \* computed_traits.flags
  request,      \* get_requirements() of the solver
  routePhase,   \* "off", "built", "search", "walk"; "done" with a path, "none"
                \* without one, or "exit" of the process
  routeOrder,   \* the transformers in the order of their addresses
  routeQueue,   \* the profiles do_bfs() has still to expand
  routeNext,    \* the next transformer the first of them is tried with
  routeTree,    \* every profile found: the last transformer, and its input
  routeProfile, \* cur in get_path(), final_profile at first
  route         \* the path as far as it is known, last transformer last

routeVars ==
  <<traits, request, routePhase, routeOrder, routeQueue, routeNext, routeTree,
    routeProfile, route>>

traitsVars == <<pathVars, routeVars>>

-----------------------------------------------------------------------------
(* TraitsBuilder                                                             *)

Sources == {v \in Job : ReverseNeighbors(v) = {}}
Sinks == {v \in Job : Neighbors(v) = {}}

\* What a depth first search from v visits: a walk of n edges at most.
Visited(v) ==
  LET Within[n \in 0 .. JobCount] ==
        IF n = 0 THEN {v}
        ELSE Within[n - 1] \cup UNION {{e[2] : e \in Neighbors(u)} : u \in Within[n - 1]}
  IN  Within[JobCount]

\* Mutant: the sinks are not counted.
AnySinks ==
  /\ Cardinality(Sources) = 1
  /\ \A v \in Sources : Visited(v) = Job

\* One source at most is left when the loop has ended, and one sink at most.
HasDummyStartEnd ==
  /\ Cardinality(Sources) = 1 /\ Cardinality(Sinks) <= 1
  /\ \A v \in Sources : Visited(v) = Job

Common(values) == Cardinality(Range(values)) = 1

\* The flags run() sets, by name.
Built(extension) ==
  LET i == pathInstance
  IN  [NO_LAGS |-> i.lags = {},
       LAGS_ONLY_SUCCESSORS |-> \A e \in i.lags : e[3] = i.duration[e[1]],
       LAGS_ONLY_GREATER_DURATION |-> \A e \in i.lags : e[3] >= i.duration[e[1]],
       LAGS_ONLY_POSITIVE |-> \A e \in i.lags : e[3] >= 0,
       LAGS_DAG |-> lagsDag,
       COMMON_RELEASE |-> Common(i.release),
       COMMON_DEADLINE |-> Common(i.deadline),
       COMMON_DURATION |-> Common(i.duration),
       CONSISTENT_WINDOWS |->
         \A v \in Job : /\ i.release[v] >= earliest_start[v]
                        /\ i.deadline[v] <= latest_finish[v],
       DUMMY_START_END |-> HasDummyStartEnd,
       NO_WINDOW_EXTENSION |-> 0 \in Range(extension),
       WINDOW_EXTENSION_JOBS_UNLIMITED |->
         0 \notin Range(extension) /\ extension[1] >= JobCount]

TraitsInit ==
  /\ PathInit
  /\ traits = {} /\ request = {}
  /\ routePhase = "off"
  /\ routeOrder = <<>> /\ routeQueue = <<>> /\ routeNext = 1
  /\ routeTree = <<>>
  /\ routeProfile = {}
  /\ route = <<>>

\* compute_traits(), once both sweeps have ended.  The exception of the reverse
\* sweep leaves it, and meets no handler in the worker thread.
BuildTraits ==
  /\ routePhase = "off" /\ pathPhase \in {"done", "overrun"}
  /\ \E extension \in Extensions, others \in ResourceFlags :
       traits' = {f \in DOMAIN Built(extension) : Built(extension)[f]} \cup others
  /\ routePhase' = "built"
  /\ UNCHANGED <<pathVars, request, routeOrder, routeQueue, routeNext, routeTree,
                 routeProfile, route>>

-----------------------------------------------------------------------------
(* TraitsRouter                                                              *)

Transformers == {"DummyStartEnd", "SameStartEnd", "ConsistentWindow"}

\* WANT_YES of get_requirements().  A WANT_NO, which is all that would keep
\* DummyStartEnd from adding the dummies twice, is not looked at by match().
Requires ==
  [DummyStartEnd |-> {"LAGS_DAG", "NO_WINDOW_EXTENSION"},
   SameStartEnd |-> {"NO_WINDOW_EXTENSION"},
   ConsistentWindow |-> {"NO_WINDOW_EXTENSION"}]

\* WANT_YES and WANT_NO of get_transformation().
Adds ==
  [DummyStartEnd |-> {"DUMMY_START_END", "NO_WINDOW_EXTENSION"},
   SameStartEnd |-> {"COMMON_RELEASE", "COMMON_DEADLINE", "NO_WINDOW_EXTENSION"},
   ConsistentWindow |-> {"CONSISTENT_WINDOWS", "NO_WINDOW_EXTENSION"}]

Removes ==
  [DummyStartEnd |-> {"NO_LAGS", "COMMON_DURATION"},
   SameStartEnd |-> {"NO_LAGS", "COMMON_DURATION", "DUMMY_START_END"},
   ConsistentWindow |-> {"COMMON_RELEASE", "COMMON_DEADLINE"}]

Matches(profile, t) == Requires[t] \subseteq profile
Fulfills(profile) == request \subseteq profile
Transformed(profile, t) == (profile \ Removes[t]) \cup Adds[t]

\* get_path() up to the search.  The set of transformers is ordered by address.
AskForRoute ==
  /\ routePhase = "built"
  /\ request' \in TraitRequests
  /\ routeOrder' \in {o \in [1 .. 3 -> Transformers] : Range(o) = Transformers}
  /\ routePhase' = IF request' \subseteq traits THEN "done" ELSE "search"
  /\ routeQueue' = <<traits>>
  /\ routeTree' = [p \in {traits} |-> <<"none", traits>>]
  /\ UNCHANGED <<pathVars, traits, routeNext, routeProfile, route>>

\* The tree once t has turned a profile into another one.
WithInput(tree, out, t, profile) ==
  [p \in DOMAIN tree \cup {out} |-> IF p = out THEN <<t, profile>> ELSE tree[p]]

\* One transformer tried on the first profile of the queue, which is popped
\* after the last one.
SearchRoute ==
  LET profile == Head(routeQueue)
      t       == routeOrder[routeNext]
      out     == Transformed(profile, t)
      fresh   == Matches(profile, t) /\ out \notin DOMAIN routeTree
      queued  == IF fresh THEN Append(routeQueue, out) ELSE routeQueue
      found   == fresh /\ Fulfills(out)
  IN  /\ routePhase = "search"
      /\ routeTree' = IF fresh THEN WithInput(routeTree, out, t, profile) ELSE routeTree
      /\ routeQueue' = IF found \/ routeNext = 3 THEN Tail(queued) ELSE queued
      /\ routeNext' = IF routeNext = 3 THEN 1 ELSE routeNext + 1
      /\ routeProfile' = IF found THEN out ELSE routeProfile
      /\ routePhase' = IF found THEN "walk"
                       ELSE IF routeQueue' = <<>> THEN "none" ELSE "search"
      /\ UNCHANGED <<pathVars, traits, request, routeOrder, route>>

\* Mutant: the order is not reversed.
WalkRouteBackwards ==
  LET from == routeTree[routeProfile]
  IN  /\ routePhase = "walk"
      /\ route' = Append(route, from[1])
      /\ routeProfile' = from[2]
      /\ routePhase' = IF Len(route) > 2 THEN "exit"
                       ELSE IF from[2] = traits THEN "done" ELSE "walk"
      /\ UNCHANGED <<pathVars, traits, request, routeOrder, routeQueue, routeNext,
                     routeTree>>

\* The walk back to the profile of the instance, with its exit on the fourth
\* step; the order is reversed in the end.
WalkRoute ==
  LET from == routeTree[routeProfile]
  IN  /\ routePhase = "walk"
      /\ route' = <<from[1]>> \o route
      /\ routeProfile' = from[2]
      /\ routePhase' = IF Len(route) > 2 THEN "exit"
                       ELSE IF from[2] = traits THEN "done" ELSE "walk"
      /\ UNCHANGED <<pathVars, traits, request, routeOrder, routeQueue, routeNext,
                     routeTree>>

TraitsNext ==
  \/ PathNext /\ UNCHANGED routeVars
  \/ BuildTraits \/ AskForRoute \/ SearchRoute \/ WalkRoute

TraitsSpec == TraitsInit /\ [][TraitsNext]_traitsVars

-----------------------------------------------------------------------------
(***************************************************************************)
(* What the traits of an instance say of its lags and windows.  With       *)
(* LAGS_DAG, no cycle of several jobs lies behind a source (one that no    *)
(* source leads to, or of a single job, goes unnoticed); with              *)
(* DUMMY_START_END, one job leads to all jobs; and the implications listed *)
(* in traits.cpp hold.  If the lags have no cycle, the flags say all that  *)
(* their names promise: LAGS_DAG is set; with CONSISTENT_WINDOWS, all jobs *)
(* may start at their releases at once, and end at their deadlines; and    *)
(* with DUMMY_START_END, all jobs lead to one as well.                     *)
(***************************************************************************)
TraitsTrue ==
  routePhase # "off" =>
    /\ "LAGS_DAG" \in traits =>
         \A s \in Sources, v, w \in Job :
           v \in Visited(s) /\ w \in Visited(v) /\ v \in Visited(w) => v = w
    /\ "DUMMY_START_END" \in traits => \E first \in Job : Visited(first) = Job
    /\ \A p \in {<<"NO_LAGS", "LAGS_ONLY_SUCCESSORS">>, <<"NO_LAGS", "LAGS_DAG">>,
                 <<"LAGS_ONLY_SUCCESSORS", "LAGS_ONLY_GREATER_DURATION">>,
                 <<"LAGS_ONLY_GREATER_DURATION", "LAGS_ONLY_POSITIVE">>} :
         p[1] \in traits => p[2] \in traits
    /\ Acyclic(pathInstance) =>
         /\ "LAGS_DAG" \in traits
         /\ "CONSISTENT_WINDOWS" \in traits <=>
              NotTooEarly(pathInstance, pathInstance.release)
                /\ NotTooLate(pathInstance, pathInstance.deadline)
         /\ "DUMMY_START_END" \in traits <=>
              \E first, last \in Job : \A v \in Job :
                v \in Visited(first) /\ last \in Visited(v)

\* The profile after the first n transformers of the path, and the profiles that
\* n transformers can lead to.
After(n) ==
  LET Profile[k \in 0 .. n] ==
        IF k = 0 THEN traits ELSE Transformed(Profile[k - 1], route[k])
  IN  Profile[n]

Reached(n) ==
  LET Profiles[k \in 0 .. n] ==
        IF k = 0 THEN {traits}
        ELSE Profiles[k - 1] \cup
               {Transformed(q[1], q[2]) :
                  q \in {r \in Profiles[k - 1] \X Transformers : Matches(r[1], r[2])}}
  IN  Profiles[n]

(***************************************************************************)
(* TraitsRouter finds a path if there is one, a shortest one, each         *)
(* transformer of it gets what it requires from the ones before it, and    *)
(* the profile at its end is one the solver accepts.  get_path() never     *)
(* leaves the process.                                                     *)
(***************************************************************************)
RoutesExact ==
  /\ routePhase # "exit"
  /\ routePhase = "done" =>
       /\ \A n \in DOMAIN route : Requires[route[n]] \subseteq After(n - 1)
       /\ request \subseteq After(Len(route))
       /\ route # <<>> => \A p \in Reached(Len(route) - 1) : ~ request \subseteq p
  /\ routePhase = "none" => \A p \in Reached(8) : ~ request \subseteq p

=============================================================================
