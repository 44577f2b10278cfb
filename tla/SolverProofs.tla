---------------------------- MODULE SolverProofs ----------------------------
(***************************************************************************)
(* The solvers for lags of all kinds, for any number of jobs and any       *)
(* instances whose lags have no cycle.                                     *)
(*                                                                         *)
(* GRASP: the search never leaves the feasible schedules, and without the  *)
(* weighted selection its costs are those calculate_max_costs() finds.     *)
(*                                                                         *)
(* ILP: what a formulation returns is feasible, and the usage it reports   *)
(* is a bound on the peak.  DTILP, OBILP and FBILP have variables for the  *)
(* start points; EBILP reads a schedule off event times, and rounding has  *)
(* to keep windows and lags, and what runs at the same time.               *)
(*                                                                         *)
(* What verify() accepts of their answers: the schedules that fit in       *)
(* windows extended within the limits, which without extensions are the    *)
(* feasible ones, and every schedule that the model of DTILP admits.       *)
(*                                                                         *)
(* What they cost: the sweep of compute_costs() charges every step once,   *)
(* and by these costs, unless a coefficient is below zero, the optimum of  *)
(* DTILP is the cheapest schedule that verify() accepts and that meets the *)
(* hard deadline.                                                          *)
(***************************************************************************)
EXTENDS GRASP, ILP, Solutions, ScheduleProofs, TLAPS

-----------------------------------------------------------------------------
(* Moving one job.                                                           *)

\* What the assumption says of an instance that the search runs on.
LEMMA GraspTypes ==
  ASSUME NEW c \in GraspCases
  PROVE  /\ c[1] \in LagInstance /\ Acyclic(c[1]) /\ LagSchedules(c[1]) # {}
         /\ \A v \in Job : c[1].duration[v] > 0
         /\ \A e \in c[1].lags : e[1] # e[2]
<1>1. c[1] \in LagInstance /\ Acyclic(c[1])
  BY GraspAssumption
<1>2. PICK number \in [Job -> Job] : \A e \in c[1].lags : number[e[1]] < number[e[2]]
  BY <1>1 DEF Acyclic
<1>3. \A e \in c[1].lags : e[1] # e[2]
  <2>1. TAKE e \in c[1].lags
  <2>2. number[e[1]] < number[e[2]] /\ e[1] \in Job /\ e[2] \in Job
    BY <1>1, <1>2, InstanceTypes
  <2>3. number[e[1]] \in Int /\ number[e[2]] \in Int
    BY <1>2, <2>2 DEF Job
  <2>4. QED
    BY <2>2, <2>3
<1>4. QED
  BY <1>1, <1>3, GraspAssumption

\* A feasible schedule bounds the window of every job from both sides, even if
\* there are infinitely many lags: the place of the job lies within it.
LEMMA WindowBounds ==
  ASSUME graspCase \in GraspCases,
         NEW st \in [Job -> Int], LagFeasible(graspInstance, st), NEW v \in Job
  PROVE  LET w == Window(st, v)
         IN  /\ w.release \in Nat /\ w.deadline \in Int
             /\ graspInstance.release[v] <= w.release
             /\ w.deadline <= graspInstance.deadline[v]
             /\ w.release <= st[v]
             /\ st[v] + graspInstance.duration[v] <= w.deadline
             /\ \A e \in graspInstance.lags :
                  /\ e[2] = v => st[e[1]] + e[3] <= w.release
                  /\ e[1] = v => w.deadline <= st[e[2]] - e[3] + graspInstance.duration[v]
<1> DEFINE i == graspInstance
           Ins == {e \in i.lags : e[2] = v}
           Outs == {e \in i.lags : e[1] = v}
           R == {i.release[v]} \cup {st[e[1]] + e[3] : e \in Ins}
           D == {i.deadline[v]} \cup {st[e[2]] - e[3] + i.duration[v] : e \in Outs}
<1>1. /\ i.release[v] \in Nat /\ i.deadline[v] \in Nat /\ i.duration[v] \in Nat
      /\ st[v] \in Int
      /\ \A e \in i.lags : st[e[1]] \in Int /\ st[e[2]] \in Int /\ e[3] \in Int
  BY GraspTypes, InstanceTypes DEF graspInstance
<1>2. /\ i.release[v] <= st[v] /\ st[v] + i.duration[v] <= i.deadline[v]
      /\ \A e \in i.lags : st[e[1]] + e[3] <= st[e[2]]
  BY DEF LagFeasible
<1> HIDE DEF i
<1>3. R \subseteq Int /\ R # {} /\ \A x \in R : x <= st[v]
  <2>1. \A e \in Ins : st[e[1]] + e[3] \in Int /\ st[e[1]] + e[3] <= st[v]
    BY <1>1, <1>2
  <2>2. \A x \in R : x \in Int /\ x <= st[v]
    <3>1. TAKE x \in R
    <3>2. CASE x = i.release[v]
      BY <1>1, <1>2, <3>2
    <3>3. CASE \E e \in Ins : x = st[e[1]] + e[3]
      BY <2>1, <3>3
    <3>4. QED
      BY <3>2, <3>3
  <2>3. QED
    BY <2>2
<1>4. D \subseteq Int /\ D # {} /\ \A x \in D : st[v] + i.duration[v] <= x
  <2>1. \A e \in Outs : /\ st[e[2]] - e[3] + i.duration[v] \in Int
                         /\ st[v] + i.duration[v] <= st[e[2]] - e[3] + i.duration[v]
    BY <1>1, <1>2
  <2>2. \A x \in D : x \in Int /\ st[v] + i.duration[v] <= x
    <3>1. TAKE x \in D
    <3>2. CASE x = i.deadline[v]
      BY <1>1, <1>2, <3>2
    <3>3. CASE \E e \in Outs : x = st[e[2]] - e[3] + i.duration[v]
      BY <2>1, <3>3
    <3>4. QED
      BY <3>2, <3>3
  <2>3. QED
    BY <2>2
<1>5. Max(R) \in R /\ \A x \in R : Max(R) >= x
  <2> HIDE DEF R
  <2>1. QED
    BY <1>1, <1>3, MaxBounded
<1>6. Min(D) \in D /\ \A x \in D : Min(D) <= x
  <2>1. st[v] + i.duration[v] \in Int
    BY <1>1
  <2> HIDE DEF D
  <2>2. QED
    BY <1>4, <2>1, MinBounded
<1>7. Window(st, v) = [release |-> Max(R), deadline |-> Min(D)]
  BY DEF Window, i
<1>8. /\ i.release[v] \in R /\ i.deadline[v] \in D
      /\ \A e \in i.lags : /\ e[2] = v => st[e[1]] + e[3] \in R
                           /\ e[1] = v => st[e[2]] - e[3] + i.duration[v] \in D
  OBVIOUS
<1> HIDE DEF R, D
<1>9. /\ Max(R) \in Int /\ Min(D) \in Int
      /\ i.release[v] <= Max(R) /\ Min(D) <= i.deadline[v]
      /\ Max(R) <= st[v] /\ st[v] + i.duration[v] <= Min(D)
      /\ \A e \in i.lags : /\ e[2] = v => st[e[1]] + e[3] <= Max(R)
                           /\ e[1] = v => Min(D) <= st[e[2]] - e[3] + i.duration[v]
  BY <1>1, <1>3, <1>4, <1>5, <1>6, <1>8
<1>10. Max(R) \in Nat
  BY <1>1, <1>9
<1>11. QED
  BY <1>7, <1>9, <1>10 DEF i

\* A job may go anywhere within its window.
LEMMA MoveIsFeasible ==
  ASSUME graspCase \in GraspCases,
         NEW st \in [Job -> Int], LagFeasible(graspInstance, st), NEW v \in Job,
         NEW s \in Positions(Window(st, v), v)
  PROVE  /\ [st EXCEPT ![v] = s] \in [Job -> Int]
         /\ LagFeasible(graspInstance, [st EXCEPT ![v] = s])
<1> DEFINE i == graspInstance
           w == Window(st, v)
           new == [st EXCEPT ![v] = s]
<1>1. /\ w.release \in Int /\ w.deadline \in Int
      /\ i.release[v] <= w.release /\ w.deadline <= i.deadline[v]
      /\ \A e \in i.lags :
           /\ e[2] = v => st[e[1]] + e[3] <= w.release
           /\ e[1] = v => w.deadline <= st[e[2]] - e[3] + i.duration[v]
  BY WindowBounds
<1>2. /\ \A u \in Job : /\ i.release[u] \in Nat /\ i.deadline[u] \in Nat
                         /\ i.duration[u] \in Nat /\ st[u] \in Int
      /\ \A e \in i.lags : e[1] \in Job /\ e[2] \in Job /\ e[3] \in Int /\ e[1] # e[2]
  BY GraspTypes, InstanceTypes DEF graspInstance
<1>3. s \in w.release .. w.deadline - i.duration[v]
  BY DEF Positions
<1>4. s \in Int /\ w.release <= s /\ s + i.duration[v] <= w.deadline
  BY <1>1, <1>2, <1>3
<1>5. \A u \in Job : new[u] = IF u = v THEN s ELSE st[u]
  OBVIOUS
<1>6. \A u \in Job : i.release[u] <= st[u] /\ st[u] + i.duration[u] <= i.deadline[u]
  BY DEF LagFeasible
<1>7. \A e \in i.lags : st[e[1]] + e[3] <= st[e[2]]
  BY DEF LagFeasible
<1>8. new \in [Job -> Int]
  BY <1>4
<1> HIDE DEF w, i, new
<1>9. \A u \in Job : i.release[u] <= new[u] /\ new[u] + i.duration[u] <= i.deadline[u]
  BY <1>1, <1>2, <1>4, <1>5, <1>6
<1>10. \A e \in i.lags : new[e[1]] + e[3] <= new[e[2]]
  <2>1. TAKE e \in i.lags
  <2>2. /\ e[1] \in Job /\ e[2] \in Job /\ e[3] \in Int /\ e[1] # e[2]
        /\ st[e[1]] \in Int /\ st[e[2]] \in Int /\ i.duration[v] \in Nat
    BY <1>2
  <2>3. CASE e[1] = v
    BY <1>1, <1>4, <1>5, <2>2, <2>3
  <2>4. CASE e[2] = v
    BY <1>1, <1>4, <1>5, <2>2, <2>4
  <2>5. CASE e[1] # v /\ e[2] # v
    BY <1>5, <1>7, <2>2, <2>5
  <2>6. QED
    BY <2>3, <2>4, <2>5
<1>11. QED
  BY <1>8, <1>9, <1>10 DEF LagFeasible, new, i

-----------------------------------------------------------------------------
(* Both structures of the usage offer places in the windows only.            *)

\* The sample is taken from the jobs that are left.
LEMMA SampleInRange ==
  ASSUME toPlace \in Seq(Job), NEW sampled \in Samples, NEW n \in sampled
  PROVE  n \in DOMAIN toPlace /\ toPlace[n] \in Job
<1> DEFINE sizes == {graspSamples, Len(toPlace)}
<1>1. graspSamples \in Nat /\ Len(toPlace) \in Nat
  BY GraspAssumption
<1>2. sizes \subseteq Int /\ sizes # {} /\ \A x \in sizes : 0 <= x
  BY <1>1
<1>3. Min(sizes) \in sizes /\ \A x \in sizes : Min(sizes) <= x
  <2>1. 0 \in Int
    OBVIOUS
  <2> HIDE DEF sizes
  <2>2. QED
    BY <1>2, <2>1, MinBounded
<1>4. Min(sizes) \in Nat /\ Min(sizes) <= Len(toPlace)
  BY <1>1, <1>3
<1>5. PICK k \in 0 .. Min(sizes) : sampled = 1 .. k
  BY DEF Samples
<1> HIDE DEF sizes
<1>6. n \in 1 .. Len(toPlace)
  BY <1>1, <1>4, <1>5
<1>7. QED
  BY <1>6

\* Arrays: a candidate is a position in the window of a sampled job.
LEMMA ArrayChoiceFits ==
  ASSUME toPlace \in Seq(Job), NEW sampled \in Samples, NEW c \in ArrayChoices(sampled)
  PROVE  /\ c[1] \in DOMAIN toPlace
         /\ c[2] \in Positions(Window(starts, toPlace[c[1]]), toPlace[c[1]])
<1>1. PICK d \in ArrayCandidates(sampled) : c = <<d[2], d[3]>>
  BY DEF ArrayChoices
<1>2. PICK n \in sampled :
        \E s \in Positions(Window(starts, toPlace[n]), toPlace[n]) :
          d = <<CostAt(toPlace[n], s), n, s>>
  BY <1>1 DEF ArrayCandidates
<1>3. d[2] = n /\ d[3] \in Positions(Window(starts, toPlace[n]), toPlace[n])
  BY <1>2
<1>4. QED
  BY <1>1, <1>3, SampleInRange

\* Sky line: the borders of the candidates lie in the window of the job, the last
\* of them one step behind its last position.
LEMMA BordersInWindow ==
  ASSUME graspCase \in GraspCases,
         starts \in [Job -> Int], LagFeasible(graspInstance, starts), NEW v \in Job
  PROVE  LET w == Window(starts, v)
             last == w.deadline - graspInstance.duration[v] + 1
         IN  /\ last \in Borders(v, w)
             /\ \A b \in Borders(v, w) : b \in w.release .. last
<1> DEFINE d == graspInstance.duration[v]
           w == Window(starts, v)
           last == w.deadline - d + 1
           Ends == UNION {{starts[u], starts[u] + graspInstance.duration[u]} : u \in Job \ {v}}
           ev == {e \in Ends : w.release < e /\ e <= w.deadline}
<1>1. /\ w.release \in Nat /\ w.deadline \in Int
      /\ w.release <= starts[v] /\ starts[v] + d <= w.deadline
  BY WindowBounds
<1>2. /\ d \in Nat /\ starts[v] \in Int
      /\ \A u \in Job : starts[u] \in Int /\ graspInstance.duration[u] \in Nat
  BY GraspTypes, InstanceTypes DEF graspInstance
<1>3. \A e \in ev : e \in Int /\ w.release < e /\ e <= w.deadline
  <2>1. \A e \in Ends : e \in Int
    <3>1. TAKE e \in Ends
    <3>2. PICK u \in Job : e \in {starts[u], starts[u] + graspInstance.duration[u]}
      OBVIOUS
    <3>3. QED
      BY <1>2, <3>2
  <2>2. QED
    BY <2>1
<1>4. Borders(v, w) = {w.release, last} \cup {e \in ev : e <= w.deadline - d}
                        \cup {e - d : e \in {f \in ev : f >= w.release + d}}
  BY DEF Borders
<1> HIDE DEF w, d, ev
<1>5. w.release <= last
  BY <1>1, <1>2
<1>6. \A b \in Borders(v, w) : b \in w.release .. last
  <2>1. TAKE b \in Borders(v, w)
  <2>2. CASE b \in {w.release, last}
    BY <1>1, <1>2, <1>5, <2>2
  <2>3. CASE b \in {e \in ev : e <= w.deadline - d}
    BY <1>1, <1>2, <1>3, <2>3
  <2>4. CASE b \in {e - d : e \in {f \in ev : f >= w.release + d}}
    <3>1. PICK e \in ev : e >= w.release + d /\ b = e - d
      BY <2>4
    <3>2. QED
      BY <1>1, <1>2, <1>3, <3>1
  <2>5. QED
    BY <1>4, <2>2, <2>3, <2>4
<1>7. last \in Borders(v, w)
  BY <1>4
<1>8. QED
  BY <1>6, <1>7 DEF w, d

\* Between a border that is not the greatest and the next one.
LEMMA NextBorder ==
  ASSUME NEW B, NEW low \in Int, NEW last \in Int, last \in B,
         \A b \in B : b \in Int /\ low <= b /\ b <= last,
         NEW s \in B, s # Max(B)
  PROVE  \A left \in 0 .. Min({b \in B : b > s}) - s - 1 : s + left \in low .. last - 1
<1> DEFINE Later == {b \in B : b > s}
<1>1. B \subseteq Int /\ \A x \in B : x <= last
  OBVIOUS
<1>2. Max(B) \in B /\ \A x \in B : Max(B) >= x
  BY <1>1, MaxBounded
<1>3. s \in Int /\ low <= s /\ s < last
  <2>1. Max(B) = last
    <3>1. Max(B) \in Int /\ Max(B) <= last /\ Max(B) >= last
      BY <1>1, <1>2
    <3>2. QED
      BY <3>1
  <2>2. s \in Int /\ low <= s /\ s <= last
    OBVIOUS
  <2>3. s # last
    BY <2>1
  <2>4. QED
    BY <2>2, <2>3
<1>4. Later \subseteq Int /\ last \in Later /\ \A x \in Later : low <= x
  <2>1. Later \subseteq B
    OBVIOUS
  <2>2. last \in Later
    BY <1>3
  <2>3. QED
    BY <1>1, <2>1, <2>2
<1>5. Min(Later) \in Later /\ \A x \in Later : Min(Later) <= x
  <2> HIDE DEF Later
  <2>1. QED
    BY <1>4, MinBounded
<1>6. Min(Later) \in Int /\ Min(Later) <= last
  BY <1>4, <1>5
<1> HIDE DEF Later
<1>7. \A left \in 0 .. Min(Later) - s - 1 : s + left \in low .. last - 1
  BY <1>3, <1>6
<1>8. QED
  BY <1>7 DEF Later

\* Hence a candidate, from one border to before the next, lies in the window.
LEMMA SkylineChoiceFits ==
  ASSUME graspCase \in GraspCases,
         starts \in [Job -> Int], LagFeasible(graspInstance, starts),
         toPlace \in Seq(Job), NEW sampled \in Samples, NEW c \in SkylineChoices(sampled)
  PROVE  /\ c[1] \in DOMAIN toPlace
         /\ c[2] \in Positions(Window(starts, toPlace[c[1]]), toPlace[c[1]])
<1> DEFINE C == SkylineCandidates(sampled)
<1>1. PICK k \in C : \E left \in 0 .. k[4] - 1 : c = <<k[2], k[3] + left>>
  <2>1. PICK x \in UNION {{k} \X (0 .. k[4] - 1) : k \in C} :
          c = <<x[1][2], x[1][3] + x[2]>>
    BY DEF SkylineChoices
  <2>2. PICK k \in C : x \in {k} \X (0 .. k[4] - 1)
    BY <2>1
  <2>3. QED
    BY <2>1, <2>2
<1> DEFINE bs(n) == Borders(toPlace[n], Window(starts, toPlace[n]))
<1>2. PICK n \in sampled :
        \E s \in bs(n) \ {Max(bs(n))} :
          k = <<CostAt(toPlace[n], s), n, s, Min({b \in bs(n) : b > s}) - s>>
  BY DEF SkylineCandidates
<1> DEFINE v == toPlace[n]
           w == Window(starts, v)
           last == w.deadline - graspInstance.duration[v] + 1
           B == Borders(v, w)
           s == k[3]
<1>3. v \in Job /\ n \in DOMAIN toPlace
  BY SampleInRange
<1>4. last \in B /\ \A b \in B : b \in w.release .. last
  BY <1>3, BordersInWindow
<1>5. w.release \in Int /\ w.deadline \in Int /\ graspInstance.duration[v] \in Nat
  <2>1. w.release \in Int /\ w.deadline \in Int
    BY <1>3, WindowBounds
  <2>2. graspInstance.duration[v] \in Nat
    <3> HIDE DEF v
    <3>1. QED
      BY <1>3, GraspTypes, InstanceTypes DEF graspInstance
  <2>3. QED
    BY <2>1, <2>2
<1>6. k[2] = n /\ k[4] = Min({b \in B : b > s}) - s /\ s \in B \ {Max(B)}
  BY <1>2
<1>7. PICK left \in 0 .. Min({b \in B : b > s}) - s - 1 : c = <<n, s + left>>
  BY <1>1, <1>6
<1> HIDE DEF B, w, v, s
<1>8. last \in Int
  BY <1>5
<1>9. s + left \in w.release .. last - 1
  <2> HIDE DEF last
  <2>1. \A b \in B : b \in Int /\ w.release <= b /\ b <= last
    <3> TAKE b \in B
    <3>1. PICK r : r = w.release
      OBVIOUS
    <3>2. b \in r .. last /\ r \in Int
      BY <1>4, <1>5, <3>1
    <3>3. b \in Int /\ r <= b /\ b <= last
      BY <1>8, <3>2
    <3> QED
      BY <3>1, <3>3
  <2>2. last \in B /\ s \in B /\ s # Max(B) /\ w.release \in Int
    BY <1>4, <1>5, <1>6
  <2>3. QED
    BY <1>7, <1>8, <2>1, <2>2, NextBorder
<1>10. s + left \in Positions(w, v)
  BY <1>5, <1>9 DEF Positions
<1>11. QED
  BY <1>3, <1>7, <1>10 DEF v, w

-----------------------------------------------------------------------------
(* The inductive invariant.                                                  *)

\* The types that the search needs, and where it stands with its schedules.
GraspControl ==
  /\ graspCase \in GraspCases
  /\ graspPhase \in {"new", "loop", "build", "climb", "weigh", "done"}
  /\ starts \in [Job -> Int] /\ newStarts \in [Job -> Int] /\ bestStarts \in [Job -> Int]
  /\ toPlace \in Seq(Job)
  /\ graspPhase = "new" => bestCosts = Infinity

SchedulesFeasible ==
  /\ graspPhase # "new" => LagFeasible(graspInstance, starts)
  /\ graspPhase \in {"climb", "weigh"} => LagFeasible(graspInstance, newStarts)
  /\ bestCosts # Infinity => LagFeasible(graspInstance, bestStarts)

GraspInv == GraspControl /\ SchedulesFeasible

\* The invariant holds before run() begins.
LEMMA InitGraspInv == GraspInit => GraspInv
<1> SUFFICES ASSUME GraspInit PROVE GraspInv
  OBVIOUS
<1>1. graspCase \in GraspCases
  BY GraspAssumption DEF GraspInit
<1>2. NoStarts \in [Job -> Int]
  BY DEF NoStarts
<1>3. <<>> \in Seq(Job)
  OBVIOUS
<1>4. QED
  BY <1>1, <1>2, <1>3 DEF GraspInit, GraspInv, GraspControl, SchedulesFeasible


\* Whatever structure holds the usage: the job chosen moves within its window,
\* and the others are left to be placed.
LEMMA PlaceKeepsInv == GraspInv /\ Place => GraspInv'
<1> SUFFICES ASSUME GraspInv, Place PROVE GraspInv'
  OBVIOUS
<1> USE DEF GraspInv, GraspControl, SchedulesFeasible
<1>1. LagFeasible(graspInstance, starts) /\ graspCase' = graspCase /\ graspPhase = "build"
  BY DEF Place
<1>2. PICK sampled \in Samples :
      \E c \in IF variant.usage = "array" THEN ArrayChoices(sampled)
                                         ELSE SkylineChoices(sampled) :
        /\ starts' = [starts EXCEPT ![toPlace[c[1]]] = c[2]]
        /\ toPlace' = [n \in 1 .. Len(toPlace) - 1 |->
                         IF n < c[1] THEN toPlace[n] ELSE toPlace[n + 1]]
  BY DEF Place
<1>3. PICK c \in IF variant.usage = "array" THEN ArrayChoices(sampled)
                                           ELSE SkylineChoices(sampled) :
        /\ starts' = [starts EXCEPT ![toPlace[c[1]]] = c[2]]
        /\ toPlace' = [n \in 1 .. Len(toPlace) - 1 |->
                         IF n < c[1] THEN toPlace[n] ELSE toPlace[n + 1]]
  BY <1>2
<1> DEFINE v == toPlace[c[1]]
<1>4. c[1] \in DOMAIN toPlace /\ c[2] \in Positions(Window(starts, v), v)
  BY <1>1, <1>3, ArrayChoiceFits, SkylineChoiceFits
<1>5. v \in Job
  BY <1>4
<1>6. starts' \in [Job -> Int] /\ LagFeasible(graspInstance, starts')
  BY <1>1, <1>3, <1>4, <1>5, MoveIsFeasible
<1>7. toPlace' \in Seq(Job)
  <2> DEFINE rest == [n \in 1 .. Len(toPlace) - 1 |->
                        IF n < c[1] THEN toPlace[n] ELSE toPlace[n + 1]]
  <2>1. /\ Len(toPlace) \in Nat /\ c[1] \in 1 .. Len(toPlace)
        /\ \A n \in 1 .. Len(toPlace) : toPlace[n] \in Job
    BY <1>4
  <2>2. Len(toPlace) - 1 \in Nat
    BY <2>1
  <2>3. \A n \in 1 .. Len(toPlace) - 1 : rest[n] \in Job
    BY <2>1
  <2> HIDE DEF rest
  <2>4. rest \in [1 .. Len(toPlace) - 1 -> Job]
    BY <2>3 DEF rest
  <2>5. ASSUME NEW k \in Nat, NEW q \in [1 .. k -> Job] PROVE q \in Seq(Job)
    OBVIOUS
  <2>6. rest \in Seq(Job)
    BY <2>2, <2>4, <2>5
  <2>7. QED
    BY <1>3, <2>6 DEF rest
<1>8. graspInstance' = graspInstance
  BY <1>1 DEF graspInstance
<1>9. QED
  BY <1>1, <1>6, <1>7, <1>8 DEF Place, bestVars, climbVars

\* Both hill climbers move a job within its window, in the schedule they try.
LEMMA ClimbKeepsInv ==
  ASSUME NEW v \in Job
  PROVE  GraspInv /\ (Move(v) \/ Weigh(v)) => GraspInv'
<1> SUFFICES ASSUME GraspInv, Move(v) \/ Weigh(v) PROVE GraspInv'
  OBVIOUS
<1> USE DEF GraspInv, GraspControl, SchedulesFeasible
<1>1. /\ graspPhase \in {"climb", "weigh"} /\ LagFeasible(graspInstance, newStarts)
      /\ graspCase' = graspCase /\ graspPhase' = graspPhase /\ starts' = starts
      /\ bestVars' = bestVars /\ toPlace' = toPlace
  BY DEF Move, Weigh
<1>2. PICK s \in Positions(Window(newStarts, v), v) :
        newStarts' = [newStarts EXCEPT ![v] = s]
  BY DEF Move, Weigh
<1>3. newStarts' \in [Job -> Int] /\ LagFeasible(graspInstance, newStarts')
  BY <1>1, <1>2, MoveIsFeasible
<1>4. graspInstance' = graspInstance
  BY <1>1 DEF graspInstance
<1>5. QED
  BY <1>1, <1>3, <1>4 DEF bestVars

\* Every step of the search keeps its schedules feasible.
LEMMA NextGraspInv == GraspInv /\ [GraspNext]_graspVars => GraspInv'
<1> SUFFICES ASSUME GraspInv, [GraspNext]_graspVars PROVE GraspInv'
  OBVIOUS
<1> USE DEF GraspInv, GraspControl, SchedulesFeasible
<1>1. CASE StartRun
  <2>1. PICK c \in GraspCases : graspCase' = c /\ starts' = EarliestStarts(c[1])
    BY <1>1 DEF StartRun
  <2>2. EarliestStarts(c[1]) \in [Job -> Nat] /\ LagFeasible(c[1], EarliestStarts(c[1]))
    BY GraspTypes, EarliestIsFeasible
  <2>3. starts' \in [Job -> Int] /\ LagFeasible(graspInstance', starts')
    BY <2>1, <2>2 DEF graspInstance
  <2>4. QED
    BY <1>1, <2>1, <2>3 DEF StartRun, bestVars, climbVars
<1>2. CASE BeginIteration
  <2>1. toPlace' \in Seq(Job)
    <3>1. JobOrders \subseteq Seq(Job)
      BY JobCountAssumption DEF JobOrders
    <3>2. <<>> \in Seq(Job)
      OBVIOUS
    <3>3. QED
      BY <1>2, <3>1, <3>2 DEF BeginIteration
  <2>2. QED
    BY <1>2, <2>1 DEF BeginIteration, bestVars, climbVars, graspInstance
<1>3. CASE Place
  BY <1>3, PlaceKeepsInv
<1>4. CASE BeginClimb
  BY <1>4 DEF BeginClimb, bestVars, graspInstance
<1>5. CASE Keep
  BY <1>5 DEF Keep, bestVars, graspInstance
<1>6. CASE BeginWeigh
  BY <1>6 DEF BeginWeigh, bestVars, climbVars, graspInstance
<1>7. CASE KeepWeighed
  BY <1>7 DEF KeepWeighed, bestVars, graspInstance
<1>8. CASE EndIteration
  <2>1. NoStarts \in [Job -> Int]
    BY DEF NoStarts
  <2>2. graspCase' = graspCase /\ graspPhase \in {"climb", "weigh"} /\ graspPhase' = "loop"
    BY <1>8 DEF EndIteration
  <2>3. \/ bestStarts' = starts /\ starts' = starts
        \/ /\ bestCosts # Infinity /\ bestCosts' = bestCosts /\ bestStarts' = bestStarts
           /\ starts' \in {starts, bestStarts}
    BY <1>8 DEF EndIteration, BelowBest
  <2>4. newStarts' = NoStarts /\ toPlace' = toPlace
    BY <1>8 DEF EndIteration
  <2>5. QED
    BY <2>1, <2>2, <2>3, <2>4 DEF graspInstance
<1>9. CASE EndRun
  BY <1>9 DEF EndRun, bestVars, climbVars, graspInstance
<1>10. CASE \E v \in Job : Move(v) \/ Weigh(v)
  BY <1>10, ClimbKeepsInv
<1>11. CASE UNCHANGED graspVars
  BY <1>11 DEF graspVars, bestVars, climbVars, graspInstance
<1>12. QED
  BY <1>1, <1>2, <1>3, <1>4, <1>5, <1>6, <1>7, <1>8, <1>9, <1>10, <1>11 DEF GraspNext

(***************************************************************************)
(* All schedules of the search are feasible, and the window of a job holds *)
(* its place: the search never meets an empty window.                      *)
(***************************************************************************)
THEOREM SearchStaysFeasible == GraspSpec => []SearchIsFeasible
<1>1. GraspInv => SearchIsFeasible
  <2> SUFFICES ASSUME GraspInv, graspPhase # "new" PROVE SearchIsFeasible
    BY DEF SearchIsFeasible
  <2>1. ASSUME NEW n \in DOMAIN toPlace
        PROVE  starts[toPlace[n]] \in Positions(Window(starts, toPlace[n]), toPlace[n])
    <3> DEFINE v == toPlace[n]
               w == Window(starts, v)
    <3>1. v \in Job /\ starts \in [Job -> Int] /\ graspCase \in GraspCases
      BY DEF GraspInv, GraspControl
    <3>2. LagFeasible(graspInstance, starts)
      BY DEF GraspInv, SchedulesFeasible
    <3>3. /\ w.release \in Nat /\ w.deadline \in Int
          /\ w.release <= starts[v] /\ starts[v] + graspInstance.duration[v] <= w.deadline
      BY <3>1, <3>2, WindowBounds
    <3>4. starts[v] \in Int /\ graspInstance.duration[v] \in Nat
      BY <3>1, GraspTypes, InstanceTypes DEF graspInstance
    <3> HIDE DEF v, w
    <3>5. starts[v] \in Positions(w, v)
      BY <3>3, <3>4 DEF Positions
    <3>6. QED
      BY <3>5 DEF v, w
  <2>2. QED
    BY <2>1 DEF GraspInv, SchedulesFeasible, SearchIsFeasible
<1>2. QED
  BY InitGraspInv, NextGraspInv, <1>1, PTL DEF GraspSpec

-----------------------------------------------------------------------------
(* Costs.                                                                    *)

\* At no time the usage is above the peak: what runs then also runs when the last
\* of these jobs starts.
LEMMA PeakIsHighest ==
  ASSUME NEW i \in LagInstance, NEW start \in [Job -> Nat], NEW x \in Nat
  PROVE  UsageAt(i, start, x) <= Peak(i, start)
<1> DEFINE Running(y) == {v \in Job : start[v] <= y /\ y < start[v] + i.duration[v]}
<1>0. /\ i.usage \in [Job -> Nat] /\ \A v \in Job : i.usage[v] \in Nat
      /\ \A v \in Job : start[v] \in Nat /\ i.duration[v] \in Nat
  BY InstanceTypes
<1>1. /\ Peak(i, start) \in Nat
      /\ \A y \in Events(i, start) : UsageAt(i, start, y) <= Peak(i, start)
  BY <1>0, PeakFacts
<1>2. \A y : UsageAt(i, start, y) = SumOf(i.usage, Running(y))
  BY <1>0, UsageIsSum
<1>3. CASE Running(x) = {}
  <2>1. SumOf(i.usage, Running(x)) = 0
    BY <1>3, FS_EmptySet, SumPicks
  <2>2. UsageAt(i, start, x) = 0
    BY <1>2, <2>1
  <2> QED
    BY <1>1, <2>2
<1>4. CASE Running(x) # {}
  <2> DEFINE Begun == {start[v] : v \in Running(x)}
  <2>1. Begun \subseteq Int /\ Begun # {} /\ \A y \in Begun : y <= x
    BY <1>0, <1>4
  <2>2. Max(Begun) \in Begun /\ \A y \in Begun : Max(Begun) >= y
    <3>1. x \in Int
      OBVIOUS
    <3> HIDE DEF Begun
    <3> QED
      BY <2>1, <3>1, MaxBounded
  <2>3. PICK a \in Running(x) : \A v \in Running(x) : start[v] <= start[a]
    <3>1. PICK a \in Running(x) : Max(Begun) = start[a]
      BY <2>2
    <3>2. \A v \in Running(x) : Max(Begun) >= start[v]
      BY <2>2
    <3> QED
      BY <1>0, <3>1, <3>2
  <2>4. a \in Job /\ start[a] <= x /\ x < start[a] + i.duration[a] /\ start[a] \in Nat
    BY <1>0, <2>3
  <2>5. Running(x) \in SUBSET Running(start[a])
    BY <1>0, <2>3, <2>4
  <2>6. IsFiniteSet(Running(start[a])) /\ \A v \in Running(start[a]) : i.usage[v] \in Nat
    <3>1. Running(start[a]) \in SUBSET Job
      OBVIOUS
    <3> QED
      BY <1>0, <3>1, JobsFinite, FS_Subset
  <2>7. start[a] \in Events(i, start)
    BY <2>4 DEF Events
  <2> HIDE DEF Running
  <2>8. SumOf(i.usage, Running(x)) <= SumOf(i.usage, Running(start[a]))
    BY <2>5, <2>6, SumsGrow
  <2>9. UsageAt(i, start, x) <= UsageAt(i, start, start[a])
    BY <1>2, <2>8
  <2>10. UsageAt(i, start, start[a]) <= Peak(i, start)
    BY <1>1, <2>7
  <2>11. UsageAt(i, start, start[a]) \in Nat /\ UsageAt(i, start, x) \in Nat
    BY <1>0, UsageIsSum
  <2> QED
    BY <1>1, <2>9, <2>10, <2>11
<1> QED
  BY <1>3, <1>4

\* Costs are numbers, so that none of them is taken for Infinity, and only the
\* weighted selection leaves the path on which they follow the schedules.
CostsInv ==
  /\ graspPhase = "weigh" => variant.weighted
  /\ ~ variant.weighted => bestCosts \in Nat \cup {Infinity}
  /\ CostsFollowSchedules

\* The costs of a feasible schedule are a number, and its peak is not above it:
\* the jobs that run at a time step run then if all of them run longer.
LEMMA CostsBoundPeak ==
  ASSUME GraspControl, NEW st \in [Job -> Int], LagFeasible(graspInstance, st)
  PROVE  /\ MaxCosts(graspInstance, st) \in Nat /\ MaxCosts(graspInstance, st) # Infinity
         /\ Peak(graspInstance, st) <= MaxCosts(graspInstance, st)
<1> DEFINE i == graspInstance
           j == [i EXCEPT !.duration = [v \in Job |-> i.duration[v] + 1]]
           Running(d, x) == {v \in Job : st[v] <= x /\ x < st[v] + d[v]}
<1>1. /\ i \in LagInstance /\ i.usage \in [Job -> Nat]
      /\ \A v \in Job : i.duration[v] \in Nat /\ i.release[v] \in Nat
  BY GraspTypes, InstanceTypes DEF GraspControl, graspInstance
<1>2. st \in [Job -> Nat]
  BY <1>1 DEF LagFeasible
<1>3. /\ j \in LagInstance /\ j.usage = i.usage
      /\ \A v \in Job : j.duration[v] = i.duration[v] + 1
  BY <1>1 DEF LagInstance
<1>4. MaxCosts(i, st) = Peak(j, st)
  BY DEF MaxCosts
<1> HIDE DEF i, j
<1>5. PICK x \in Events(i, st) : Peak(i, st) = UsageAt(i, st, x)
  BY <1>1, PeakFacts
<1>6. x \in Nat
  BY <1>1, <1>2 DEF Events
<1>7. /\ UsageAt(i, st, x) = SumOf(i.usage, Running(i.duration, x))
      /\ UsageAt(j, st, x) = SumOf(i.usage, Running(j.duration, x))
      /\ UsageAt(i, st, x) \in Nat /\ UsageAt(j, st, x) \in Nat
  BY <1>1, <1>3, UsageIsSum
<1>8. Running(i.duration, x) \in SUBSET Running(j.duration, x)
  BY <1>1, <1>2, <1>3, <1>6
<1>9. IsFiniteSet(Running(j.duration, x)) /\ \A v \in Running(j.duration, x) : i.usage[v] \in Nat
  <2>1. Running(j.duration, x) \in SUBSET Job
    OBVIOUS
  <2> QED
    BY <1>1, <2>1, JobsFinite, FS_Subset
<1> HIDE DEF Running
<1>10. UsageAt(i, st, x) <= UsageAt(j, st, x)
  BY <1>7, <1>8, <1>9, SumsGrow
<1>11. UsageAt(j, st, x) <= Peak(j, st) /\ Peak(j, st) \in Nat
  BY <1>1, <1>2, <1>3, <1>6, PeakIsHighest, PeakFacts
<1>12. Peak(i, st) <= Peak(j, st)
  BY <1>5, <1>7, <1>10, <1>11
<1> QED
  BY <1>4, <1>11, <1>12, GraspAssumption DEF i

\* Every step keeps the costs.
LEMMA NextCostsInv == GraspInv /\ CostsInv /\ [GraspNext]_graspVars => CostsInv'
<1> SUFFICES ASSUME GraspInv, CostsInv, [GraspNext]_graspVars PROVE CostsInv'
  OBVIOUS
<1>0. GraspControl /\ Infinity \notin Nat
  BY GraspAssumption DEF GraspInv
<1>1. ASSUME graspCase' = graspCase
      PROVE  graspInstance' = graspInstance /\ variant' = variant
  BY <1>1 DEF graspInstance, variant
<1> USE DEF CostsInv, CostsFollowSchedules
<1>2. CASE StartRun
  BY <1>0, <1>2 DEF StartRun, bestVars, GraspControl
<1>3. CASE BeginIteration
  BY <1>1, <1>3 DEF BeginIteration, bestVars
<1>4. CASE Place
  BY <1>1, <1>4 DEF Place, bestVars
<1>5. CASE BeginClimb
  BY <1>1, <1>5 DEF BeginClimb, bestVars
<1>6. CASE Keep
  BY <1>1, <1>6 DEF Keep, bestVars
<1>7. CASE BeginWeigh
  BY <1>1, <1>7 DEF BeginWeigh, bestVars
<1>8. CASE KeepWeighed
  BY <1>1, <1>8 DEF KeepWeighed, bestVars
<1>9. CASE EndIteration
  <2>1. graspPhase' = "loop" /\ graspCase' = graspCase
    BY <1>9 DEF EndIteration
  <2>2. SUFFICES ASSUME ~ variant.weighted
                 PROVE  /\ bestCosts' \in Nat \cup {Infinity}
                        /\ bestCosts' # Infinity =>
                             /\ bestCosts' = MaxCosts(graspInstance, bestStarts')
                             /\ Peak(graspInstance, bestStarts') <= bestCosts'
                             /\ bestCosts' <= MaxCosts(graspInstance, starts')
    BY <1>1, <2>1
  <2>3. graspPhase = "climb" /\ cost = MaxCosts(graspInstance, starts)
    BY <1>9, <2>2 DEF EndIteration
  <2>4. starts \in [Job -> Int] /\ LagFeasible(graspInstance, starts)
    BY <2>3 DEF GraspInv, GraspControl, SchedulesFeasible
  <2>5. cost \in Nat /\ Peak(graspInstance, starts) <= cost
    BY <1>0, <2>3, <2>4, CostsBoundPeak
  <2>6. CASE BelowBest(cost)
    <3>1. bestStarts' = starts /\ bestCosts' = cost /\ starts' = starts
      BY <1>9, <2>6 DEF EndIteration
    <3> QED
      BY <2>3, <2>5, <3>1
  <2>7. CASE ~ BelowBest(cost)
    <3>1. bestStarts' = bestStarts /\ bestCosts' = bestCosts /\ starts' \in {starts, bestStarts}
      BY <1>9, <2>7 DEF EndIteration
    <3>2. bestCosts \in Nat /\ bestCosts # Infinity /\ ~ (cost < bestCosts)
      BY <2>2, <2>7 DEF BelowBest
    <3>3. /\ bestCosts = MaxCosts(graspInstance, bestStarts)
          /\ Peak(graspInstance, bestStarts) <= bestCosts
      BY <1>9, <2>2, <2>3, <3>2
    <3>4. bestCosts <= MaxCosts(graspInstance, starts)
      BY <2>3, <2>5, <3>2
    <3> QED
      BY <3>1, <3>2, <3>3, <3>4
  <2> QED
    BY <2>6, <2>7
<1>10. CASE EndRun
  BY <1>1, <1>10 DEF EndRun, bestVars
<1>11. ASSUME NEW v \in Job, Move(v) \/ Weigh(v) PROVE CostsInv'
  BY <1>1, <1>11 DEF Move, Weigh, bestVars
<1>12. CASE UNCHANGED graspVars
  BY <1>1, <1>12 DEF graspVars, bestVars, climbVars
<1> QED
  BY <1>2, <1>3, <1>4, <1>5, <1>6, <1>7, <1>8, <1>9, <1>10, <1>11, <1>12 DEF GraspNext

(***************************************************************************)
(* Without the weighted selection every cost that is compared is what      *)
(* calculate_max_costs() finds for the schedule that is kept or thrown     *)
(* away for it, an upper bound on its peak; a reset or a failed iteration  *)
(* never leaves the search with better start times than those it remembers *)
(* as the best.                                                            *)
(***************************************************************************)
THEOREM CostsAreOfSchedules == GraspSpec => []CostsFollowSchedules
<1>1. GraspInit => CostsInv
  BY DEF GraspInit, CostsInv, CostsFollowSchedules
<1>2. CostsInv => CostsFollowSchedules
  BY DEF CostsInv
<1> QED
  BY InitGraspInv, NextGraspInv, NextCostsInv, <1>1, <1>2, PTL DEF GraspSpec

-----------------------------------------------------------------------------
(* ILP: rounded event times                                                  *)

\* Rounding keeps an order by whole steps between two event times.
LEMMA RoundingKeepsOrder ==
  ASSUME NEW x \in Nat, NEW y \in Nat, NEW d \in Int, x + 2 * d <= y
  PROVE  Rounded(x) + d <= Rounded(y)
BY DEF Rounded

\* It keeps bounds that are whole steps.
LEMMA RoundingKeepsBounds ==
  ASSUME NEW x \in Nat, NEW d \in Int
  PROVE  /\ 2 * d <= x => d <= Rounded(x)
         /\ x <= 2 * d => Rounded(x) <= d
         /\ Rounded(x) \in Nat
BY DEF Rounded

\* Event times are numbers.
LEMMA TimesOfEvents ==
  ASSUME NEW t \in EventTimes, NEW p \in EventPairs, NEW v \in Job
  PROVE  t[p[v][1]] \in Nat /\ t[p[v][2]] \in Nat
<1>1. t \in [Event -> 0 .. 2 * ILPHorizon]
  BY DEF EventTimes
<1>2. p[v][1] \in Event /\ p[v][2] \in Event
  BY DEF EventPairs
<1>3. \A k \in Event : t[k] \in Nat
  BY <1>1, ILPAssumption
<1> QED BY <1>2, <1>3

\* For the events at which jobs start and end the constraints are not void.
LEMMA EventsAreBound ==
  ASSUME ilpInstance \in LagInstance, NEW p \in EventPairs, NEW t \in EventTimes,
         EventsInWindows(p, t)
  PROVE  /\ \A v \in Job : /\ t[p[v][2]] <= 2 * ilpInstance.deadline[v]
                           /\ t[p[v][1]] >= 2 * ilpInstance.release[v]
         /\ \A e \in ilpInstance.lags : t[p[e[1]][1]] + 2 * e[3] <= t[p[e[2]][1]]
<1> DEFINE M == LastDeadline(ilpInstance)
           Off(v, k, event) == IF event = p[v][k] THEN 0 ELSE 1
<1>0. M \in Nat
  BY LastDeadlineType
<1>1. ASSUME NEW v \in Job
      PROVE  /\ p[v][1] \in ilpWindows.events[v] /\ p[v][2] \in ilpWindows.events[v]
             /\ Off(v, 1, p[v][1]) = 0 /\ Off(v, 2, p[v][2]) = 0
  BY DEF EventPairs
<1>2. ASSUME NEW v \in Job
      PROVE  /\ t[p[v][2]] <= 2 * (ilpInstance.deadline[v] + 0 * M)
             /\ t[p[v][1]] >= 2 * (ilpInstance.release[v] - 0 * M)
  <2>1. /\ t[p[v][2]] <= 2 * (ilpInstance.deadline[v] + Off(v, 2, p[v][2]) * M)
        /\ t[p[v][1]] >= 2 * (ilpInstance.release[v] - Off(v, 1, p[v][1]) * M)
    BY <1>1 DEF EventsInWindows
  <2> HIDE DEF Off, M
  <2> QED
    BY <1>1, <2>1
<1>3. ASSUME NEW e \in ilpInstance.lags
      PROVE  t[p[e[2]][1]] - t[p[e[1]][1]] >= 2 * ((1 - 0 - 0) * (e[3] + M) - M)
  <2>1. e[1] \in Job /\ e[2] \in Job
    BY InstanceTypes
  <2>2. t[p[e[2]][1]] - t[p[e[1]][1]]
          >= 2 * ((1 - Off(e[1], 1, p[e[1]][1]) - Off(e[2], 1, p[e[2]][1])) * (e[3] + M) - M)
    BY <1>1, <2>1 DEF EventsInWindows
  <2> HIDE DEF Off, M
  <2> QED
    BY <1>1, <2>1, <2>2
<1> HIDE DEF Off, M
<1>4. ASSUME NEW v \in Job
      PROVE  /\ t[p[v][2]] <= 2 * ilpInstance.deadline[v]
             /\ t[p[v][1]] >= 2 * ilpInstance.release[v]
  <2>1. ilpInstance.deadline[v] \in Nat /\ ilpInstance.release[v] \in Nat
    BY InstanceTypes
  <2> QED
    BY <1>0, <1>2, <2>1
<1>5. ASSUME NEW e \in ilpInstance.lags
      PROVE  t[p[e[1]][1]] + 2 * e[3] <= t[p[e[2]][1]]
  <2>1. e[1] \in Job /\ e[2] \in Job /\ e[3] \in Int
    BY InstanceTypes
  <2>2. t[p[e[1]][1]] \in Nat /\ t[p[e[2]][1]] \in Nat
    BY <2>1, TimesOfEvents
  <2> QED
    BY <1>0, <1>3, <2>1, <2>2
<1> QED
  BY <1>4, <1>5

\* The schedule that create_solution() reads off the events is feasible.
LEMMA EventsGiveSchedules ==
  ASSUME ilpInstance \in LagInstance, NEW p \in EventPairs, NEW t \in EventTimes,
         InOrder(p, t), EventsInWindows(p, t)
  PROVE  LagFeasible(ilpInstance, [v \in Job |-> Rounded(t[p[v][1]])])
<1> DEFINE start == [v \in Job |-> Rounded(t[p[v][1]])]
<1>1. ASSUME NEW v \in Job
      PROVE  /\ ilpInstance.release[v] <= start[v]
             /\ start[v] + ilpInstance.duration[v] <= ilpInstance.deadline[v]
  <2> DEFINE r == ilpInstance.release[v]
             d == ilpInstance.deadline[v]
             len == ilpInstance.duration[v]
             from == t[p[v][1]]
             to == t[p[v][2]]
  <2>1. r \in Nat /\ d \in Nat /\ len \in Nat /\ from \in Nat /\ to \in Nat
    BY InstanceTypes, TimesOfEvents
  <2>2. to - from >= 2 * len /\ to <= 2 * d /\ from >= 2 * r
    BY EventsAreBound DEF InOrder
  <2>3. start[v] = Rounded(from)
    OBVIOUS
  <2> HIDE DEF r, d, len, from, to, start
  <2>4. r <= Rounded(from)
    BY <2>1, <2>2, RoundingKeepsBounds
  <2>5. from <= 2 * (d - len) /\ d - len \in Int
    BY <2>1, <2>2
  <2>6. Rounded(from) <= d - len /\ Rounded(from) \in Nat
    BY <2>1, <2>5, RoundingKeepsBounds
  <2>7. r <= start[v] /\ start[v] + len <= d
    BY <2>1, <2>3, <2>4, <2>6
  <2> QED BY <2>7 DEF r, d, len
<1>2. ASSUME NEW e \in ilpInstance.lags PROVE start[e[1]] + e[3] <= start[e[2]]
  <2>1. e[1] \in Job /\ e[2] \in Job /\ e[3] \in Int
    BY InstanceTypes
  <2>2. t[p[e[1]][1]] + 2 * e[3] <= t[p[e[2]][1]]
    BY EventsAreBound
  <2>3. t[p[e[1]][1]] \in Nat /\ t[p[e[2]][1]] \in Nat
    BY <2>1, TimesOfEvents
  <2>4. Rounded(t[p[e[1]][1]]) + e[3] <= Rounded(t[p[e[2]][1]])
    BY <2>1, <2>2, <2>3, RoundingKeepsOrder
  <2> QED BY <2>1, <2>4
<1> QED BY <1>1, <1>2 DEF LagFeasible

\* Every solution of every model has feasible start times.
LEMMA ModelsAreFeasible ==
  ASSUME ilpInstance \in LagInstance, ilpFormulation \in Formulations, NEW m \in Model
  PROVE  LagFeasible(ilpInstance, m[1])
<1>1. \A start \in StartPoints : LagFeasible(ilpInstance, start)
  BY DEF StartPoints, LagSchedules
<1>2. CASE m \in DTILP
  <2>1. PICK start \in StartPoints :
          m = <<start, Max({DiscreteUsage(start, t) : t \in 0 .. LastDeadline(ilpInstance) - 1})>>
    BY <1>2, Zenon DEF DTILP
  <2> QED BY <1>1, <2>1
<1>3. CASE m \in OBILP
  <2>1. PICK start \in StartPoints : m = <<start, Max({StartUsage(start, a) : a \in Job})>>
    BY <1>3, Zenon DEF OBILP
  <2> QED BY <1>1, <2>1
<1>4. ASSUME NEW proxy, m \in FBILP(proxy) PROVE LagFeasible(ilpInstance, m[1])
  BY <1>1, <1>4 DEF FBILP
<1>5. ASSUME NEW points, m \in EBILP(points) PROVE LagFeasible(ilpInstance, m[1])
  <2>1. PICK p \in EventPairs, t \in EventTimes :
          /\ InOrder(p, t)
          /\ IF points THEN EventsLinked(p, t) ELSE EventsInWindows(p, t)
          /\ m[1] = [v \in Job |-> Rounded(t[p[v][1]])]
    BY <1>5 DEF EBILP
  <2>2. CASE EventsLinked(p, t)
    BY <1>1, <2>1, <2>2 DEF EventsLinked
  <2>3. CASE EventsInWindows(p, t)
    BY <2>1, <2>3, EventsGiveSchedules
  <2> QED BY <2>1, <2>2, <2>3
<1> QED BY <1>2, <1>3, <1>4, <1>5 DEF Model, Formulations

-----------------------------------------------------------------------------
(* The bounds of the formulations are bounds on the peak                   *)

\* The usage that DTILP bounds at a time step is the usage at that step.
LEMMA DTILPBounds ==
  ASSUME ilpInstance \in LagInstance, LastDeadline(ilpInstance) > 0, NEW m \in DTILP
  PROVE  m[1] \in LagSchedules(ilpInstance) /\ Peak(ilpInstance, m[1]) <= m[2]
<1> DEFINE i == ilpInstance
           Usages(start) == {DiscreteUsage(start, t) : t \in 0 .. LastDeadline(i) - 1}
<1>1. PICK start \in LagSchedules(i) : m = <<start, Max(Usages(start))>>
  BY Zenon DEF DTILP, StartPoints
<1>2. LagFeasible(i, start) /\ start \in [Job -> Nat] /\ LastDeadline(i) \in Nat
  BY LastDeadlineType DEF LagSchedules
<1>3. /\ i.usage \in [Job -> Nat] /\ \A v \in Job : i.usage[v] \in Nat
      /\ \A v \in Job : start[v] \in Nat /\ i.duration[v] \in Nat
      /\ \A v \in Job : i.deadline[v] \in Nat /\ i.deadline[v] <= LastDeadline(i)
  BY <1>2, InstanceTypes, LastDeadlineIsLast
<1>4. ASSUME NEW t \in Nat
      PROVE  /\ DiscreteUsage(start, t) = UsageAt(i, start, t)
             /\ UsageAt(i, start, t) \in Nat
             /\ UsageAt(i, start, t) <= SumOf(i.usage, Job)
  <2> DEFINE Steps(v) == start[v] .. start[v] + i.duration[v] - 1
             On == {v \in Job : t \in Steps(v)}
             Running == {v \in Job : start[v] <= t /\ t < start[v] + i.duration[v]}
  <2>1. \A v \in Job : t \in Steps(v) <=> start[v] <= t /\ t < start[v] + i.duration[v]
    BY <1>3
  <2>2. On = Running
    BY <2>1
  <2>3. DiscreteUsage(start, t) = SumOf(i.usage, On)
    BY DEF DiscreteUsage, Total, SumOf
  <2>4. UsageAt(i, start, t) = SumOf(i.usage, Running)
    BY <1>3, UsageIsSum
  <2> HIDE DEF On, Running
  <2> QED
    BY <1>3, <2>2, <2>3, <2>4, UsageIsSum
<1>5. /\ Usages(start) \subseteq Int /\ Usages(start) # {}
      /\ \A y \in Usages(start) : y <= SumOf(i.usage, Job)
      /\ \A t \in 0 .. LastDeadline(i) - 1 : UsageAt(i, start, t) \in Usages(start)
  BY <1>2, <1>4
<1>6. SumOf(i.usage, Job) \in Int
  <2>1. IsFiniteSet(Job) /\ \A v \in Job : i.usage[v] \in Nat
    BY <1>3, JobsFinite
  <2> QED
    BY <2>1, SumsGrow
<1>7. Max(Usages(start)) \in Usages(start) /\ \A y \in Usages(start) : Max(Usages(start)) >= y
  <2> HIDE DEF Usages
  <2> QED
    BY <1>5, <1>6, MaxBounded
<1>8. PICK top : top = Max(Usages(start)) /\ top \in Nat
  <2>1. \A y \in Usages(start) : y \in Nat
    BY <1>4
  <2> HIDE DEF Usages
  <2> QED
    BY <1>7, <2>1
<1>9. Peak(i, start) <= top
  <2>1. CASE Peak(i, start) = 0
    BY <1>8, <2>1
  <2>2. ASSUME NEW a \in Job, i.duration[a] > 0,
               Peak(i, start) <= UsageAt(i, start, start[a])
        PROVE  Peak(i, start) <= top
    <3>1. start[a] \in 0 .. LastDeadline(i) - 1
      <4>1. start[a] + i.duration[a] <= i.deadline[a]
        BY <1>2 DEF LagFeasible
      <4> QED
        BY <1>2, <1>3, <2>2, <4>1
    <3>2. UsageAt(i, start, start[a]) \in Usages(start)
      BY <1>5, <3>1
    <3>3. Max(Usages(start)) >= UsageAt(i, start, start[a])
      BY <1>7, <3>2
    <3>4. UsageAt(i, start, start[a]) \in Nat /\ Peak(i, start) \in Nat
      BY <1>3, UsageIsSum, PeakFacts
    <3> HIDE DEF Usages, i
    <3> QED
      BY <1>8, <2>2, <3>3, <3>4
  <2>3. \/ Peak(i, start) = 0
        \/ \E a \in Job : i.duration[a] > 0 /\ Peak(i, start) <= UsageAt(i, start, start[a])
    BY <1>2, PeakAtStart
  <2> QED
    BY <2>1, <2>2, <2>3
<1> QED
  BY <1>1, <1>8, <1>9

\* A sum in the model is a sum.
LEMMA TotalIsSum == ASSUME NEW f, NEW S PROVE Total(f, S) = SumOf(f, S)
BY DEF Total, SumOf

\* What flows to a job, and from it.
FlowTo(edges, f, v) == SumOf(f, {e \in edges : e[2] = v})
FlowFrom(edges, f, v) == SumOf(f, {e \in edges : e[1] = v})

\* What runs at a time step has been given its usage by jobs that have ended and
\* from outside, and those that have ended were given from outside all they have
\* passed on: nothing flows to them from a job that has not.
LEMMA FlowsCover ==
  ASSUME NEW i, i.usage \in [Job -> Nat], \A v \in Job : i.duration[v] \in Nat,
         NEW start, \A v \in Job : start[v] \in Nat,
         NEW edges, edges \subseteq Job \X Job,
         NEW f, \A e \in edges : f[e] \in Nat,
         \A e \in edges : f[e] > 0 => start[e[1]] + i.duration[e[1]] <= start[e[2]],
         NEW in, \A v \in Job : in[v] \in Nat,
         NEW into, \A v \in Job : into[v] = in[v] + FlowTo(edges, f, v),
         NEW outof, \A v \in Job : outof[v] = FlowFrom(edges, f, v),
         \A v \in Job : outof[v] <= into[v] /\ i.usage[v] <= into[v],
         NEW x \in Nat,
         NEW R, R = RunningAt(i, start, x)
  PROVE  SumOf(i.usage, R) <= SumOf(in, Job)
<1> USE DEF FlowTo, FlowFrom, RunningAt
<1> DEFINE Ended == {v \in Job : start[v] + i.duration[v] <= x}
           Running == {v \in Job : start[v] <= x /\ x < start[v] + i.duration[v]}
           flows == [v \in Job |-> SumOf(f, {e \in edges : e[2] = v})]
           To(W) == {e \in edges : e[2] \in W}
           From(W) == {e \in edges : e[1] \in W}
<1>1. IsFiniteSet(edges) /\ IsFiniteSet(Job)
  <2>1. IsFiniteSet(Job \X Job)
    BY JobsFinite, FS_Product
  <2> QED
    BY <2>1, JobsFinite, FS_Subset
<1>2. /\ Ended \in SUBSET Job /\ Running \in SUBSET Job /\ Ended \cap Running = {}
      /\ IsFiniteSet(Ended) /\ IsFiniteSet(Running)
  <2>1. Ended \in SUBSET Job /\ Running \in SUBSET Job
    OBVIOUS
  <2>2. \A v \in Job : ~(start[v] + i.duration[v] <= x /\ x < start[v] + i.duration[v])
    OBVIOUS
  <2>3. Ended \cap Running = {}
    BY <2>2
  <2> HIDE DEF Ended, Running
  <2> QED
    BY <1>1, <2>1, <2>3, FS_Subset
<1>3. /\ \A T \in SUBSET edges : SumOf(f, T) \in Nat /\ IsFiniteSet(T)
      /\ \A W : To(W) \in SUBSET edges /\ From(W) \in SUBSET edges
  <2>1. \A T \in SUBSET edges : SumOf(f, T) \in Nat /\ IsFiniteSet(T)
    BY <1>1, SumsGrow, FS_Subset
  <2> QED
    BY <2>1
<1>4. \A v \in Job : /\ flows[v] = SumOf(f, {e \in edges : e[2] = v})
                     /\ flows[v] \in Nat /\ outof[v] \in Nat
                     /\ into[v] = in[v] + flows[v] /\ into[v] \in Nat
  <2> TAKE v \in Job
  <2>1. {e \in edges : e[2] = v} \in SUBSET edges /\ {e \in edges : e[1] = v} \in SUBSET edges
    OBVIOUS
  <2>2. SumOf(f, {e \in edges : e[2] = v}) \in Nat /\ SumOf(f, {e \in edges : e[1] = v}) \in Nat
    BY <1>3, <2>1
  <2>3. flows[v] = SumOf(f, {e \in edges : e[2] = v})
    OBVIOUS
  <2>4. into[v] = in[v] + flows[v] /\ in[v] \in Nat
    BY <2>3
  <2>5. outof[v] = SumOf(f, {e \in edges : e[1] = v})
    OBVIOUS
  <2> HIDE DEF flows
  <2> QED
    BY <2>2, <2>3, <2>4, <2>5
<1>5. ASSUME NEW W \in SUBSET Job
      PROVE  /\ SumOf(flows, W) = SumOf(f, To(W))
             /\ SumOf(outof, W) = SumOf(f, From(W))
             /\ SumOf(into, W) = SumOf(in, W) + SumOf(f, To(W))
             /\ SumOf(outof, W) <= SumOf(into, W)
             /\ SumOf(i.usage, W) <= SumOf(into, W)
             /\ SumOf(in, W) \in Nat /\ SumOf(i.usage, W) \in Nat
  <2>1. IsFiniteSet(W) /\ \A v \in W : v \in Job
    BY <1>1, FS_Subset
  <2>2. PICK source, target : /\ source = [e \in edges |-> e[1]]
                              /\ target = [e \in edges |-> e[2]]
    OBVIOUS
  <2>3. /\ PartsOf(edges, target, W) = To(W)
        /\ PartsOf(edges, source, W) = From(W)
        /\ \A v : PartOf(edges, target, v) = {e \in edges : e[2] = v}
        /\ \A v : PartOf(edges, source, v) = {e \in edges : e[1] = v}
    BY <2>2 DEF PartOf, PartsOf
  <2>4. \A v \in W : flows[v] = SumOf(f, PartOf(edges, target, v))
    <3> TAKE v \in W
    <3>1. flows[v] = SumOf(f, {e \in edges : e[2] = v})
      BY <1>4, <2>1
    <3>2. PartOf(edges, target, v) = {e \in edges : e[2] = v}
      BY <2>3
    <3> HIDE DEF flows
    <3> QED
      BY <3>1, <3>2, Zenon
  <2>5. \A v \in W : outof[v] = SumOf(f, PartOf(edges, source, v))
    <3> TAKE v \in W
    <3>1. outof[v] = SumOf(f, {e \in edges : e[1] = v})
      BY <2>1
    <3>2. PartOf(edges, source, v) = {e \in edges : e[1] = v}
      BY <2>3
    <3> QED
      BY <3>1, <3>2, Zenon
  <2>0. \A e \in edges : f[e] \in Nat
    OBVIOUS
  <2> HIDE DEF To, From, flows
  <2>6. SumOf(flows, W) = SumOf(f, PartsOf(edges, target, W))
    BY <1>1, <2>0, <2>1, <2>4, SumByParts
  <2>7. SumOf(outof, W) = SumOf(f, PartsOf(edges, source, W))
    BY <1>1, <2>0, <2>1, <2>5, SumByParts
  <2>8. SumOf(flows, W) = SumOf(f, To(W)) /\ SumOf(outof, W) = SumOf(f, From(W))
    BY <2>3, <2>6, <2>7, Zenon
  <2>9. \A v \in W : /\ in[v] \in Int /\ in[v] \in Nat /\ flows[v] \in Int /\ into[v] \in Int
                     /\ into[v] = in[v] + flows[v]
                     /\ outof[v] \in Int /\ outof[v] <= into[v]
                     /\ i.usage[v] \in Int /\ i.usage[v] \in Nat /\ i.usage[v] <= into[v]
    <3> TAKE v \in W
    <3>1. v \in Job
      BY <2>1
    <3>2. flows[v] \in Nat /\ outof[v] \in Nat /\ into[v] = in[v] + flows[v] /\ into[v] \in Nat
      BY <1>4, <3>1
    <3>3. in[v] \in Nat /\ outof[v] <= into[v] /\ i.usage[v] <= into[v] /\ i.usage[v] \in Nat
      BY <3>1
    <3> QED
      BY <3>2, <3>3
  <2>10. SumOf(into, W) = SumOf(in, W) + SumOf(flows, W)
    BY <2>1, <2>9, SumOfSums
  <2>11. SumOf(into, W) = SumOf(in, W) + SumOf(f, To(W))
    BY <2>8, <2>10, Zenon
  <2>12. SumOf(outof, W) <= SumOf(into, W)
    BY <2>1, <2>9, SumsOrdered
  <2>13. SumOf(i.usage, W) <= SumOf(into, W)
    BY <2>1, <2>9, SumsOrdered
  <2>14. SumOf(in, W) \in Nat /\ SumOf(i.usage, W) \in Nat
    BY <2>1, <2>9, SumsGrow
  <2> QED
    BY <2>8, <2>11, <2>12, <2>13, <2>14
<1>6. SumOf(f, To(Ended \cup Running)) = SumOf(f, To(Ended)) + SumOf(f, To(Running))
  <2>1. /\ To(Ended) \subseteq To(Ended \cup Running)
        /\ To(Ended \cup Running) \ To(Ended) = To(Running)
    <3> HIDE DEF Ended, Running
    <3> QED
      BY <1>2
  <2>2. PICK A, B : A = To(Ended \cup Running) /\ B = To(Ended)
    OBVIOUS
  <2> HIDE DEF To, Ended, Running
  <2>3. IsFiniteSet(A) /\ A \in SUBSET edges
    BY <1>3, <2>2
  <2>4. \A e \in A : f[e] \in Int
    BY <2>3
  <2>0. B \subseteq A
    BY <2>1, <2>2, Zenon
  <2>5. SumOf(f, A) = SumOf(f, B) + SumOf(f, A \ B)
    BY <2>0, <2>3, <2>4, SumUnion
  <2> QED
    BY <2>1, <2>2, <2>5, Zenon
<1>7. SumOf(f, To(Ended \cup Running)) <= SumOf(f, From(Ended))
  <2>1. \A e \in To(Ended \cup Running) \ From(Ended) : f[e] = 0
    <3> SUFFICES ASSUME NEW e \in edges, e[2] \in Ended \cup Running, e[1] \notin Ended
                 PROVE  f[e] = 0
      OBVIOUS
    <3>1. e[1] \in Job /\ e[2] \in Job
      OBVIOUS
    <3>2. start[e[2]] <= x
      <4>1. start[e[2]] \in Nat /\ i.duration[e[2]] \in Nat
        BY <3>1
      <4> QED
        BY <4>1
    <3>3. ~(start[e[1]] + i.duration[e[1]] <= x)
      BY <3>1
    <3>4. /\ start[e[1]] \in Nat /\ i.duration[e[1]] \in Nat /\ start[e[2]] \in Nat
          /\ f[e] \in Nat
      BY <3>1
    <3>5. f[e] > 0 => start[e[1]] + i.duration[e[1]] <= start[e[2]]
      OBVIOUS
    <3> QED
      BY <3>2, <3>3, <3>4, <3>5
  <2>2. To(Ended \cup Running) \subseteq edges /\ From(Ended) \subseteq edges
    OBVIOUS
  <2> HIDE DEF To, From, Ended, Running
  <2> QED
    BY <1>1, <2>1, <2>2, SumButZeros
<1>8. SumOf(in, Ended) + SumOf(in, Running) <= SumOf(in, Job)
  <2>1. PICK V : V = Ended \cup Running
    OBVIOUS
  <2>2. V \in SUBSET Job /\ Ended \subseteq V /\ V \ Ended = Running /\ IsFiniteSet(V)
    <3> HIDE DEF Ended, Running
    <3>1. V \in SUBSET Job /\ Ended \subseteq V /\ V \ Ended = Running
      BY <1>2, <2>1
    <3> QED
      BY <1>1, <3>1, FS_Subset
  <2> HIDE DEF Ended, Running
  <2>3. \A v \in V : in[v] \in Int
    BY <2>2
  <2>4. SumOf(in, V) = SumOf(in, Ended) + SumOf(in, V \ Ended)
    BY <2>2, <2>3, SumUnion
  <2>5. SumOf(in, V) <= SumOf(in, Job)
    BY <1>1, <2>2, SumsGrow
  <2> QED
    BY <2>2, <2>4, <2>5, Zenon
<1>9. R = Running
  OBVIOUS
<1>10. PICK iE, iR, tE, tR, tV, fE : /\ iE = SumOf(in, Ended) /\ iR = SumOf(in, Running)
                                     /\ tE = SumOf(f, To(Ended)) /\ tR = SumOf(f, To(Running))
                                     /\ tV = SumOf(f, To(Ended \cup Running))
                                     /\ fE = SumOf(f, From(Ended))
  OBVIOUS
<1> HIDE DEF To, From, Ended, Running, flows
<1>11. iE \in Nat /\ iR \in Nat /\ tE \in Nat /\ tR \in Nat /\ tV \in Nat /\ fE \in Nat
  BY <1>2, <1>3, <1>5, <1>10
<1>12. tV = tE + tR /\ tV <= fE /\ iE + iR <= SumOf(in, Job)
  BY <1>6, <1>7, <1>8, <1>10, Zenon
<1>13. fE <= iE + tE
  BY <1>2, <1>5, <1>10
<1>14. SumOf(i.usage, Running) <= iR + tR /\ SumOf(i.usage, Running) \in Nat
  BY <1>2, <1>5, <1>10
<1>15. SumOf(in, Job) \in Nat
  BY <1>5
<1>16. SumOf(i.usage, R) <= iR + tR /\ SumOf(i.usage, R) \in Nat
  BY <1>9, <1>14, Zenon
<1>17. PICK u, all : u = SumOf(i.usage, R) /\ all = SumOf(in, Job)
  OBVIOUS
<1>18. u <= iR + tR /\ u \in Nat /\ all \in Nat /\ iE + iR <= all
  BY <1>12, <1>15, <1>16, <1>17
<1>19. u <= all
  BY <1>11, <1>12, <1>13, <1>18
<1> QED
  BY <1>17, <1>19

\* Flows only lead to jobs that start after the end of those they come from.
LEMMA FlowTakesTime ==
  ASSUME ilpInstance \in LagInstance, NEW start \in LagSchedules(ilpInstance),
         NEW e \in Job \X Job, MayFlow(start, e)
  PROVE  start[e[1]] + ilpInstance.duration[e[1]] <= start[e[2]]
<1>1. e[1] \in Job /\ e[2] \in Job
  OBVIOUS
<1>2. PICK a, b : a = e[1] /\ b = e[2]
  OBVIOUS
<1>3. /\ start[a] + ilpInstance.duration[a] <= ilpInstance.deadline[a]
      /\ ilpInstance.release[b] <= start[b]
  BY <1>1, <1>2 DEF LagSchedules, LagFeasible
<1>4. /\ start[a] \in Nat /\ start[b] \in Nat /\ ilpInstance.duration[a] \in Nat
      /\ ilpInstance.deadline[a] \in Nat /\ ilpInstance.release[b] \in Nat
  BY <1>1, <1>2, InstanceTypes, LastDeadlineType DEF LagSchedules
<1>5. \/ ilpInstance.release[b] >= ilpInstance.deadline[a]
      \/ start[a] + ilpInstance.duration[a] <= start[b]
  BY <1>2 DEF MayFlow, AlwaysFollows
<1>6. start[a] + ilpInstance.duration[a] <= start[b]
  BY <1>3, <1>4, <1>5
<1> QED
  BY <1>2, <1>6

\* No usage is above the sum of all of them.
LEMMA UsagesAdd ==
  ASSUME NEW usage \in [Job -> Nat]
  PROVE  /\ Total(usage, Job) \in Nat
         /\ \A v \in Job : usage[v] <= Total(usage, Job)
<1>1. /\ SumOf(usage, Job) \in Nat
      /\ \A T \in SUBSET Job : SumOf(usage, T) \in Nat /\ SumOf(usage, T) <= SumOf(usage, Job)
  BY JobsFinite, SumsGrow
<1>2. ASSUME NEW v \in Job PROVE usage[v] <= SumOf(usage, Job)
  <2>1. SumOf(usage, Job) = usage[v] + SumOf(usage, Job \ {v})
    BY JobsFinite, SumWithout
  <2>2. SumOf(usage, Job \ {v}) \in Nat
    BY <1>1
  <2> QED
    BY <2>1, <2>2
<1> QED
  BY <1>1, <1>2, TotalIsSum

\* Whatever is sent into the network of FBILP from outside covers the peak, with
\* flow proxies or without.
LEMMA FBILPBounds ==
  ASSUME ilpInstance \in LagInstance, NEW proxy \in BOOLEAN, NEW m \in FBILP(proxy)
  PROVE  m[1] \in LagSchedules(ilpInstance) /\ Peak(ilpInstance, m[1]) <= m[2]
<1> DEFINE i == ilpInstance
           usage == ilpInstance.usage
           edges == FlowVars(proxy)
           unit == 0 .. IF proxy THEN Total(ilpInstance.usage, Job)
                        ELSE Max(Range(ilpInstance.usage))
           Into(f, in, v) == in[v] + Total(f, {e \in edges : e[2] = v})
           OutOf(f, v) == Total(f, {e \in edges : e[1] = v})
           Balanced(y) == \A v \in Job :
             /\ Into(y[1], y[2], v) >= ilpInstance.usage[v]
             /\ OutOf(y[1], v) <= IF proxy THEN Into(y[1], y[2], v) ELSE ilpInstance.usage[v]
<1>1. PICK start \in LagSchedules(i) : m = <<start, Min(Inflows(start, proxy))>>
  BY DEF FBILP, StartPoints
<1> DEFINE flows == {f \in [edges -> unit] : \A e \in edges : f[e] > 0 => MayFlow(start, e)}
           All == {y \in flows \X [Job -> unit] : Balanced(y)}
<1>2. Inflows(start, proxy) = {Total(x[2], Job) : x \in All}
  BY Zenon DEF Inflows
<1>3. /\ i.usage \in [Job -> Nat] /\ usage \in [Job -> Nat]
      /\ \A v \in Job : /\ usage[v] \in Nat /\ usage[v] \in unit
                        /\ start[v] \in Nat /\ i.duration[v] \in Nat
      /\ unit \subseteq Nat /\ 0 \in unit
      /\ start \in [Job -> Nat]
  <2>1. i.usage \in [Job -> Nat]
    BY InstanceTypes
  <2>2. Max(Range(i.usage)) \in Nat /\ \A v \in Job : i.usage[v] <= Max(Range(i.usage))
    BY <2>1, MaxOfJobs
  <2>3. start \in [Job -> Nat]
    BY LastDeadlineType DEF LagSchedules
  <2>4. \A v \in Job : i.duration[v] \in Nat
    BY InstanceTypes
  <2>5. /\ Total(usage, Job) \in Nat
        /\ \A v \in Job : usage[v] <= Total(usage, Job)
    BY <2>1, UsagesAdd
  <2> QED
    BY <2>1, <2>2, <2>3, <2>4, <2>5
<1>4. edges \subseteq Job \X Job
  BY DEF FlowVars
<1>5. ASSUME NEW n \in Inflows(start, proxy)
      PROVE  n \in Nat /\ \A x \in Nat : UsageAt(i, start, x) <= n
  <2>1. PICK y \in All : n = Total(y[2], Job)
    BY <1>2, <1>5
  <2>2. PICK f, in : f = y[1] /\ in = y[2]
    OBVIOUS
  <2>3. f \in [edges -> unit] /\ in \in [Job -> unit] /\ Balanced(y)
        /\ \A e \in edges : f[e] > 0 => MayFlow(start, e)
    BY <2>1, <2>2
  <2>4. (\A v \in Job : in[v] \in Nat) /\ \A e \in edges : f[e] \in Nat
    <3> HIDE DEF edges, unit
    <3> QED
      BY <1>3, <2>3
  <2>5. PICK into, outof : /\ into = [v \in Job |-> in[v] + SumOf(f, {e \in edges : e[2] = v})]
                           /\ outof = [v \in Job |-> SumOf(f, {e \in edges : e[1] = v})]
    OBVIOUS
  <2>6. \A v \in Job : /\ into[v] = in[v] + SumOf(f, {e \in edges : e[2] = v})
                       /\ outof[v] = SumOf(f, {e \in edges : e[1] = v})
    BY <2>5
  <2>7. ASSUME NEW v \in Job
        PROVE  outof[v] <= into[v] /\ i.usage[v] <= into[v]
    <3>1. Into(f, in, v) = into[v]
      <4>1. Total(f, {e \in edges : e[2] = v}) = SumOf(f, {e \in edges : e[2] = v})
        BY TotalIsSum
      <4>2. into[v] = in[v] + SumOf(f, {e \in edges : e[2] = v})
        BY <2>6
      <4> HIDE DEF edges
      <4> QED
        BY <4>1, <4>2, Zenon
    <3>2. OutOf(f, v) = outof[v]
      <4>1. Total(f, {e \in edges : e[1] = v}) = SumOf(f, {e \in edges : e[1] = v})
        BY TotalIsSum
      <4>2. outof[v] = SumOf(f, {e \in edges : e[1] = v})
        BY <2>6
      <4> HIDE DEF edges
      <4> QED
        BY <4>1, <4>2, Zenon
    <3>3. /\ Into(f, in, v) >= usage[v]
          /\ OutOf(f, v) <= IF proxy THEN Into(f, in, v) ELSE usage[v]
      <4>1. /\ Into(y[1], y[2], v) >= usage[v]
            /\ OutOf(y[1], v) <= IF proxy THEN Into(y[1], y[2], v) ELSE usage[v]
        BY <2>3
      <4> HIDE DEF edges, usage
      <4> QED
        BY <2>2, <4>1
    <3>4. /\ {e \in edges : e[2] = v} \in SUBSET edges /\ {e \in edges : e[1] = v} \in SUBSET edges
      OBVIOUS
    <3>5. IsFiniteSet(edges)
      <4>1. IsFiniteSet(Job \X Job)
        BY JobsFinite, FS_Product
      <4> HIDE DEF edges
      <4> QED
        BY <1>4, <4>1, FS_Subset
    <3>6. SumOf(f, {e \in edges : e[2] = v}) \in Nat /\ SumOf(f, {e \in edges : e[1] = v}) \in Nat
      <4> HIDE DEF edges
      <4> QED
        BY <2>4, <3>4, <3>5, SumsGrow
    <3>7. into[v] \in Nat /\ outof[v] \in Nat
      <4> HIDE DEF edges
      <4>1. /\ into[v] = in[v] + SumOf(f, {e \in edges : e[2] = v})
            /\ outof[v] = SumOf(f, {e \in edges : e[1] = v})
        BY <2>6, Zenon
      <4>2. in[v] \in Nat
        BY <2>4
      <4> QED
        BY <3>6, <4>1, <4>2
    <3>8. into[v] >= usage[v] /\ outof[v] <= IF proxy THEN into[v] ELSE usage[v]
      <4> HIDE DEF Into, OutOf, usage, edges
      <4> QED
        BY <3>1, <3>2, <3>3
    <3>9. usage[v] \in Nat
      BY <1>3
    <3> HIDE DEF Into, OutOf, edges, unit, All, flows
    <3> QED
      BY <3>7, <3>8, <3>9
  <2>8. \A e \in edges : f[e] > 0 => start[e[1]] + i.duration[e[1]] <= start[e[2]]
    <3> TAKE e \in edges
    <3>1. e \in Job \X Job
      BY <1>4
    <3>2. f[e] > 0 => MayFlow(start, e)
      BY <2>3
    <3> QED
      BY <3>1, <3>2, FlowTakesTime
  <2>9. n = SumOf(in, Job)
    BY <2>1, <2>2, TotalIsSum
  <2>10. SumOf(in, Job) \in Nat
    BY <2>4, JobsFinite, SumsGrow
  <2> HIDE DEF Into, OutOf, Balanced, edges, unit, All, flows, usage, i
  <2>11. ASSUME NEW x \in Nat PROVE UsageAt(i, start, x) <= n
    <3>1. PICK R : R = RunningAt(i, start, x)
      OBVIOUS
    <3>2. UsageAt(i, start, x) =
            SumOf(i.usage, {v \in Job : start[v] <= x /\ x < start[v] + i.duration[v]})
      BY <1>3, UsageIsSum
    <3>3. UsageAt(i, start, x) = SumOf(i.usage, R)
      BY <3>1, <3>2, Zenon DEF RunningAt
    <3>4. SumOf(i.usage, R) <= SumOf(in, Job)
      <4>1. \A v \in Job : i.duration[v] \in Nat
        BY <1>3
      <4>2. \A v \in Job : start[v] \in Nat
        BY <1>3
      <4>3. \A v \in Job : in[v] \in Nat
        BY <2>4
      <4>4. \A e \in edges : f[e] \in Nat
        BY <2>4
      <4>5. \A v \in Job : outof[v] <= into[v] /\ i.usage[v] <= into[v]
        BY <2>7
      <4>6. \A v \in Job : into[v] = in[v] + FlowTo(edges, f, v)
        BY <2>6, Zenon DEF FlowTo
      <4>7. \A v \in Job : outof[v] = FlowFrom(edges, f, v)
        BY <2>6, Zenon DEF FlowFrom
      <4>8. i.usage \in [Job -> Nat]
        BY <1>3
      <4> QED
        BY <1>4, <2>8, <3>1, <4>1, <4>2, <4>3, <4>4, <4>5, <4>6, <4>7, <4>8, FlowsCover
    <3> QED
      BY <2>9, <3>3, <3>4, Zenon
  <2> QED
    BY <2>9, <2>10, <2>11
<1>6. Inflows(start, proxy) # {}
  <2> DEFINE none == [e \in edges |-> 0]
  <2>1. none \in flows
    <3> HIDE DEF edges, unit
    <3> QED
      BY <1>3
  <2>2. usage \in [Job -> unit]
    <3> HIDE DEF usage, unit
    <3> QED
      BY <1>3
  <2>3. IsFiniteSet(edges)
    <3>1. IsFiniteSet(Job \X Job)
      BY JobsFinite, FS_Product
    <3> HIDE DEF edges
    <3> QED
      BY <1>4, <3>1, FS_Subset
  <2>4. ASSUME NEW T \in SUBSET edges PROVE Total(none, T) = 0
    <3>1. IsFiniteSet(T) /\ \A e \in T : none[e] = 0
      <4> HIDE DEF edges
      <4> QED
        BY <2>3, FS_Subset
    <3> HIDE DEF none
    <3> QED
      BY <3>1, SumOfZeros, TotalIsSum
  <2>5. ASSUME NEW v \in Job
        PROVE  /\ Into(none, usage, v) >= usage[v]
               /\ OutOf(none, v) <= IF proxy THEN Into(none, usage, v) ELSE usage[v]
    <3>1. /\ {e \in edges : e[2] = v} \in SUBSET edges /\ {e \in edges : e[1] = v} \in SUBSET edges
      OBVIOUS
    <3>2. Total(none, {e \in edges : e[2] = v}) = 0 /\ Total(none, {e \in edges : e[1] = v}) = 0
      <4> HIDE DEF none
      <4> QED
        BY <2>4, <3>1
    <3>3. usage[v] \in Nat
      BY <1>3
    <3> HIDE DEF none, edges, usage
    <3> QED
      BY <3>2, <3>3
  <2>6. PICK y : y = <<none, usage>>
    OBVIOUS
  <2>7. y[1] = none /\ y[2] = usage /\ y \in flows \X [Job -> unit]
    <3> HIDE DEF none, usage, flows, unit
    <3> QED
      BY <2>1, <2>2, <2>6
  <2>8. Balanced(y)
    <3> HIDE DEF none, edges, Into, OutOf
    <3> QED
      BY <2>5, <2>7
  <2>9. y \in All
    BY <2>7, <2>8
  <2> HIDE DEF All
  <2> QED
    BY <1>2, <2>9
<1>7. Min(Inflows(start, proxy)) \in Inflows(start, proxy)
  <2>1. /\ Inflows(start, proxy) \subseteq Int
        /\ \A n \in Inflows(start, proxy) : 0 <= n
    BY <1>5
  <2> HIDE DEF i
  <2> QED
    BY <1>6, <2>1, MinBounded
<1> HIDE DEF All, flows, Balanced, Into, OutOf, edges, unit, usage
<1>8. PICK x \in Events(i, start) : Peak(i, start) = UsageAt(i, start, x)
  BY <1>3, PeakFacts
<1>9. x \in Nat
  BY <1>3, <1>8 DEF Events
<1>10. Peak(i, start) <= Min(Inflows(start, proxy))
  BY <1>5, <1>7, <1>8, <1>9
<1> QED
  BY <1>1, <1>10

\* The windows the model is built with belong to its instance.
WindowsOfInstance ==
  /\ ilpInstance \in LagInstance /\ Acyclic(ilpInstance)
  /\ ilpWindows = Windows(ilpInstance)

\* Every schedule lies within them.
LEMMA WithinWindows ==
  ASSUME WindowsOfInstance, NEW start \in LagSchedules(ilpInstance), NEW v \in Job
  PROVE  /\ ilpWindows.es[v] \in Nat /\ ilpWindows.lf[v] \in Nat
         /\ start[v] \in Nat /\ ilpInstance.duration[v] \in Nat
         /\ LatestStart(v) = ilpWindows.lf[v] - ilpInstance.duration[v]
         /\ ilpWindows.es[v] <= start[v]
         /\ start[v] + ilpInstance.duration[v] <= ilpWindows.lf[v]
<1>1. /\ ilpInstance \in LagInstance /\ Acyclic(ilpInstance)
      /\ ilpWindows.es = EarliestStarts(ilpInstance)
      /\ ilpWindows.lf = LatestFinishs(ilpInstance)
  BY DEF WindowsOfInstance, Windows
<1>2. start[v] \in Nat
  BY <1>1, LastDeadlineType DEF LagSchedules
<1>3. ilpInstance.duration[v] \in Nat
  BY <1>1, InstanceTypes
<1>4. /\ EarliestStarts(ilpInstance)[v] \in Nat /\ LatestFinishs(ilpInstance)[v] \in Nat
      /\ EarliestStarts(ilpInstance)[v] <= start[v]
      /\ start[v] + ilpInstance.duration[v] <= LatestFinishs(ilpInstance)[v]
  BY <1>1, BetweenEarliestAndLatest
<1> QED
  BY <1>1, <1>2, <1>3, <1>4, Zenon DEF LatestStart

\* A job counts once or not at all at the start of another one, and once if it
\* runs then: the variables that are left out, and those that the constraints
\* leave open, are never what makes the difference.
LEMMA ShareOfRunning ==
  ASSUME WindowsOfInstance, NEW start \in LagSchedules(ilpInstance),
         NEW b \in Job, NEW a \in Job
  PROVE  /\ Share(start, b, a) \subseteq {0, 1} /\ Share(start, b, a) # {}
         /\ start[b] <= start[a] /\ start[a] < start[b] + ilpInstance.duration[b] =>
              Share(start, b, a) = {1}
<1> DEFINE always == LatestStart(b) < ilpWindows.es[a]
           order == IF HasOrderVar(b, a) THEN OrderVar(start, b, a)
                    ELSE IF always THEN {1} ELSE {0}
           over == IF HasDisjunctVar(b, a) /\ (HasOrderVar(b, a) \/ always)
                   THEN DisjunctVar(start, b, a) ELSE {0}
<1>1. Share(start, b, a) = IF Meet(a, b) THEN {o - d : o \in order, d \in over} ELSE {0}
  BY DEF Share
<1>2. PICK esA, esB, lfA, lfB, lsA, lsB, sA, sB, dA, dB :
        /\ esA = ilpWindows.es[a] /\ esB = ilpWindows.es[b]
        /\ lfA = ilpWindows.lf[a] /\ lfB = ilpWindows.lf[b]
        /\ lsA = LatestStart(a) /\ lsB = LatestStart(b)
        /\ sA = start[a] /\ sB = start[b]
        /\ dA = ilpInstance.duration[a] /\ dB = ilpInstance.duration[b]
  OBVIOUS
<1>3. /\ esA \in Nat /\ lfA \in Nat /\ sA \in Nat /\ dA \in Nat
      /\ lsA = lfA - dA /\ esA <= sA /\ sA + dA <= lfA
  BY <1>2, WithinWindows
<1>4. /\ esB \in Nat /\ lfB \in Nat /\ sB \in Nat /\ dB \in Nat
      /\ lsB = lfB - dB /\ esB <= sB /\ sB + dB <= lfB
  BY <1>2, WithinWindows
<1>5. /\ Meet(a, b) <=> esA <= lfB /\ esB <= lfA
      /\ HasOrderVar(b, a) <=> esB <= lsA /\ lsB >= esA
      /\ HasDisjunctVar(b, a) <=> lsA >= esB + dB
      /\ always <=> lsB < esA
      /\ OrderVar(start, b, a) = IF sA - sB + 1 > 0 THEN {1} ELSE {0, 1}
      /\ DisjunctVar(start, b, a) = IF sA - sB - dB >= 0 THEN {0, 1} ELSE {0}
  BY <1>2 DEF Meet, HasOrderVar, HasDisjunctVar, OrderVar, DisjunctVar
<1>6. /\ order \in {{0}, {1}, {0, 1}} /\ over \in {{0}, {0, 1}}
      /\ over = {0, 1} => order = {1}
  <2>1. order \in {{0}, {1}, {0, 1}} /\ over \in {{0}, {0, 1}}
    BY <1>5
  <2>2. ASSUME over = {0, 1} PROVE order = {1}
    <3>1. {0, 1} # {0}
      <4>1. 1 \in {0, 1} /\ 1 \notin {0}
        OBVIOUS
      <4> QED
        BY <4>1
    <3>2. (HasOrderVar(b, a) \/ always) /\ DisjunctVar(start, b, a) = {0, 1}
      BY <2>2, <3>1
    <3>3. sA - sB - dB >= 0
      BY <1>5, <3>1, <3>2
    <3>4. sA - sB + 1 > 0
      BY <1>3, <1>4, <3>3
    <3> QED
      BY <1>5, <3>2, <3>4
  <2> QED
    BY <2>1, <2>2
<1>7. ASSUME sB <= sA, sA < sB + dB PROVE Meet(a, b) /\ order = {1} /\ over = {0}
  <2>1. Meet(a, b)
    BY <1>3, <1>4, <1>5, <1>7
  <2>2. sA - sB + 1 > 0 /\ ~(sA - sB - dB >= 0) /\ esB <= lsA
    BY <1>3, <1>4, <1>7
  <2>3. HasOrderVar(b, a) \/ always
    BY <1>3, <1>4, <1>5, <2>2
  <2> QED
    BY <1>5, <2>1, <2>2, <2>3
<1> HIDE DEF order, over, always
<1>8. {o - d : o \in order, d \in over} \subseteq {0, 1}
  <2> SUFFICES ASSUME NEW o \in order, NEW d \in over PROVE o - d \in {0, 1}
    OBVIOUS
  <2>1. CASE over = {0}
    BY <1>6, <2>1
  <2>2. CASE over = {0, 1}
    BY <1>6, <2>2
  <2> QED
    BY <1>6, <2>1, <2>2
<1>9. {o - d : o \in order, d \in over} # {}
  <2>1. PICK o \in order, d \in over : TRUE
    BY <1>6
  <2>2. o - d \in {o2 - d2 : o2 \in order, d2 \in over}
    BY <2>1
  <2> QED
    BY <2>2
<1>10. ASSUME order = {1}, over = {0} PROVE {o - d : o \in order, d \in over} = {1}
  BY <1>10
<1> QED
  BY <1>1, <1>2, <1>7, <1>8, <1>9, <1>10

\* The usage that OBILP bounds at the start of a job is at least the usage then.
LEMMA StartUsageCovers ==
  ASSUME WindowsOfInstance, NEW start \in LagSchedules(ilpInstance), NEW a \in Job
  PROVE  /\ StartUsage(start, a) \in Nat
         /\ ilpInstance.duration[a] > 0 =>
              UsageAt(ilpInstance, start, start[a]) <= StartUsage(start, a)
<1> DEFINE usage == ilpInstance.usage
           least == [b \in Job |-> Min(Share(start, b, a)) * ilpInstance.usage[b]]
           Others == Job \ {a}
<1>1. StartUsage(start, a) = usage[a] + SumOf(least, Others)
  BY DEF StartUsage, Total, SumOf
<1>2. usage \in [Job -> Nat] /\ \A b \in Job : usage[b] \in Nat
  BY InstanceTypes DEF WindowsOfInstance
<1>3. \A b \in Job : /\ start[b] \in Nat /\ ilpInstance.duration[b] \in Nat
  BY WithinWindows
<1>4. ASSUME NEW b \in Job
      PROVE  /\ least[b] \in Nat
             /\ start[b] <= start[a] /\ start[a] < start[b] + ilpInstance.duration[b] =>
                  least[b] = usage[b]
  <2>1. PICK share, u : share = Share(start, b, a) /\ u = usage[b]
    OBVIOUS
  <2>2. least[b] = Min(share) * u /\ u \in Nat
    BY <1>2, <2>1
  <2>3. share \subseteq {0, 1} /\ share # {}
    BY <2>1, ShareOfRunning
  <2>4. Min(share) \in share
    <3>1. share \subseteq Int /\ share # {} /\ \A x \in share : 0 <= x
      BY <2>3
    <3>2. 0 \in Int
      OBVIOUS
    <3> QED
      BY <3>1, <3>2, MinBounded, Zenon
  <2>5. Min(share) = 0 \/ Min(share) = 1
    BY <2>3, <2>4
  <2>6. least[b] = 0 \/ least[b] = u
    BY <2>2, <2>5
  <2>7. ASSUME start[b] <= start[a], start[a] < start[b] + ilpInstance.duration[b]
        PROVE  least[b] = u
    <3>1. share = {1}
      BY <2>1, <2>7, ShareOfRunning
    <3>2. Min(share) = 1
      BY <2>4, <3>1
    <3> QED
      BY <2>2, <3>2
  <2> HIDE DEF least
  <2> QED
    BY <2>1, <2>2, <2>6, <2>7
<1>5. IsFiniteSet(Others) /\ \A b \in Others : least[b] \in Nat
  <2>1. Others \subseteq Job
    OBVIOUS
  <2> HIDE DEF Others, least
  <2> QED
    BY <1>4, <2>1, JobsFinite, FS_Subset
<1>6. StartUsage(start, a) \in Nat
  <2> HIDE DEF Others, least
  <2> QED
    BY <1>1, <1>2, <1>5, SumsGrow
<1>7. ASSUME ilpInstance.duration[a] > 0
      PROVE  UsageAt(ilpInstance, start, start[a]) <= StartUsage(start, a)
  <2>1. PICK R : R = RunningAt(ilpInstance, start, start[a])
    OBVIOUS
  <2>2. UsageAt(ilpInstance, start, start[a]) = SumOf(usage, R)
    <3>1. UsageAt(ilpInstance, start, start[a]) =
            SumOf(usage, {v \in Job : start[v] <= start[a] /\ start[a] < start[v] + ilpInstance.duration[v]})
      BY <1>2, UsageIsSum
    <3> QED
      BY <2>1, <3>1, Zenon DEF RunningAt
  <2>3. R \subseteq Job /\ a \in R
    BY <1>3, <1>7, <2>1 DEF RunningAt
  <2>4. PICK Q : Q = R \ {a}
    OBVIOUS
  <2>5. Q \in SUBSET Others /\ IsFiniteSet(Q) /\ IsFiniteSet(R)
    <3>1. R \in SUBSET Job /\ Q \in SUBSET Job /\ Q \in SUBSET Others
      BY <2>3, <2>4
    <3> HIDE DEF Others
    <3> QED
      BY <3>1, JobsFinite, FS_Subset
  <2>6. SumOf(usage, R) = usage[a] + SumOf(usage, Q) /\ SumOf(usage, Q) \in Int
    <3>1. \A b \in R : usage[b] \in Int
      BY <1>2, <2>3
    <3> HIDE DEF usage
    <3> QED
      BY <2>3, <2>4, <2>5, <3>1, SumWithout
  <2>7. \A b \in Q : usage[b] \in Int /\ least[b] \in Int /\ usage[b] <= least[b]
    <3> TAKE b \in Q
    <3>1. b \in Job /\ start[b] <= start[a] /\ start[a] < start[b] + ilpInstance.duration[b]
      BY <2>1, <2>4 DEF RunningAt
    <3>2. least[b] = usage[b] /\ usage[b] \in Nat
      BY <1>2, <1>4, <3>1
    <3> HIDE DEF least, usage
    <3> QED
      BY <3>2
  <2> HIDE DEF least, usage, Others
  <2>8. SumOf(usage, Q) <= SumOf(least, Q)
    BY <2>5, <2>7, SumsOrdered
  <2>9. SumOf(least, Q) <= SumOf(least, Others) /\ SumOf(least, Q) \in Nat
        /\ SumOf(least, Others) \in Nat
    BY <1>5, <2>5, SumsGrow
  <2>10. usage[a] \in Nat
    BY <1>2
  <2> QED
    BY <1>1, <2>2, <2>6, <2>8, <2>9, <2>10
<1> QED
  BY <1>6, <1>7

\* The bounds of OBILP are bounds on the peak.
LEMMA OBILPBounds ==
  ASSUME WindowsOfInstance, NEW m \in OBILP
  PROVE  m[1] \in LagSchedules(ilpInstance) /\ Peak(ilpInstance, m[1]) <= m[2]
<1> DEFINE Usages(start) == {StartUsage(start, a) : a \in Job}
<1>1. PICK start \in LagSchedules(ilpInstance) : m = <<start, Max(Usages(start))>>
  BY Zenon DEF OBILP, StartPoints
<1>2. \A a \in Job : StartUsage(start, a) \in Nat
  BY StartUsageCovers
<1>3. PICK y : y = [a \in Job |-> StartUsage(start, a)]
  OBVIOUS
<1>4. y \in [Job -> Int]
  BY <1>2, <1>3
<1>5. PICK high \in Int : \A a \in Job : y[a] <= high
  BY <1>4, JobsBounded
<1>6. /\ Usages(start) \subseteq Nat /\ Usages(start) \subseteq Int /\ Usages(start) # {}
      /\ \A n \in Usages(start) : n <= high
  <2>1. 1 \in Job
    BY JobCountAssumption DEF Job
  <2> QED
    BY <1>2, <1>3, <1>5, <2>1
<1>7. Max(Usages(start)) \in Usages(start) /\ \A n \in Usages(start) : Max(Usages(start)) >= n
  <2> HIDE DEF Usages
  <2> QED
    BY <1>6, MaxBounded
<1>8. PICK top : top = Max(Usages(start))
  OBVIOUS
<1>9. top \in Nat /\ \A a \in Job : StartUsage(start, a) <= top
  BY <1>2, <1>6, <1>7, <1>8
<1>10. ilpInstance \in LagInstance /\ start \in [Job -> Nat]
  BY LastDeadlineType DEF LagSchedules, WindowsOfInstance
<1>11. ilpInstance.usage \in [Job -> Nat] /\ Peak(ilpInstance, start) \in Nat
  BY <1>10, InstanceTypes, PeakFacts
<1>12. Peak(ilpInstance, start) <= top
  <2>1. CASE Peak(ilpInstance, start) = 0
    BY <1>9, <2>1
  <2>2. ASSUME NEW a \in Job, ilpInstance.duration[a] > 0,
               Peak(ilpInstance, start) <= UsageAt(ilpInstance, start, start[a])
        PROVE  Peak(ilpInstance, start) <= top
    <3>1. UsageAt(ilpInstance, start, start[a]) <= StartUsage(start, a)
      BY <2>2, StartUsageCovers
    <3>2. UsageAt(ilpInstance, start, start[a]) \in Nat
      BY <1>11, UsageIsSum
    <3> QED
      BY <1>2, <1>9, <1>11, <2>2, <3>1, <3>2
  <2> QED
    BY <1>10, <2>1, <2>2, PeakAtStart
<1> QED
  BY <1>1, <1>8, <1>12

\* The usage EBILP counts at an event is that of the jobs that start at it or at
\* an earlier one and end at a later one.
LEMMA EventUsageIsSum ==
  ASSUME ilpInstance \in LagInstance, NEW p \in EventPairs, NEW k \in Event,
         NEW open, open = {v \in Job : p[v][1] <= k /\ ~(p[v][2] <= k)}
  PROVE  EventUsage(p, k) = SumOf(ilpInstance.usage, open)
<1> DEFINE begun == {v \in Job : p[v][1] <= k}
           ended == {v \in Job : p[v][2] <= k}
           usage == ilpInstance.usage
<1>1. usage \in [Job -> Nat] /\ \A v \in Job : usage[v] \in Int /\ usage[v] \in Nat
  BY InstanceTypes
<1>2. \A v \in Job : p[v][1] \in Int /\ p[v][2] \in Int /\ p[v][1] < p[v][2] /\ k \in Int
  BY JobCountAssumption DEF EventPairs, Event
<1>3. begun \in SUBSET Job /\ ended \subseteq begun /\ begun \ ended = open
  BY <1>2
<1>4. PICK B, E : B = begun /\ E = ended
  OBVIOUS
<1>5. EventUsage(p, k) = SumOf(usage, B) - SumOf(usage, E)
  BY <1>4 DEF EventUsage, Total, SumOf
<1> HIDE DEF begun, ended, usage
<1>6. IsFiniteSet(B) /\ B \subseteq Job /\ E \subseteq B /\ B \ E = open
  BY <1>3, <1>4, JobsFinite, FS_Subset
<1>7. \A v \in B : usage[v] \in Int
  BY <1>1, <1>6
<1>8. SumOf(usage, B) = SumOf(usage, E) + SumOf(usage, B \ E)
  BY <1>6, <1>7, SumUnion
<1>9. SumOf(usage, B) = SumOf(usage, E) + SumOf(usage, open)
  BY <1>6, <1>8, Zenon
<1>10. SumOf(usage, E) \in Nat /\ SumOf(usage, open) \in Nat
  <2>1. E \in SUBSET Job /\ open \in SUBSET Job
    BY <1>6
  <2> QED
    BY <1>1, <2>1, JobsFinite, SumsGrow
<1> QED
  BY <1>5, <1>9, <1>10 DEF usage

\* The greatest of them.
LEMMA EventPeakIsGreatest ==
  ASSUME ilpInstance \in LagInstance, NEW p \in EventPairs
  PROVE  /\ EventPeak(p) \in Nat
         /\ \A k \in Event : EventUsage(p, k) \in Nat /\ EventUsage(p, k) <= EventPeak(p)
<1> DEFINE Usages == {EventUsage(p, k) : k \in Event}
           all == SumOf(ilpInstance.usage, Job)
<1>1. \A v \in Job : ilpInstance.usage[v] \in Nat
  BY InstanceTypes
<1>2. all \in Nat
  BY <1>1, JobsFinite, SumsGrow
<1>3. ASSUME NEW k \in Event PROVE EventUsage(p, k) \in Nat /\ EventUsage(p, k) <= all
  <2>1. PICK open : open = {v \in Job : p[v][1] <= k /\ ~(p[v][2] <= k)}
    OBVIOUS
  <2>2. EventUsage(p, k) = SumOf(ilpInstance.usage, open)
    BY <2>1, EventUsageIsSum
  <2>3. open \in SUBSET Job
    BY <2>1
  <2> QED
    BY <1>1, <2>2, <2>3, JobsFinite, SumsGrow
<1>4. 1 \in Event
  BY JobCountAssumption DEF Event
<1>5. /\ Usages \subseteq Int /\ Usages # {} /\ \A n \in Usages : n <= all
      /\ Usages \subseteq Nat /\ all \in Int
  BY <1>2, <1>3, <1>4
<1>6. Max(Usages) \in Usages /\ \A n \in Usages : Max(Usages) >= n
  <2> HIDE DEF Usages, all
  <2> QED
    BY <1>5, MaxBounded
<1>7. EventPeak(p) = Max(Usages)
  BY DEF EventPeak
<1>8. \A k \in Event : EventUsage(p, k) \in Usages
  OBVIOUS
<1> HIDE DEF Usages, all
<1> QED
  BY <1>3, <1>5, <1>6, <1>7, <1>8

\* All jobs that run at a time step are open at the last of the events at which
\* one of them starts: none of them has ended before the time of that event, and
\* rounding does not bring its end behind the start it comes before.
LEMMA EventsCover ==
  ASSUME ilpInstance \in LagInstance, NEW p \in EventPairs, NEW t \in EventTimes,
         InOrder(p, t),
         NEW start, start = [v \in Job |-> Rounded(t[p[v][1]])],
         NEW x \in Nat, NEW R, R = RunningAt(ilpInstance, start, x), R # {}
  PROVE  \E k \in Event : R \subseteq {v \in Job : p[v][1] <= k /\ ~(p[v][2] <= k)}
<1> DEFINE Begun == {p[v][1] : v \in R}
<1>0. R \subseteq Job /\ \A v \in R : start[v] <= x /\ x < start[v] + ilpInstance.duration[v]
  BY DEF RunningAt
<1>1. \A v \in Job : /\ p[v][1] \in Event /\ p[v][2] \in Event /\ p[v][1] < p[v][2]
                     /\ p[v][1] \in Nat /\ p[v][2] \in Nat /\ p[v][1] \in Int
                     /\ p[v][1] <= 2 * JobCount
  BY JobCountAssumption DEF EventPairs, Event
<1>2. Begun \subseteq Int /\ Begun # {} /\ \A y \in Begun : y <= 2 * JobCount
  BY <1>0, <1>1
<1>3. Max(Begun) \in Begun /\ \A y \in Begun : Max(Begun) >= y
  <2>1. 2 * JobCount \in Int
    BY JobCountAssumption
  <2> HIDE DEF Begun
  <2> QED
    BY <1>2, <2>1, MaxBounded
<1>4. PICK b \in R : \A v \in R : p[v][1] <= p[b][1]
  <2>1. PICK b \in R : Max(Begun) = p[b][1]
    BY <1>3
  <2>2. \A v \in R : Max(Begun) >= p[v][1]
    BY <1>3
  <2>3. \A v \in R : p[v][1] \in Nat
    BY <1>0, <1>1
  <2> HIDE DEF Begun
  <2> QED
    BY <2>1, <2>2, <2>3
<1>5. PICK k : k = p[b][1]
  OBVIOUS
<1>6. k \in Event /\ b \in Job
  BY <1>0, <1>1, <1>4, <1>5
<1>7. ASSUME NEW v \in R PROVE v \in Job /\ p[v][1] <= k /\ ~(p[v][2] <= k)
  <2>1. v \in Job /\ p[v][1] <= k
    BY <1>0, <1>4, <1>5
  <2>2. ASSUME p[v][2] <= k PROVE FALSE
    <3>1. PICK from, to, at, len : /\ from = t[p[v][1]] /\ to = t[p[v][2]] /\ at = t[k]
                                   /\ len = ilpInstance.duration[v]
      OBVIOUS
    <3>2. from \in Nat /\ to \in Nat /\ at \in Nat /\ len \in Nat
      BY <1>5, <1>6, <2>1, <3>1, TimesOfEvents, InstanceTypes
    <3>3. to <= at
      <4>1. p[v][2] \in Event
        BY <1>1, <2>1
      <4> QED
        BY <1>6, <2>2, <3>1, <4>1 DEF EventTimes
    <3>4. to - from >= 2 * len
      BY <2>1, <3>1 DEF InOrder
    <3>5. from + 2 * len <= at
      BY <3>2, <3>3, <3>4
    <3>6. Rounded(from) + len <= Rounded(at)
      BY <3>2, <3>5, RoundingKeepsOrder
    <3>7. start[v] = Rounded(from) /\ start[b] = Rounded(at)
      BY <1>5, <1>6, <2>1, <3>1
    <3>8. start[b] <= x /\ x < start[v] + len
      BY <1>0, <1>4, <3>1
    <3>9. Rounded(from) \in Nat /\ Rounded(at) \in Nat
      BY <3>2, RoundingKeepsBounds
    <3> QED
      BY <3>2, <3>6, <3>7, <3>8, <3>9
  <2> QED
    BY <2>1, <2>2
<1> QED
  BY <1>6, <1>7

\* The bounds of EBILP are bounds on the peak.
LEMMA EBILPBounds ==
  ASSUME ilpInstance \in LagInstance, NEW points, NEW m \in EBILP(points)
  PROVE  Peak(ilpInstance, m[1]) <= m[2]
<1>1. PICK p \in EventPairs, t \in EventTimes :
        /\ InOrder(p, t)
        /\ m = <<[v \in Job |-> Rounded(t[p[v][1]])], EventPeak(p)>>
  BY DEF EBILP
<1>2. PICK start : start = [v \in Job |-> Rounded(t[p[v][1]])]
  OBVIOUS
<1>3. \A v \in Job : start[v] \in Nat
  BY <1>2, TimesOfEvents, RoundingKeepsBounds
<1>4. /\ ilpInstance.usage \in [Job -> Nat] /\ \A v \in Job : ilpInstance.usage[v] \in Nat
      /\ \A v \in Job : ilpInstance.duration[v] \in Nat
  BY InstanceTypes
<1>5. PICK x \in Events(ilpInstance, start) :
        Peak(ilpInstance, start) = UsageAt(ilpInstance, start, x)
  BY <1>4, PeakFacts
<1>6. x \in Nat
  BY <1>3, <1>4, <1>5 DEF Events
<1>7. PICK R : R = RunningAt(ilpInstance, start, x)
  OBVIOUS
<1>8. Peak(ilpInstance, start) = SumOf(ilpInstance.usage, R) /\ R \in SUBSET Job
  <2>1. UsageAt(ilpInstance, start, x) = SumOf(ilpInstance.usage,
          {v \in Job : start[v] <= x /\ x < start[v] + ilpInstance.duration[v]})
    BY <1>4, UsageIsSum
  <2>2. RunningAt(ilpInstance, start, x) =
          {v \in Job : start[v] <= x /\ x < start[v] + ilpInstance.duration[v]}
    BY DEF RunningAt
  <2>3. Peak(ilpInstance, start) = SumOf(ilpInstance.usage, R)
    BY <1>5, <1>7, <2>1, <2>2, Zenon
  <2> QED
    BY <1>7, <2>2, <2>3
<1>9. EventPeak(p) \in Nat
  BY EventPeakIsGreatest
<1>10. SumOf(ilpInstance.usage, R) <= EventPeak(p)
  <2>1. CASE R = {}
    <3>1. SumOf(ilpInstance.usage, {}) = 0
      BY FS_EmptySet, SumPicks
    <3>2. SumOf(ilpInstance.usage, R) = 0
      BY <2>1, <3>1
    <3> QED
      BY <1>9, <3>2
  <2>2. CASE R # {}
    <3>1. PICK k \in Event : R \subseteq {v \in Job : p[v][1] <= k /\ ~(p[v][2] <= k)}
      BY <1>1, <1>2, <1>6, <1>7, <2>2, EventsCover
    <3>2. PICK open : open = {v \in Job : p[v][1] <= k /\ ~(p[v][2] <= k)}
      OBVIOUS
    <3>3. EventUsage(p, k) = SumOf(ilpInstance.usage, open)
      BY <3>2, EventUsageIsSum
    <3>4. open \in SUBSET Job /\ R \in SUBSET open
      BY <3>1, <3>2
    <3>5. IsFiniteSet(open) /\ \A v \in open : ilpInstance.usage[v] \in Nat
      BY <1>4, <3>4, JobsFinite, FS_Subset
    <3>6. /\ SumOf(ilpInstance.usage, R) <= SumOf(ilpInstance.usage, open)
          /\ SumOf(ilpInstance.usage, R) \in Nat
      BY <3>4, <3>5, SumsGrow
    <3>7. EventUsage(p, k) \in Nat /\ EventUsage(p, k) <= EventPeak(p)
      BY EventPeakIsGreatest
    <3> QED
      BY <1>9, <3>3, <3>6, <3>7
  <2> QED
    BY <2>1, <2>2
<1>11. m[1] = start /\ m[2] = EventPeak(p)
  BY <1>1, <1>2
<1> QED
  BY <1>8, <1>10, <1>11

-----------------------------------------------------------------------------
(* The steps of the base class                                             *)

\* The model belongs to the instance, and all its solutions are feasible and
\* bounded by their peaks; so is the incumbent, which is one of them.
IlpInv ==
  /\ ilpStatus = "NEW" => ilpAnswer = NoAnswer
  /\ ilpStatus # "NEW" => /\ ilpFormulation \in Formulations
                          /\ WindowsOfInstance /\ LastDeadline(ilpInstance) > 0
  /\ ilpStatus \in {"NEW", "PREPARING"} => ilpModel = {}
  /\ \A m \in ilpModel : /\ LagFeasible(ilpInstance, m[1])
                         /\ Peak(ilpInstance, m[1]) <= m[2]
  /\ AnswersAreSchedules

\* Every solution of every formulation.
LEMMA ModelsAreBounded ==
  ASSUME ilpFormulation \in Formulations, WindowsOfInstance,
         LastDeadline(ilpInstance) > 0, NEW m \in Model
  PROVE  LagFeasible(ilpInstance, m[1]) /\ Peak(ilpInstance, m[1]) <= m[2]
<1>1. ilpInstance \in LagInstance
  BY DEF WindowsOfInstance
<1>2. LagFeasible(ilpInstance, m[1])
  BY <1>1, ModelsAreFeasible
<1>3. CASE m \in DTILP
  BY <1>1, <1>2, <1>3, DTILPBounds
<1>4. CASE m \in OBILP
  BY <1>2, <1>4, OBILPBounds
<1>5. CASE m \in FBILP(FALSE) \/ m \in FBILP(TRUE)
  BY <1>1, <1>2, <1>5, FBILPBounds
<1>6. CASE m \in EBILP(FALSE) \/ m \in EBILP(TRUE)
  BY <1>1, <1>2, <1>6, EBILPBounds
<1>7. m \in DTILP \/ m \in OBILP \/ m \in FBILP(FALSE) \/ m \in FBILP(TRUE)
        \/ m \in EBILP(FALSE) \/ m \in EBILP(TRUE)
  BY DEF Model, Formulations
<1> QED
  BY <1>2, <1>3, <1>4, <1>5, <1>6, <1>7

\* A step keeps the invariant.
LEMMA NextIlpInv == IlpInv /\ [ILPNext]_ilpVars => IlpInv'
<1> SUFFICES ASSUME IlpInv, [ILPNext]_ilpVars PROVE IlpInv'
  OBVIOUS
<1> USE DEF IlpInv, AnswersAreSchedules, AnswersAreFeasible
<1>1. CASE ComputeWindows
  <2>1. PICK c \in ILPCases :
          ilpFormulation' = c[1] /\ ilpInstance' = c[2] /\ ilpWindows' = Windows(c[2])
    BY <1>1 DEF ComputeWindows
  <2>2. /\ c[1] \in Formulations /\ c[2] \in LagInstance /\ Acyclic(c[2])
        /\ LastDeadline(c[2]) \in 1 .. ILPHorizon
    BY ILPAssumption
  <2>3. LastDeadline(c[2]) > 0
    BY <2>2, ILPAssumption
  <2>4. WindowsOfInstance' /\ (LastDeadline(ilpInstance) > 0)'
    BY <2>1, <2>2, <2>3 DEF WindowsOfInstance
  <2> QED
    BY <1>1, <2>1, <2>2, <2>4 DEF ComputeWindows
<1>2. CASE Prepare
  <2>1. /\ ilpFormulation \in Formulations /\ WindowsOfInstance
        /\ LastDeadline(ilpInstance) > 0
    BY <1>2 DEF Prepare
  <2>2. \A m \in Model : /\ LagFeasible(ilpInstance, m[1])
                         /\ Peak(ilpInstance, m[1]) <= m[2]
    BY <2>1, ModelsAreBounded
  <2>3. /\ ilpInstance' = ilpInstance /\ ilpFormulation' = ilpFormulation
        /\ ilpWindows' = ilpWindows /\ ilpAnswer' = ilpAnswer
        /\ ilpModel' = Model /\ ilpStatus' = "READY"
    BY <1>2 DEF Prepare
  <2>4. WindowsOfInstance' /\ (LastDeadline(ilpInstance) > 0)'
    BY <2>1, <2>3 DEF WindowsOfInstance
  <2>5. \A m \in ilpModel' : /\ LagFeasible(ilpInstance', m[1])
                             /\ Peak(ilpInstance', m[1]) <= m[2]
    BY <2>2, <2>3
  <2>6. AnswersAreSchedules'
    BY <2>3
  <2> QED
    BY <2>1, <2>3, <2>4, <2>5, <2>6
<1>3. CASE SolveToOptimality \/ StopSolving
  <2>1. /\ ilpInstance' = ilpInstance /\ ilpFormulation' = ilpFormulation
        /\ ilpWindows' = ilpWindows /\ ilpModel' = ilpModel
        /\ ilpStatus = "READY" /\ ilpStatus' \in {"OPTIMAL", "STOPPED"}
        /\ ilpAnswer' \in ilpModel \cup {NoAnswer}
    BY <1>3 DEF SolveToOptimality, StopSolving
  <2>2. WindowsOfInstance' /\ (LastDeadline(ilpInstance) > 0)'
    BY <2>1 DEF WindowsOfInstance
  <2>3. AnswersAreSchedules'
    BY <2>1
  <2> QED
    BY <2>1, <2>2, <2>3
<1>4. CASE ProveInfeasible \/ UNCHANGED ilpVars
  <2>1. /\ ilpInstance' = ilpInstance /\ ilpFormulation' = ilpFormulation
        /\ ilpWindows' = ilpWindows /\ ilpModel' = ilpModel /\ ilpAnswer' = ilpAnswer
        /\ ilpStatus' = ilpStatus \/ (ilpStatus = "READY" /\ ilpStatus' = "INFEASIBLE")
    BY <1>4 DEF ProveInfeasible, ilpVars
  <2>2. ilpStatus # "NEW" => WindowsOfInstance' /\ (LastDeadline(ilpInstance) > 0)'
    BY <2>1 DEF WindowsOfInstance
  <2>3. AnswersAreSchedules'
    BY <2>1
  <2> QED
    BY <2>1, <2>2, <2>3
<1> QED BY <1>1, <1>2, <1>3, <1>4 DEF ILPNext

\* Whatever the MIP solver is stopped with: the start times that are stored
\* respect all windows and lags, those that EBILP rounds included, and the usage
\* that the model reports is at least their peak, in every formulation.
THEOREM BoundsAreSafe == ILPSpec => []AnswersAreSchedules
<1>1. ILPInit => IlpInv
  BY DEF ILPInit, IlpInv, AnswersAreSchedules, AnswersAreFeasible
<1>2. IlpInv => AnswersAreSchedules
  BY DEF IlpInv
<1> QED BY <1>1, <1>2, NextIlpInv, PTL DEF ILPSpec

-----------------------------------------------------------------------------
(* No formulation cuts off a schedule                                      *)

\* What runs at one time step fits under the peak, and so does every part of it.
LEMMA PeakCovers ==
  ASSUME NEW i \in LagInstance, NEW start \in [Job -> Nat], NEW x \in Nat,
         NEW R, R \subseteq RunningAt(i, start, x)
  PROVE  SumOf(i.usage, R) \in Nat /\ SumOf(i.usage, R) <= Peak(i, start)
<1>1. i.usage \in [Job -> Nat] /\ \A v \in Job : i.usage[v] \in Nat
  BY InstanceTypes
<1>2. PICK Q : Q = RunningAt(i, start, x)
  OBVIOUS
<1>3. UsageAt(i, start, x) = SumOf(i.usage, Q)
  <2>1. UsageAt(i, start, x) =
          SumOf(i.usage, {v \in Job : start[v] <= x /\ x < start[v] + i.duration[v]})
    BY <1>1, UsageIsSum
  <2> QED
    BY <1>2, <2>1, Zenon DEF RunningAt
<1>4. Q \subseteq Job /\ R \in SUBSET Q
  BY <1>2 DEF RunningAt
<1>5. IsFiniteSet(Q)
  BY <1>4, JobsFinite, FS_Subset
<1>6. \A v \in Q : i.usage[v] \in Nat
  BY <1>1, <1>4
<1>7. /\ SumOf(i.usage, Q) \in Nat /\ SumOf(i.usage, R) \in Nat
      /\ SumOf(i.usage, R) <= SumOf(i.usage, Q)
  BY <1>4, <1>5, <1>6, SumsGrow
<1>8. SumOf(i.usage, Q) <= Peak(i, start) /\ Peak(i, start) \in Nat
  BY <1>1, <1>3, PeakIsHighest, PeakFacts
<1> QED
  BY <1>7, <1>8

\* DTILP has every schedule, at the price of its peak.
LEMMA DTILPAdmits ==
  ASSUME ilpInstance \in LagInstance, LastDeadline(ilpInstance) > 0,
         NEW start \in LagSchedules(ilpInstance)
  PROVE  /\ \E m \in DTILP : m[2] \in Nat /\ m[2] <= Peak(ilpInstance, start)
         /\ \A m \in DTILP : m[1] = start => m[2] \in Nat
<1> DEFINE i == ilpInstance
           Usages == {DiscreteUsage(start, t) : t \in 0 .. LastDeadline(i) - 1}
<1>1. start \in [Job -> Nat] /\ LastDeadline(i) \in Nat
  BY LastDeadlineType DEF LagSchedules
<1>2. i.usage \in [Job -> Nat] /\ \A v \in Job : start[v] \in Nat /\ i.duration[v] \in Nat
  BY <1>1, InstanceTypes
<1>3. ASSUME NEW t \in Nat
      PROVE  DiscreteUsage(start, t) \in Nat /\ DiscreteUsage(start, t) <= Peak(i, start)
  <2> DEFINE On == {v \in Job : t \in start[v] .. start[v] + ilpInstance.duration[v] - 1}
  <2>1. DiscreteUsage(start, t) = SumOf(i.usage, On)
    BY DEF DiscreteUsage, Total, SumOf
  <2>2. On \subseteq RunningAt(i, start, t)
    BY <1>2 DEF RunningAt
  <2> HIDE DEF On
  <2> QED
    BY <1>1, <2>1, <2>2, PeakCovers
<1>4. /\ Usages \subseteq Int /\ Usages # {} /\ Usages \subseteq Nat
      /\ \A y \in Usages : y <= Peak(i, start)
  <2>1. 0 \in 0 .. LastDeadline(i) - 1
    BY <1>1
  <2> QED
    BY <1>1, <1>3, <2>1
<1>5. Peak(i, start) \in Int
  BY <1>2, PeakFacts
<1>6. Max(Usages) \in Usages
  <2> HIDE DEF Usages
  <2> QED
    BY <1>4, <1>5, MaxBounded
<1>7. <<start, Max(Usages)>> \in DTILP
  BY Zenon DEF DTILP, StartPoints
<1>10. \A m \in DTILP : m[1] = start => m[2] = Max(Usages)
  <2> SUFFICES ASSUME NEW m \in DTILP, m[1] = start PROVE m[2] = Max(Usages)
    OBVIOUS
  <2>1. PICK s : m = <<s, Max({DiscreteUsage(s, t) : t \in 0 .. LastDeadline(ilpInstance) - 1})>>
    BY Zenon DEF DTILP, StartPoints
  <2>2. s = start
    BY <2>1
  <2>3. m = <<start, Max(Usages)>>
    BY <2>1, <2>2, Zenon
  <2> QED
    BY <2>3
<1> HIDE DEF Usages
<1>8. PICK m : m = <<start, Max(Usages)>>
  OBVIOUS
<1>9. m \in DTILP /\ m[2] = Max(Usages)
  BY <1>7, <1>8
<1> QED
  BY <1>4, <1>6, <1>9, <1>10

\* A job that does not run when another one starts need not count then.
LEMMA ShareOfIdle ==
  ASSUME WindowsOfInstance, NEW start \in LagSchedules(ilpInstance),
         NEW b \in Job, NEW a \in Job,
         ~(start[b] <= start[a] /\ start[a] < start[b] + ilpInstance.duration[b])
  PROVE  0 \in Share(start, b, a)
<1> DEFINE always == LatestStart(b) < ilpWindows.es[a]
           order == IF HasOrderVar(b, a) THEN OrderVar(start, b, a)
                    ELSE IF always THEN {1} ELSE {0}
           over == IF HasDisjunctVar(b, a) /\ (HasOrderVar(b, a) \/ always)
                   THEN DisjunctVar(start, b, a) ELSE {0}
<1>1. Share(start, b, a) = IF Meet(a, b) THEN {o - d : o \in order, d \in over} ELSE {0}
  BY DEF Share
<1>2. PICK esA, esB, lfA, lfB, lsA, lsB, sA, sB, dA, dB :
        /\ esA = ilpWindows.es[a] /\ esB = ilpWindows.es[b]
        /\ lfA = ilpWindows.lf[a] /\ lfB = ilpWindows.lf[b]
        /\ lsA = LatestStart(a) /\ lsB = LatestStart(b)
        /\ sA = start[a] /\ sB = start[b]
        /\ dA = ilpInstance.duration[a] /\ dB = ilpInstance.duration[b]
  OBVIOUS
<1>3. /\ esA \in Nat /\ lfA \in Nat /\ sA \in Nat /\ dA \in Nat
      /\ lsA = lfA - dA /\ esA <= sA /\ sA + dA <= lfA
  BY <1>2, WithinWindows
<1>4. /\ esB \in Nat /\ lfB \in Nat /\ sB \in Nat /\ dB \in Nat
      /\ lsB = lfB - dB /\ esB <= sB /\ sB + dB <= lfB
  BY <1>2, WithinWindows
<1>5. /\ HasOrderVar(b, a) <=> esB <= lsA /\ lsB >= esA
      /\ HasDisjunctVar(b, a) <=> lsA >= esB + dB
      /\ always <=> lsB < esA
      /\ OrderVar(start, b, a) = IF sA - sB + 1 > 0 THEN {1} ELSE {0, 1}
      /\ DisjunctVar(start, b, a) = IF sA - sB - dB >= 0 THEN {0, 1} ELSE {0}
  BY <1>2 DEF HasOrderVar, HasDisjunctVar, OrderVar, DisjunctVar
<1>6. ~(sB <= sA /\ sA < sB + dB)
  BY <1>2
<1>7. CASE sB > sA
  <2>1. ~always /\ ~(sA - sB + 1 > 0)
    BY <1>3, <1>4, <1>5, <1>7
  <2>2. 0 \in order
    BY <1>5, <2>1
  <2>3. 0 \in over
    BY <1>5
  <2>4. \E o \in order, d \in over : o - d = 0
    BY <2>2, <2>3
  <2> HIDE DEF order, over
  <2> QED
    BY <1>1, <2>4
<1>8. CASE sA >= sB + dB
  <2>1. HasDisjunctVar(b, a) /\ sA - sB - dB >= 0 /\ sA - sB + 1 > 0
    BY <1>3, <1>4, <1>5, <1>8
  <2>2. CASE HasOrderVar(b, a) \/ always
    <3>1. 1 \in order /\ 1 \in over
      BY <1>5, <2>1, <2>2
    <3>2. \E o \in order, d \in over : o - d = 0
      BY <3>1
    <3> HIDE DEF order, over
    <3> QED
      BY <1>1, <3>2
  <2>3. CASE ~(HasOrderVar(b, a) \/ always)
    <3>1. 0 \in order /\ 0 \in over
      BY <2>3
    <3>2. \E o \in order, d \in over : o - d = 0
      BY <3>1
    <3> HIDE DEF order, over
    <3> QED
      BY <1>1, <3>2
  <2> QED
    BY <2>2, <2>3
<1> QED
  BY <1>3, <1>4, <1>6, <1>7, <1>8

\* The usage that OBILP counts at the start of a job that takes time is no more
\* than the usage then, if its variables are set for that.
LEMMA StartUsageBounded ==
  ASSUME WindowsOfInstance, NEW start \in LagSchedules(ilpInstance), NEW a \in Job,
         ilpInstance.duration[a] > 0
  PROVE  StartUsage(start, a) <= Peak(ilpInstance, start)
<1> DEFINE usage == ilpInstance.usage
           least == [b \in Job |-> Min(Share(start, b, a)) * ilpInstance.usage[b]]
           Others == Job \ {a}
<1>1. StartUsage(start, a) = usage[a] + SumOf(least, Others)
  BY DEF StartUsage, Total, SumOf
<1>2. usage \in [Job -> Nat] /\ \A b \in Job : usage[b] \in Nat
  BY InstanceTypes DEF WindowsOfInstance
<1>3. \A b \in Job : start[b] \in Nat /\ ilpInstance.duration[b] \in Nat
  BY WithinWindows
<1>4. PICK R : R = RunningAt(ilpInstance, start, start[a])
  OBVIOUS
<1>5. ASSUME NEW b \in Job
      PROVE  /\ least[b] \in Nat /\ least[b] <= usage[b]
             /\ b \notin R => least[b] = 0
  <2>1. PICK share, u : share = Share(start, b, a) /\ u = usage[b]
    OBVIOUS
  <2>2. least[b] = Min(share) * u /\ u \in Nat
    BY <1>2, <2>1
  <2>3. share \subseteq {0, 1} /\ share # {}
    BY <2>1, ShareOfRunning
  <2>4. Min(share) \in share /\ \A x \in share : Min(share) <= x
    <3>1. share \subseteq Int /\ share # {} /\ \A x \in share : 0 <= x
      BY <2>3
    <3>2. 0 \in Int
      OBVIOUS
    <3> QED
      BY <3>1, <3>2, MinBounded, Zenon
  <2>5. Min(share) = 0 \/ Min(share) = 1
    BY <2>3, <2>4
  <2>6. least[b] = 0 \/ least[b] = u
    BY <2>2, <2>5
  <2>7. ASSUME b \notin R PROVE least[b] = 0
    <3>1. ~(start[b] <= start[a] /\ start[a] < start[b] + ilpInstance.duration[b])
      BY <1>4, <2>7 DEF RunningAt
    <3>2. 0 \in share
      BY <2>1, <3>1, ShareOfIdle
    <3>3. Min(share) = 0
      BY <2>4, <2>5, <3>2
    <3> QED
      BY <2>2, <3>3
  <2> HIDE DEF least
  <2> QED
    BY <2>1, <2>2, <2>6, <2>7
<1>6. PICK Q : Q = R \ {a}
  OBVIOUS
<1>7. R \subseteq Job /\ a \in R /\ Q \subseteq Others /\ Q \subseteq Job
  BY <1>3, <1>4, <1>6 DEF RunningAt
<1>8. IsFiniteSet(Others) /\ IsFiniteSet(R) /\ IsFiniteSet(Q)
  <2>1. Others \subseteq Job
    OBVIOUS
  <2> HIDE DEF Others
  <2> QED
    BY <1>7, <2>1, JobsFinite, FS_Subset
<1>9. SumOf(least, Others) <= SumOf(least, Q)
  <2>1. \A b \in Others : least[b] \in Nat
    BY <1>5
  <2>2. \A b \in Others \ Q : least[b] = 0
    <3> TAKE b \in Others \ Q
    <3>1. b \in Job /\ b \notin R
      BY <1>6
    <3> HIDE DEF least
    <3> QED
      BY <1>5, <3>1
  <2>3. Others \subseteq Others
    OBVIOUS
  <2> HIDE DEF least, Others
  <2> QED
    BY <1>7, <1>8, <2>1, <2>2, <2>3, SumButZeros
<1>10. SumOf(least, Q) <= SumOf(usage, Q)
  <2>1. \A b \in Q : least[b] \in Int /\ usage[b] \in Int /\ least[b] <= usage[b]
    <3> TAKE b \in Q
    <3>1. b \in Job
      BY <1>7
    <3> HIDE DEF least, usage
    <3> QED
      BY <1>2, <1>5, <3>1
  <2> HIDE DEF least, usage
  <2> QED
    BY <1>8, <2>1, SumsOrdered
<1>11. SumOf(usage, R) = usage[a] + SumOf(usage, Q) /\ SumOf(usage, Q) \in Int
  <2>1. \A b \in R : usage[b] \in Int
    BY <1>2, <1>7
  <2> HIDE DEF usage
  <2> QED
    BY <1>6, <1>7, <1>8, <2>1, SumWithout
<1>12. SumOf(usage, R) <= Peak(ilpInstance, start)
  <2>1. /\ ilpInstance \in LagInstance /\ start \in [Job -> Nat] /\ start[a] \in Nat
        /\ R \subseteq RunningAt(ilpInstance, start, start[a])
    BY <1>3, <1>4, LastDeadlineType DEF LagSchedules, WindowsOfInstance
  <2> QED
    BY <2>1, PeakCovers
<1>13. SumOf(least, Others) \in Int /\ SumOf(least, Q) \in Int
  <2>1. (\A b \in Others : least[b] \in Int) /\ \A b \in Q : least[b] \in Int
    <3>1. \A b \in Job : least[b] \in Int
      BY <1>5
    <3> HIDE DEF least
    <3> QED
      BY <1>7, <3>1
  <2> HIDE DEF least, Others
  <2> QED
    BY <1>8, <2>1, SumPicks
<1>14. usage[a] \in Nat /\ Peak(ilpInstance, start) \in Nat
  BY <1>2, PeakFacts
<1> HIDE DEF usage, least, Others
<1> QED
  BY <1>1, <1>9, <1>10, <1>11, <1>12, <1>13, <1>14

\* OBILP has every schedule, at the price of its peak, if all jobs take time.
LEMMA OBILPAdmits ==
  ASSUME WindowsOfInstance, \A v \in Job : ilpInstance.duration[v] > 0,
         NEW start \in LagSchedules(ilpInstance)
  PROVE  /\ \E m \in OBILP : m[2] \in Nat /\ m[2] <= Peak(ilpInstance, start)
         /\ \A m \in OBILP : m[1] = start => m[2] \in Nat
<1> DEFINE Usages == {StartUsage(start, a) : a \in Job}
<1>1. \A a \in Job : /\ StartUsage(start, a) \in Nat
                     /\ StartUsage(start, a) <= Peak(ilpInstance, start)
  BY StartUsageCovers, StartUsageBounded
<1>2. /\ Usages \subseteq Int /\ Usages \subseteq Nat /\ Usages # {}
      /\ \A y \in Usages : y <= Peak(ilpInstance, start)
  <2>1. 1 \in Job
    BY JobCountAssumption DEF Job
  <2> QED
    BY <1>1, <2>1
<1>3. Peak(ilpInstance, start) \in Int
  BY InstanceTypes, PeakFacts DEF WindowsOfInstance
<1>4. Max(Usages) \in Usages
  <2> HIDE DEF Usages
  <2> QED
    BY <1>2, <1>3, MaxBounded
<1>5. <<start, Max(Usages)>> \in OBILP
  BY Zenon DEF OBILP, StartPoints
<1>8. \A m \in OBILP : m[1] = start => m[2] = Max(Usages)
  <2> SUFFICES ASSUME NEW m \in OBILP, m[1] = start PROVE m[2] = Max(Usages)
    OBVIOUS
  <2>1. PICK s : m = <<s, Max({StartUsage(s, a) : a \in Job})>>
    BY Zenon DEF OBILP, StartPoints
  <2>2. s = start
    BY <2>1
  <2>3. m = <<start, Max(Usages)>>
    BY <2>1, <2>2, Zenon
  <2> QED
    BY <2>3
<1> HIDE DEF Usages
<1>6. PICK m : m = <<start, Max(Usages)>>
  OBVIOUS
<1>7. m \in OBILP /\ m[2] = Max(Usages)
  BY <1>5, <1>6
<1> QED
  BY <1>2, <1>4, <1>7, <1>8

-----------------------------------------------------------------------------
(* EBILP has every schedule                                                *)

\* Every rising sequence of times is one of event times.
LEMMA EventTimesRise ==
  ASSUME NEW t \in [Event -> 0 .. 2 * ILPHorizon],
         \A j, k \in Event : j <= k => t[j] <= t[k]
  PROVE  t \in EventTimes
<1> DEFINE N == 2 * JobCount
           H == 2 * ILPHorizon
           Longer(s) == {Append(s, x) : x \in Max({0} \cup Range(s)) .. 2 * ILPHorizon}
           step(X) == UNION {Longer(s) : s \in X}
           Folded(g) ==
             g = [k \in 0 .. 2 * JobCount |->
                    IF k = 0 THEN {<<>>}
                    ELSE UNION {{Append(s, x) : x \in Max({0} \cup Range(s)) .. 2 * ILPHorizon} :
                                  s \in g[k - 1]}]
           Rising == CHOOSE g : Folded(g)
           Times == Seq(0 .. H)
<1>0. N \in Nat /\ H \in Nat /\ Event = 1 .. N
  BY JobCountAssumption, ILPAssumption DEF Event
<1>1. ASSUME NEW s \in Times, NEW top \in Nat, \A j \in 1 .. Len(s) : s[j] <= top, top <= H
      PROVE  Max({0} \cup Range(s)) \in Nat /\ Max({0} \cup Range(s)) <= top
  <2> DEFINE R == {0} \cup Range(s)
  <2>1. Range(s) = {s[j] : j \in 1 .. Len(s)}
    BY DEF Range
  <2>2. \A j \in 1 .. Len(s) : s[j] \in Nat
    BY <1>0
  <2>3. R \subseteq Int /\ R # {} /\ R \subseteq Nat /\ \A y \in R : y <= top
    BY <1>1, <2>1, <2>2
  <2>4. top \in Int
    OBVIOUS
  <2>5. Max(R) \in R
    <3> HIDE DEF R
    <3> QED
      BY <2>3, <2>4, MaxBounded
  <2> QED
    BY <2>3, <2>5
<1>2. ASSUME NEW s \in Times, NEW x \in Max({0} \cup Range(s)) .. 2 * ILPHorizon
      PROVE  Append(s, x) \in Times
  <2>1. \A j \in 1 .. Len(s) : s[j] <= H
    BY <1>0
  <2>2. Max({0} \cup Range(s)) \in Nat
    <3>1. H \in Nat /\ H <= H
      BY <1>0
    <3> HIDE DEF Times, H
    <3> QED
      BY <1>1, <2>1, <3>1
  <2>3. x \in 0 .. H
    BY <1>0, <2>2
  <2> QED
    BY <2>3
<1>3. PICK f \in [SUBSET Times -> SUBSET Times] : \A X \in SUBSET Times : f[X] = step(X)
  <2>1. \A X \in SUBSET Times : step(X) \in SUBSET Times
    <3> SUFFICES ASSUME NEW X \in SUBSET Times, NEW y \in step(X) PROVE y \in Times
      OBVIOUS
    <3>1. PICK s \in X : y \in {Append(s, x) : x \in Max({0} \cup Range(s)) .. 2 * ILPHorizon}
      OBVIOUS
    <3>2. PICK x \in Max({0} \cup Range(s)) .. 2 * ILPHorizon : y = Append(s, x)
      BY <3>1
    <3>3. s \in Times
      OBVIOUS
    <3> HIDE DEF Times
    <3> QED
      BY <1>2, <3>2, <3>3
  <2>2. [X \in SUBSET Times |-> step(X)] \in [SUBSET Times -> SUBSET Times]
    <3> HIDE DEF step, Times
    <3> QED
      BY <2>1
  <2> HIDE DEF step, Times
  <2> QED
    BY <2>2
<1>4. {<<>>} \in SUBSET Times
  OBVIOUS
<1>5. PICK g \in [0 .. N -> SUBSET Times] : Repeats(g, {<<>>}, f, N)
  <2> HIDE DEF Times
  <2> QED
    BY <1>0, <1>3, <1>4, Iterates
<1>6. Folded(g)
  <2>1. g = [k \in 0 .. N |-> IF k = 0 THEN {<<>>} ELSE f[g[k - 1]]]
    BY <1>5 DEF Repeats
  <2>2. \A k \in 0 .. N : k # 0 => g[k - 1] \in SUBSET Times
    <3> HIDE DEF Times, N
    <3> QED
      BY <1>0
  <2>3. \A k \in 0 .. N : k # 0 => f[g[k - 1]] = step(g[k - 1])
    <3> HIDE DEF Times, step, N
    <3> QED
      BY <1>3, <2>2
  <2>4. g = [k \in 0 .. N |-> IF k = 0 THEN {<<>>} ELSE step(g[k - 1])]
    <3> HIDE DEF step, N
    <3> QED
      BY <2>1, <2>3
  <2> QED
    BY <2>4, Zenon
<1>7. Folded(Rising)
  <2> HIDE DEF Folded
  <2> QED
    BY <1>6
<1>8. Rising = [k \in 0 .. N |-> IF k = 0 THEN {<<>>} ELSE step(Rising[k - 1])]
  <2> HIDE DEF Rising
  <2> QED
    BY <1>7, Zenon
<1> DEFINE prefix(k) == [j \in 1 .. k |-> t[j]]
           Reached == {k \in 0 .. N : prefix(k) \in Rising[k]}
<1>9. \A j \in 1 .. N : t[j] \in 0 .. H /\ t[j] \in Nat
  BY <1>0
<1>10. \A k \in 0 .. N : prefix(k) \in Times /\ Len(prefix(k)) = k
  <2> TAKE k \in 0 .. N
  <2>1. \A j \in 1 .. k : j \in 1 .. N
    BY <1>0
  <2> HIDE DEF H, N
  <2> QED
    BY <1>0, <1>9, <2>1
<1>11. 0 \in Reached
  <2>1. Rising[0] = {<<>>}
    <3>1. 0 \in 0 .. N
      BY <1>0
    <3> HIDE DEF Rising, N, step
    <3> QED
      BY <1>8, <3>1
  <2>2. prefix(0) \in Times /\ Len(prefix(0)) = 0
    BY <1>0, <1>10
  <2>3. \A s \in Seq(0 .. H) : s = <<>> <=> Len(s) = 0
    OBVIOUS
  <2>4. prefix(0) = <<>>
    <3> HIDE DEF prefix, H
    <3> QED
      BY <2>2, <2>3, Zenon
  <2>5. 0 \in 0 .. N
    BY <1>0
  <2> HIDE DEF prefix, Rising, N
  <2> QED
    BY <2>1, <2>4, <2>5
<1>12. ASSUME NEW k \in 1 .. N, k - 1 \in Reached PROVE k \in Reached
  <2>1. k \in Nat /\ k # 0 /\ k \in 0 .. N /\ k - 1 \in 0 .. N /\ k \in Event
    BY <1>0
  <2>2. PICK s : s = prefix(k - 1)
    OBVIOUS
  <2>3. s \in Times /\ Len(s) = k - 1 /\ \A j \in 1 .. k - 1 : s[j] = t[j]
    <3>1. \A j \in 1 .. k - 1 : prefix(k - 1)[j] = t[j]
      OBVIOUS
    <3> HIDE DEF prefix
    <3> QED
      BY <1>10, <2>1, <2>2, <3>1
  <2>4. \A j \in 1 .. Len(s) : s[j] <= t[k]
    <3> TAKE j \in 1 .. Len(s)
    <3>1. j \in Event /\ j <= k /\ s[j] = t[j]
      BY <1>0, <2>1, <2>3
    <3> QED
      BY <2>1, <3>1
  <2>5. t[k] \in Nat /\ t[k] <= H
    BY <1>0, <1>9
  <2>6. Max({0} \cup Range(s)) \in Nat /\ Max({0} \cup Range(s)) <= t[k]
    <3> HIDE DEF H, Times
    <3> QED
      BY <1>1, <2>3, <2>4, <2>5
  <2>7. t[k] \in Max({0} \cup Range(s)) .. 2 * ILPHorizon
    BY <1>0, <2>5, <2>6
  <2>8. Append(s, t[k]) = prefix(k)
    <3>1. Len(Append(s, t[k])) = k /\ Append(s, t[k]) \in Times
      BY <2>1, <2>3, <2>5, <1>0
    <3>2. \A j \in 1 .. k : Append(s, t[k])[j] = t[j]
      BY <2>1, <2>3
    <3>3. Append(s, t[k]) = [j \in 1 .. k |-> Append(s, t[k])[j]]
      BY <3>1
    <3> QED
      BY <3>2, <3>3
  <2>9. s \in Rising[k - 1]
    <3> HIDE DEF prefix, Rising
    <3> QED
      BY <1>12, <2>2
  <2>10. Append(s, t[k]) \in step(Rising[k - 1])
    <3>1. Append(s, t[k]) \in {Append(s, x) : x \in Max({0} \cup Range(s)) .. 2 * ILPHorizon}
      BY <2>7
    <3>2. Append(s, t[k]) \in Longer(s)
      BY <3>1
    <3> HIDE DEF Rising, Longer
    <3> QED
      BY <2>9, <3>2
  <2>11. Rising[k] = step(Rising[k - 1])
    <3> HIDE DEF Rising, step, N
    <3> QED
      BY <1>8, <2>1
  <2> HIDE DEF Rising, step, prefix, N
  <2> QED
    BY <2>1, <2>8, <2>10, <2>11
<1>13. N \in Reached
  <2>1. \A n \in 0 .. N : n \in Reached
    <3> HIDE DEF Reached, N
    <3> QED
      BY <1>0, <1>11, <1>12, Induction
  <2>2. N \in 0 .. N
    BY <1>0
  <2> HIDE DEF Reached, N
  <2> QED
    BY <2>1, <2>2
<1>14. prefix(N) = t
  BY <1>0
<1>15. t \in Rising[2 * JobCount]
  <2> HIDE DEF Rising, prefix
  <2> QED
    BY <1>13, <1>14
<1>16. EventTimes = {r \in Rising[2 * JobCount] :
                       /\ r \in [Event -> 0 .. 2 * ILPHorizon]
                       /\ \A e1, e2 \in Event : e1 <= e2 => r[e1] <= r[e2]}
  BY Zenon DEF EventTimes
<1> HIDE DEF Rising
<1> QED
  BY <1>15, <1>16

\* Some jobs are no more than others that they are among.
LEMMA JobsCounted ==
  ASSUME NEW A, NEW B, A \subseteq B, B \subseteq Job
  PROVE  /\ Cardinality(A) \in Nat /\ Cardinality(B) \in Nat
         /\ Cardinality(A) <= Cardinality(B) /\ Cardinality(B) <= JobCount
         /\ \A x \in B \ A : Cardinality(A) < Cardinality(B)
         /\ \A C \in SUBSET Job : /\ Cardinality(C) \in Nat
                                  /\ A \cap C = {} => Cardinality(A) + Cardinality(C) <= JobCount
<1>1. IsFiniteSet(Job) /\ Cardinality(Job) = JobCount
  BY JobsFinite, JobCountAssumption, FS_Interval DEF Job
<1>2. IsFiniteSet(B) /\ Cardinality(B) <= JobCount /\ Cardinality(B) \in Nat
  BY <1>1, FS_Subset, FS_CardinalityType
<1>3. /\ IsFiniteSet(A) /\ Cardinality(A) <= Cardinality(B) /\ Cardinality(A) \in Nat
      /\ Cardinality(B) = Cardinality(A) => A = B
  BY <1>2, FS_Subset, FS_CardinalityType
<1>4. ASSUME NEW x \in B \ A PROVE Cardinality(A) < Cardinality(B)
  BY <1>2, <1>3, <1>4
<1>5. ASSUME NEW C \in SUBSET Job
      PROVE  /\ Cardinality(C) \in Nat
             /\ A \cap C = {} => Cardinality(A) + Cardinality(C) <= JobCount
  <2>1. IsFiniteSet(C) /\ Cardinality(C) \in Nat
    BY <1>1, FS_Subset, FS_CardinalityType
  <2>2. Cardinality(A \cup C) = Cardinality(A) + Cardinality(C) - Cardinality(A \cap C)
    BY <1>3, <2>1, FS_Union
  <2>3. A \cup C \in SUBSET Job
    OBVIOUS
  <2>4. Cardinality(A \cup C) <= JobCount
    BY <1>1, <2>3, FS_Subset
  <2>5. Cardinality({}) = 0
    BY FS_EmptySet
  <2> QED
    BY <1>3, <2>1, <2>2, <2>4, <2>5
<1> QED
  BY <1>2, <1>3, <1>4, <1>5

\* The number of the event at which a job starts, and ends, if the events are in
\* the order of their times and at one time jobs end before others start.
StartRank(start, end, v) ==
  1 + Cardinality({u \in Job : start[u] < start[v]})
    + Cardinality({u \in Job : end[u] <= start[v]})
EndRank(start, end, v) ==
  1 + Cardinality({u \in Job : start[u] < end[v]})
    + Cardinality({u \in Job : end[u] < end[v]})

LEMMA RanksAreOrdered ==
  ASSUME NEW start \in [Job -> Nat], NEW end \in [Job -> Nat],
         \A v \in Job : start[v] < end[v],
         NEW u \in Job, NEW v \in Job
  PROVE  /\ StartRank(start, end, v) \in Nat /\ EndRank(start, end, v) \in Nat
         /\ start[u] > start[v] => StartRank(start, end, u) > StartRank(start, end, v)
         /\ end[u] > start[v] => EndRank(start, end, u) > StartRank(start, end, v)
         /\ start[u] >= end[v] => StartRank(start, end, u) > EndRank(start, end, v)
         /\ end[u] > end[v] => EndRank(start, end, u) > EndRank(start, end, v)
<1> DEFINE a(x) == {w \in Job : start[w] < start[x]}
           b(x) == {w \in Job : end[w] <= start[x]}
           c(x) == {w \in Job : start[w] < end[x]}
           d(x) == {w \in Job : end[w] < end[x]}
<1>0. \A x \in Job : start[x] \in Nat /\ end[x] \in Nat
  OBVIOUS
<1>1. \A x \in Job : a(x) \subseteq Job /\ b(x) \subseteq Job /\ c(x) \subseteq Job /\ d(x) \subseteq Job
  OBVIOUS
<1>2. \A x \in Job : /\ Cardinality(a(x)) \in Nat /\ Cardinality(b(x)) \in Nat
                     /\ Cardinality(c(x)) \in Nat /\ Cardinality(d(x)) \in Nat
  <2> HIDE DEF a, b, c, d
  <2> QED
    BY <1>1, JobsCounted
<1>3. \A x \in Job : /\ StartRank(start, end, x) = 1 + Cardinality(a(x)) + Cardinality(b(x))
                     /\ EndRank(start, end, x) = 1 + Cardinality(c(x)) + Cardinality(d(x))
  BY DEF StartRank, EndRank
<1>4. ASSUME start[u] > start[v] PROVE StartRank(start, end, u) > StartRank(start, end, v)
  <2>1. a(v) \subseteq a(u) /\ b(v) \subseteq b(u) /\ v \in a(u) \ a(v)
    BY <1>0, <1>4
  <2> HIDE DEF a, b, c, d
  <2>2. Cardinality(a(v)) < Cardinality(a(u)) /\ Cardinality(b(v)) <= Cardinality(b(u))
    BY <1>1, <2>1, JobsCounted
  <2> QED
    BY <1>2, <1>3, <2>2
<1>5. ASSUME end[u] > start[v] PROVE EndRank(start, end, u) > StartRank(start, end, v)
  <2>1. a(v) \subseteq c(u) /\ b(v) \subseteq d(u) /\ v \in c(u) \ a(v)
    BY <1>0, <1>5
  <2> HIDE DEF a, b, c, d
  <2>2. Cardinality(a(v)) < Cardinality(c(u)) /\ Cardinality(b(v)) <= Cardinality(d(u))
    BY <1>1, <2>1, JobsCounted
  <2> QED
    BY <1>2, <1>3, <2>2
<1>6. ASSUME start[u] >= end[v] PROVE StartRank(start, end, u) > EndRank(start, end, v)
  <2>1. c(v) \subseteq a(u) /\ d(v) \subseteq b(u) /\ v \in b(u) \ d(v)
    BY <1>0, <1>6
  <2> HIDE DEF a, b, c, d
  <2>2. Cardinality(c(v)) <= Cardinality(a(u)) /\ Cardinality(d(v)) < Cardinality(b(u))
    BY <1>1, <2>1, JobsCounted
  <2> QED
    BY <1>2, <1>3, <2>2
<1>7. ASSUME end[u] > end[v] PROVE EndRank(start, end, u) > EndRank(start, end, v)
  <2>1. c(v) \subseteq c(u) /\ d(v) \subseteq d(u) /\ v \in d(u) \ d(v)
    BY <1>0, <1>7
  <2> HIDE DEF a, b, c, d
  <2>2. Cardinality(c(v)) <= Cardinality(c(u)) /\ Cardinality(d(v)) < Cardinality(d(u))
    BY <1>1, <2>1, JobsCounted
  <2> QED
    BY <1>2, <1>3, <2>2
<1>8. StartRank(start, end, v) \in Nat /\ EndRank(start, end, v) \in Nat
  <2> HIDE DEF a, b, c, d
  <2> QED
    BY <1>2, <1>3
<1> QED
  BY <1>4, <1>5, <1>6, <1>7, <1>8

\* They are among the events that its predecessors and successors leave a job.
LEMMA RanksAreLeft ==
  ASSUME WindowsOfInstance, NEW start \in LagSchedules(ilpInstance),
         \A v \in Job : ilpInstance.duration[v] > 0,
         NEW end, end = [v \in Job |-> start[v] + ilpInstance.duration[v]],
         NEW v \in Job
  PROVE  /\ StartRank(start, end, v) \in ilpWindows.events[v]
         /\ EndRank(start, end, v) \in ilpWindows.events[v]
         /\ StartRank(start, end, v) < EndRank(start, end, v)
         /\ StartRank(start, end, v) \in Event /\ EndRank(start, end, v) \in Event
<1> DEFINE es == EarliestStarts(ilpInstance)
           lf == LatestFinishs(ilpInstance)
           Earlier == {u \in Job : lf[u] <= es[v]}
           Later == {u \in Job : es[u] >= lf[v]}
           a == {w \in Job : start[w] < start[v]}
           b == {w \in Job : end[w] <= start[v]}
           c == {w \in Job : start[w] < end[v]}
           d == {w \in Job : end[w] < end[v]}
<1>1. ilpWindows.es = es /\ ilpWindows.lf = lf
  BY DEF WindowsOfInstance, Windows
<1>2. ilpWindows.events[v] = 2 * Cardinality(Earlier) + 1 .. 2 * JobCount - 2 * Cardinality(Later)
  BY Zenon DEF WindowsOfInstance, Windows
<1>3. \A u \in Job : /\ es[u] \in Nat /\ lf[u] \in Nat /\ start[u] \in Nat /\ end[u] \in Nat
                     /\ es[u] <= start[u] /\ start[u] < end[u] /\ end[u] <= lf[u]
  <2> TAKE u \in Job
  <2>1. /\ es[u] \in Nat /\ lf[u] \in Nat /\ start[u] \in Nat /\ ilpInstance.duration[u] \in Nat
        /\ es[u] <= start[u] /\ start[u] + ilpInstance.duration[u] <= lf[u]
    BY <1>1, WithinWindows
  <2>2. end[u] = start[u] + ilpInstance.duration[u] /\ ilpInstance.duration[u] > 0
    OBVIOUS
  <2> HIDE DEF es, lf
  <2> QED
    BY <2>1, <2>2
<1> HIDE DEF es, lf
<1>4. Earlier \subseteq a /\ Earlier \subseteq b
  BY <1>3
<1>5. c \cap Later = {} /\ d \cap (Later \cup {v}) = {} /\ v \notin Later
  BY <1>3
<1>6. a \subseteq Job /\ b \subseteq Job /\ c \subseteq Job /\ d \subseteq Job
      /\ Earlier \subseteq Job /\ Later \subseteq Job /\ Later \cup {v} \subseteq Job
  OBVIOUS
<1>7. /\ StartRank(start, end, v) = 1 + Cardinality(a) + Cardinality(b)
      /\ EndRank(start, end, v) = 1 + Cardinality(c) + Cardinality(d)
  BY DEF StartRank, EndRank
<1>8. StartRank(start, end, v) < EndRank(start, end, v)
  <2>1. start \in [Job -> Nat] /\ end \in [Job -> Nat] /\ \A u \in Job : start[u] < end[u]
    BY <1>3, LastDeadlineType DEF LagSchedules, WindowsOfInstance
  <2>2. end[v] > start[v]
    BY <1>3
  <2> QED
    BY <2>1, <2>2, RanksAreOrdered
<1> HIDE DEF a, b, c, d, Earlier, Later
<1>9. /\ Cardinality(Earlier) \in Nat /\ Cardinality(a) \in Nat /\ Cardinality(b) \in Nat
      /\ Cardinality(Earlier) <= Cardinality(a) /\ Cardinality(Earlier) <= Cardinality(b)
  BY <1>4, <1>6, JobsCounted
<1>10. /\ Cardinality(c) \in Nat /\ Cardinality(d) \in Nat
       /\ Cardinality(Later) \in Nat /\ Cardinality(Later \cup {v}) \in Nat
       /\ Cardinality(c) + Cardinality(Later) <= JobCount
       /\ Cardinality(d) + Cardinality(Later \cup {v}) <= JobCount
  BY <1>5, <1>6, JobsCounted
<1>11. Cardinality(Later \cup {v}) = Cardinality(Later) + 1
  <2>1. IsFiniteSet(Later)
    BY <1>6, JobsFinite, FS_Subset
  <2> QED
    BY <1>5, <2>1, FS_AddElement
<1>12. PICK nB, nA, ka, kb, kc, kd : /\ nB = Cardinality(Earlier) /\ nA = Cardinality(Later)
                                     /\ ka = Cardinality(a) /\ kb = Cardinality(b)
                                     /\ kc = Cardinality(c) /\ kd = Cardinality(d)
  OBVIOUS
<1>13. PICK sr, er : sr = StartRank(start, end, v) /\ er = EndRank(start, end, v)
  OBVIOUS
<1>14. /\ nB \in Nat /\ nA \in Nat /\ ka \in Nat /\ kb \in Nat /\ kc \in Nat /\ kd \in Nat
       /\ nB <= ka /\ nB <= kb /\ kc + nA <= JobCount /\ kd + nA + 1 <= JobCount
       /\ sr = 1 + ka + kb /\ er = 1 + kc + kd /\ sr < er
  <2>1. Cardinality(d) + (Cardinality(Later) + 1) <= JobCount
    BY <1>10, <1>11
  <2> QED
    BY <1>7, <1>8, <1>9, <1>10, <1>12, <1>13, <2>1, JobCountAssumption
<1>15. /\ sr \in 2 * nB + 1 .. 2 * JobCount - 2 * nA
       /\ er \in 2 * nB + 1 .. 2 * JobCount - 2 * nA
       /\ sr \in 1 .. 2 * JobCount /\ er \in 1 .. 2 * JobCount
  BY <1>14, JobCountAssumption
<1> QED
  BY <1>2, <1>8, <1>12, <1>13, <1>15 DEF Event

\* Events can take place at the times of the starts and ends they are numbers of.
LEMMA RankTimes ==
  ASSUME NEW start \in [Job -> Nat], NEW end \in [Job -> Nat], NEW H \in Nat,
         \A v \in Job : start[v] < end[v] /\ end[v] <= H
  PROVE  \E t \in [Event -> 0 .. 2 * H] :
           /\ \A j, k \in Event : j <= k => t[j] <= t[k]
           /\ \A v \in Job :
                /\ StartRank(start, end, v) \in Event =>
                     t[StartRank(start, end, v)] = 2 * start[v]
                /\ EndRank(start, end, v) \in Event =>
                     t[EndRank(start, end, v)] = 2 * end[v]
<1> DEFINE Begun(k) == {v \in Job : StartRank(start, end, v) <= k}
           Ended(k) == {v \in Job : EndRank(start, end, v) <= k}
           at(k) == {0} \cup {start[v] : v \in Begun(k)} \cup {end[v] : v \in Ended(k)}
           t == [k \in Event |-> 2 * Max(at(k))]
<1>0. \A v \in Job : start[v] \in Nat /\ end[v] \in Nat /\ start[v] < end[v] /\ end[v] <= H
  OBVIOUS
<1>1. \A k \in Event : k \in Nat
  BY JobCountAssumption DEF Event
<1>2. ASSUME NEW k \in Event
      PROVE  /\ Max(at(k)) \in at(k) /\ \A y \in at(k) : Max(at(k)) >= y
             /\ Max(at(k)) \in 0 .. H
  <2>1. at(k) \subseteq 0 .. H /\ 0 \in at(k)
    BY <1>0
  <2> HIDE DEF at
  <2>2. at(k) \subseteq Int /\ at(k) # {} /\ (\A y \in at(k) : y <= H) /\ H \in Int
    BY <2>1
  <2>3. Max(at(k)) \in at(k) /\ \A y \in at(k) : Max(at(k)) >= y
    BY <2>2, MaxBounded
  <2> QED
    BY <2>1, <2>3
<1>3. \A v \in Job : StartRank(start, end, v) \in Nat /\ EndRank(start, end, v) \in Nat
  BY RanksAreOrdered
<1>4. t \in [Event -> 0 .. 2 * H]
  <2>1. \A k \in Event : 2 * Max(at(k)) \in 0 .. 2 * H
    <3> HIDE DEF at
    <3> QED
      BY <1>2
  <2> HIDE DEF at
  <2> QED
    BY <2>1
<1>5. \A k \in Event : t[k] = 2 * Max(at(k))
  <2> HIDE DEF at
  <2> QED
    OBVIOUS
<1>6. ASSUME NEW j \in Event, NEW k \in Event, j <= k PROVE t[j] <= t[k]
  <2>1. at(j) \subseteq at(k)
    <3>1. Begun(j) \subseteq Begun(k) /\ Ended(j) \subseteq Ended(k)
      BY <1>1, <1>3, <1>6
    <3> HIDE DEF Begun, Ended
    <3> QED
      BY <3>1
  <2> HIDE DEF at, t
  <2>2. Max(at(k)) >= Max(at(j))
    BY <1>2, <2>1
  <2> QED
    BY <1>2, <1>5, <2>2
<1>7. ASSUME NEW v \in Job, NEW k \in Event, NEW x \in Nat, x \in at(k),
             \A u \in Begun(k) : start[u] <= x, \A u \in Ended(k) : end[u] <= x
      PROVE  t[k] = 2 * x
  <2>1. \A y \in at(k) : y <= x
    BY <1>7
  <2> HIDE DEF at, t
  <2>2. Max(at(k)) <= x /\ Max(at(k)) >= x
    BY <1>2, <1>7, <2>1
  <2> QED
    BY <1>2, <1>5, <2>2
<1>8. ASSUME NEW v \in Job, StartRank(start, end, v) \in Event
      PROVE  t[StartRank(start, end, v)] = 2 * start[v]
  <2>1. PICK k \in Event : k = StartRank(start, end, v)
    BY <1>8
  <2>2. start[v] \in at(k)
    BY <1>1, <2>1
  <2>3. \A u \in Begun(k) : start[u] <= start[v]
    <3> SUFFICES ASSUME NEW u \in Begun(k) PROVE start[u] <= start[v]
      OBVIOUS
    <3>1. u \in Job /\ ~(StartRank(start, end, u) > StartRank(start, end, v))
      BY <1>3, <2>1
    <3>2. ~(start[u] > start[v])
      BY <1>0, <3>1, RanksAreOrdered
    <3> QED
      BY <1>0, <3>1, <3>2
  <2>4. \A u \in Ended(k) : end[u] <= start[v]
    <3> SUFFICES ASSUME NEW u \in Ended(k) PROVE end[u] <= start[v]
      OBVIOUS
    <3>1. u \in Job /\ ~(EndRank(start, end, u) > StartRank(start, end, v))
      BY <1>3, <2>1
    <3>2. ~(end[u] > start[v])
      BY <1>0, <3>1, RanksAreOrdered
    <3> QED
      BY <1>0, <3>1, <3>2
  <2> HIDE DEF at, t, Begun, Ended
  <2> QED
    BY <1>0, <1>7, <2>1, <2>2, <2>3, <2>4
<1>9. ASSUME NEW v \in Job, EndRank(start, end, v) \in Event
      PROVE  t[EndRank(start, end, v)] = 2 * end[v]
  <2>1. PICK k \in Event : k = EndRank(start, end, v)
    BY <1>9
  <2>2. end[v] \in at(k)
    BY <1>1, <2>1
  <2>3. \A u \in Begun(k) : start[u] <= end[v]
    <3> SUFFICES ASSUME NEW u \in Begun(k) PROVE start[u] <= end[v]
      OBVIOUS
    <3>1. u \in Job /\ ~(StartRank(start, end, u) > EndRank(start, end, v))
      BY <1>3, <2>1
    <3>2. ~(start[u] >= end[v])
      BY <1>0, <3>1, RanksAreOrdered
    <3> QED
      BY <1>0, <3>1, <3>2
  <2>4. \A u \in Ended(k) : end[u] <= end[v]
    <3> SUFFICES ASSUME NEW u \in Ended(k) PROVE end[u] <= end[v]
      OBVIOUS
    <3>1. u \in Job /\ ~(EndRank(start, end, u) > EndRank(start, end, v))
      BY <1>3, <2>1
    <3>2. ~(end[u] > end[v])
      BY <1>0, <3>1, RanksAreOrdered
    <3> QED
      BY <1>0, <3>1, <3>2
  <2> HIDE DEF at, t, Begun, Ended
  <2> QED
    BY <1>0, <1>7, <2>1, <2>2, <2>3, <2>4
<1> HIDE DEF t
<1> QED
  BY <1>4, <1>6, <1>8, <1>9

\* At no event more is open than runs when the last of the open jobs starts.
LEMMA RanksBounded ==
  ASSUME ilpInstance \in LagInstance, NEW start \in [Job -> Nat],
         \A v \in Job : ilpInstance.duration[v] > 0,
         NEW end, end = [v \in Job |-> start[v] + ilpInstance.duration[v]],
         NEW p \in EventPairs,
         \A v \in Job : /\ p[v][1] = StartRank(start, end, v)
                        /\ p[v][2] = EndRank(start, end, v)
  PROVE  EventPeak(p) \in Nat /\ EventPeak(p) <= Peak(ilpInstance, start)
<1> DEFINE Usages == {EventUsage(p, k) : k \in Event}
<1>0. Peak(ilpInstance, start) \in Nat
  BY InstanceTypes, PeakFacts
<1>1. /\ \A v \in Job : start[v] \in Nat /\ end[v] \in Nat /\ start[v] < end[v]
      /\ \A v \in Job : end[v] = start[v] + ilpInstance.duration[v]
      /\ end \in [Job -> Nat]
  <2>1. \A v \in Job : start[v] \in Nat /\ ilpInstance.duration[v] \in Nat
    BY InstanceTypes
  <2> QED
    BY <2>1
<1>2. ASSUME NEW k \in Event PROVE EventUsage(p, k) <= Peak(ilpInstance, start)
  <2>1. PICK W : W = {v \in Job : p[v][1] <= k /\ ~(p[v][2] <= k)}
    OBVIOUS
  <2>2. EventUsage(p, k) = SumOf(ilpInstance.usage, W)
    BY <2>1, EventUsageIsSum
  <2>3. W \subseteq Job
    BY <2>1
  <2>4. CASE W = {}
    <3>1. SumOf(ilpInstance.usage, {}) = 0
      BY FS_EmptySet, SumPicks
    <3>2. EventUsage(p, k) = 0
      BY <2>2, <2>4, <3>1
    <3> QED
      BY <1>0, <3>2
  <2>5. CASE W # {}
    <3> DEFINE Starts == {start[v] : v \in W}
    <3>1. PICK high \in Int : \A v \in Job : start[v] <= high
      <4>1. start \in [Job -> Int]
        BY <1>1
      <4> QED
        BY <4>1, JobsBounded
    <3>2. Starts \subseteq Int /\ Starts # {} /\ \A y \in Starts : y <= high
      BY <1>1, <2>3, <2>5, <3>1
    <3>3. Max(Starts) \in Starts /\ \A y \in Starts : Max(Starts) >= y
      <4> HIDE DEF Starts
      <4> QED
        BY <3>1, <3>2, MaxBounded
    <3>4. PICK x \in W : \A w \in W : start[w] <= start[x]
      <4>1. PICK x \in W : Max(Starts) = start[x]
        BY <3>3
      <4>2. \A w \in W : Max(Starts) >= start[w]
        BY <3>3
      <4>3. \A w \in W : start[w] \in Nat
        BY <1>1, <2>3
      <4> HIDE DEF Starts
      <4> QED
        BY <4>1, <4>2, <4>3
    <3>5. ASSUME NEW w \in W PROVE w \in RunningAt(ilpInstance, start, start[x])
      <4>1. w \in Job /\ x \in Job /\ start[w] <= start[x]
        BY <2>3, <3>4
      <4>2. p[x][1] <= k /\ ~(p[w][2] <= k)
        BY <2>1, <3>4
      <4>3. p[x][1] \in Nat /\ p[w][2] \in Nat /\ k \in Nat
        BY <4>1, JobCountAssumption DEF EventPairs, Event
      <4>4. ~(StartRank(start, end, x) > EndRank(start, end, w))
        BY <4>1, <4>2, <4>3
      <4>5. ~(start[x] >= end[w])
        BY <1>1, <4>1, <4>4, RanksAreOrdered
      <4>6. start[x] < start[w] + ilpInstance.duration[w]
        BY <1>1, <4>1, <4>5
      <4> QED
        BY <4>1, <4>6 DEF RunningAt
    <3>6. W \subseteq RunningAt(ilpInstance, start, start[x]) /\ start[x] \in Nat
      BY <1>1, <2>3, <3>4, <3>5
    <3> QED
      BY <2>2, <3>6, PeakCovers
  <2> QED
    BY <2>4, <2>5
<1>3. \A k \in Event : EventUsage(p, k) \in Nat
  BY EventPeakIsGreatest
<1>4. 1 \in Event
  BY JobCountAssumption DEF Event
<1>5. /\ Usages \subseteq Int /\ Usages # {} /\ Usages \subseteq Nat
      /\ \A y \in Usages : y <= Peak(ilpInstance, start)
  BY <1>2, <1>3, <1>4
<1>6. Max(Usages) \in Usages
  <2>1. Peak(ilpInstance, start) \in Int
    BY <1>0
  <2> HIDE DEF Usages
  <2> QED
    BY <1>5, <2>1, MaxBounded
<1>7. EventPeak(p) = Max(Usages)
  BY DEF EventPeak
<1> HIDE DEF Usages
<1> QED
  BY <1>5, <1>6, <1>7

\* A job is left events only.
LEMMA EventsLeft ==
  ASSUME WindowsOfInstance, NEW v \in Job
  PROVE  ilpWindows.events[v] \subseteq Event
<1> DEFINE Earlier == {u \in Job : LatestFinishs(ilpInstance)[u] <= EarliestStarts(ilpInstance)[v]}
           Later == {u \in Job : EarliestStarts(ilpInstance)[u] >= LatestFinishs(ilpInstance)[v]}
<1>1. ilpWindows.events[v] = 2 * Cardinality(Earlier) + 1 .. 2 * JobCount - 2 * Cardinality(Later)
  BY Zenon DEF WindowsOfInstance, Windows
<1>2. Earlier \subseteq Job /\ Later \subseteq Job
  OBVIOUS
<1> HIDE DEF Earlier, Later
<1>3. Cardinality(Earlier) \in Nat /\ Cardinality(Later) \in Nat
  BY <1>2, JobsCounted
<1> QED
  BY <1>1, <1>3, JobCountAssumption DEF Event

\* EBILP has every schedule, at the price of its peak, if all jobs take time and
\* no lag is so far below zero that the big-M constraints are not void.
LEMMA EBILPAdmits ==
  ASSUME WindowsOfInstance, LastDeadline(ilpInstance) \in 1 .. ILPHorizon,
         \A v \in Job : ilpInstance.duration[v] > 0,
         \A e \in ilpInstance.lags : e[3] >= -LastDeadline(ilpInstance),
         NEW start \in LagSchedules(ilpInstance), NEW points \in BOOLEAN
  PROVE  \E m \in EBILP(points) : m[2] \in Nat /\ m[2] <= Peak(ilpInstance, start)
<1> DEFINE M == LastDeadline(ilpInstance)
<1>0. ilpInstance \in LagInstance /\ M \in Nat /\ ILPHorizon \in Nat /\ M <= ILPHorizon
  BY ILPAssumption, LastDeadlineType DEF WindowsOfInstance
<1>1. start \in [Job -> Nat] /\ LagFeasible(ilpInstance, start)
  BY <1>0 DEF LagSchedules
<1>2. PICK end : end = [v \in Job |-> start[v] + ilpInstance.duration[v]]
  OBVIOUS
<1>3. ASSUME NEW v \in Job
      PROVE  /\ start[v] \in Nat /\ end[v] \in Nat /\ start[v] < end[v] /\ end[v] <= M
             /\ end[v] = start[v] + ilpInstance.duration[v] /\ ilpInstance.duration[v] \in Nat
             /\ end[v] <= ilpInstance.deadline[v] /\ ilpInstance.deadline[v] \in Nat
             /\ ilpInstance.release[v] <= start[v] /\ ilpInstance.release[v] \in Nat
  <2>1. /\ start[v] \in Nat /\ ilpInstance.duration[v] \in Nat /\ ilpInstance.duration[v] > 0
        /\ ilpInstance.deadline[v] \in Nat /\ ilpInstance.release[v] \in Nat
    BY <1>0, <1>1, InstanceTypes
  <2>2. end[v] = start[v] + ilpInstance.duration[v]
    BY <1>2
  <2>3. /\ start[v] + ilpInstance.duration[v] <= ilpInstance.deadline[v]
        /\ ilpInstance.release[v] <= start[v]
    BY <1>1 DEF LagFeasible
  <2>4. ilpInstance.deadline[v] <= M
    BY <1>0, LastDeadlineIsLast
  <2> HIDE DEF M
  <2> QED
    BY <1>0, <2>1, <2>2, <2>3, <2>4
<1>4. end \in [Job -> Nat]
  BY <1>2, <1>3
<1>5. PICK p : p = [v \in Job |-> <<StartRank(start, end, v), EndRank(start, end, v)>>]
  OBVIOUS
<1>6. \A v \in Job : /\ p[v] = <<StartRank(start, end, v), EndRank(start, end, v)>>
                     /\ p[v][1] = StartRank(start, end, v) /\ p[v][2] = EndRank(start, end, v)
  BY <1>5
<1>7. \A v \in Job : /\ p[v][1] \in ilpWindows.events[v] /\ p[v][2] \in ilpWindows.events[v]
                     /\ p[v][1] < p[v][2] /\ p[v][1] \in Event /\ p[v][2] \in Event
  BY <1>2, <1>6, RanksAreLeft
<1>8. p \in EventPairs
  <2>1. \A v \in Job : <<StartRank(start, end, v), EndRank(start, end, v)>> \in Event \X Event
    BY <1>6, <1>7
  <2>2. p \in [Job -> Event \X Event]
    BY <1>5, <2>1
  <2> QED
    BY <1>7, <2>2 DEF EventPairs
<1>9. EventPeak(p) \in Nat /\ EventPeak(p) <= Peak(ilpInstance, start)
  BY <1>0, <1>1, <1>2, <1>6, <1>8, RanksBounded
<1>10. PICK t \in [Event -> 0 .. 2 * M] :
         /\ \A j, k \in Event : j <= k => t[j] <= t[k]
         /\ \A v \in Job :
              /\ StartRank(start, end, v) \in Event =>
                   t[StartRank(start, end, v)] = 2 * start[v]
              /\ EndRank(start, end, v) \in Event =>
                   t[EndRank(start, end, v)] = 2 * end[v]
  <2>1. \A v \in Job : start[v] < end[v] /\ end[v] <= M
    BY <1>3
  <2> HIDE DEF M
  <2> QED
    BY <1>0, <1>1, <1>4, <2>1, RankTimes
<1>11. \A k \in Event : t[k] \in Nat /\ t[k] <= 2 * M
  <2> HIDE DEF M
  <2> QED
    BY <1>0
<1>12. t \in EventTimes
  <2>1. t \in [Event -> 0 .. 2 * ILPHorizon]
    <3>1. \A k \in Event : t[k] \in 0 .. 2 * ILPHorizon
      <4> HIDE DEF M
      <4> QED
        BY <1>0, <1>11
    <3> QED
      BY <3>1
  <2> QED
    BY <1>10, <2>1, EventTimesRise
<1>13. \A v \in Job : t[p[v][1]] = 2 * start[v] /\ t[p[v][2]] = 2 * end[v]
  BY <1>6, <1>7, <1>10
<1>14. InOrder(p, t)
  <2> SUFFICES ASSUME NEW v \in Job
               PROVE  t[p[v][2]] - t[p[v][1]] >= 2 * ilpInstance.duration[v]
    BY DEF InOrder
  <2>1. 2 * end[v] - 2 * start[v] >= 2 * ilpInstance.duration[v]
    BY <1>3
  <2> QED
    BY <1>13, <2>1
<1>15. [v \in Job |-> Rounded(t[p[v][1]])] = start
  <2>1. \A v \in Job : Rounded(t[p[v][1]]) = start[v]
    <3> TAKE v \in Job
    <3>1. PICK s \in Nat : s = start[v]
      BY <1>3
    <3>2. (2 * s + 1) \div 2 = s
      OBVIOUS
    <3> QED
      BY <1>13, <3>1, <3>2 DEF Rounded
  <2> QED
    BY <1>1, <2>1
<1>16. \A v \in Job : \A event \in ilpWindows.events[v] : event \in Event
  BY EventsLeft
<1>17. EventsInWindows(p, t)
  <2> DEFINE Off(v, k, event) == IF event = p[v][k] THEN 0 ELSE 1
  <2>1. ASSUME NEW v \in Job, NEW event \in ilpWindows.events[v]
        PROVE  /\ t[event] <= 2 * (ilpInstance.deadline[v] + Off(v, 2, event) * M)
               /\ t[event] >= 2 * (ilpInstance.release[v] - Off(v, 1, event) * M)
    <3>1. PICK x, d, r : x = t[event] /\ d = ilpInstance.deadline[v] /\ r = ilpInstance.release[v]
      OBVIOUS
    <3>2. event \in Event /\ x \in Nat /\ x <= 2 * M /\ d \in Nat /\ r \in Nat
      BY <1>3, <1>11, <1>16, <2>1, <3>1
    <3>3. r <= M
      <4>1. r <= start[v] /\ start[v] < end[v] /\ end[v] <= M /\ start[v] \in Nat /\ end[v] \in Nat
        BY <1>3, <3>1
      <4> HIDE DEF M
      <4> QED
        BY <1>0, <3>2, <4>1
    <3>4. event = p[v][2] => x <= 2 * d
      <4>1. event = p[v][2] => x = 2 * end[v]
        BY <1>13, <3>1
      <4>2. end[v] \in Nat /\ end[v] <= d
        BY <1>3, <3>1
      <4> QED
        BY <3>2, <4>1, <4>2
    <3>5. event = p[v][1] => x >= 2 * r
      <4>1. event = p[v][1] => x = 2 * start[v]
        BY <1>13, <3>1
      <4>2. start[v] \in Nat /\ r <= start[v]
        BY <1>3, <3>1
      <4> QED
        BY <3>2, <4>1, <4>2
    <3>6. x <= 2 * (d + 1 * M) /\ x >= 2 * (r - 1 * M)
      <4> HIDE DEF M
      <4> QED
        BY <1>0, <3>2, <3>3
    <3>7. x <= 2 * (d + Off(v, 2, event) * M)
      <4>1. CASE event = p[v][2]
        <5>1. Off(v, 2, event) = 0 /\ x <= 2 * d
          BY <3>4, <4>1
        <5> HIDE DEF M, Off
        <5> QED
          BY <1>0, <3>2, <5>1
      <4>2. CASE event # p[v][2]
        <5>1. Off(v, 2, event) = 1
          BY <4>2
        <5> HIDE DEF M, Off
        <5> QED
          BY <3>6, <5>1
      <4> QED
        BY <4>1, <4>2
    <3>8. x >= 2 * (r - Off(v, 1, event) * M)
      <4>1. CASE event = p[v][1]
        <5>1. Off(v, 1, event) = 0 /\ x >= 2 * r
          BY <3>5, <4>1
        <5> HIDE DEF M, Off
        <5> QED
          BY <1>0, <3>2, <5>1
      <4>2. CASE event # p[v][1]
        <5>1. Off(v, 1, event) = 1
          BY <4>2
        <5> HIDE DEF M, Off
        <5> QED
          BY <3>6, <5>1
      <4> QED
        BY <4>1, <4>2
    <3> HIDE DEF M, Off
    <3> QED
      BY <3>1, <3>7, <3>8
  <2>2. ASSUME NEW e \in ilpInstance.lags,
               NEW from \in ilpWindows.events[e[1]], NEW to \in ilpWindows.events[e[2]]
        PROVE  t[to] - t[from]
                 >= 2 * ((1 - Off(e[1], 1, from) - Off(e[2], 1, to)) * (e[3] + M) - M)
    <3>1. e[1] \in Job /\ e[2] \in Job /\ e[3] \in Int /\ e[3] >= -M
      BY <1>0, InstanceTypes
    <3>2. PICK x, y, lag, o1, o2 : /\ x = t[from] /\ y = t[to] /\ lag = e[3]
                                   /\ o1 = Off(e[1], 1, from) /\ o2 = Off(e[2], 1, to)
      OBVIOUS
    <3>3. x \in Nat /\ x <= 2 * M /\ y \in Nat /\ y <= 2 * M /\ lag \in Int /\ lag >= -M
      BY <1>11, <1>16, <2>2, <3>1, <3>2
    <3>4. (o1 = 0 /\ from = p[e[1]][1]) \/ o1 = 1
      BY <3>2
    <3>5. (o2 = 0 /\ to = p[e[2]][1]) \/ o2 = 1
      BY <3>2
    <3>6. from = p[e[1]][1] /\ to = p[e[2]][1] => y - x >= 2 * lag
      <4>1. start[e[1]] + lag <= start[e[2]]
        BY <1>1, <3>2 DEF LagFeasible
      <4>2. from = p[e[1]][1] /\ to = p[e[2]][1] => x = 2 * start[e[1]] /\ y = 2 * start[e[2]]
        BY <1>13, <3>1, <3>2
      <4>3. start[e[1]] \in Nat /\ start[e[2]] \in Nat
        BY <1>3, <3>1
      <4> QED
        BY <3>3, <4>1, <4>2, <4>3
    <3> HIDE DEF M
    <3>7. y - x >= 2 * ((1 - o1 - o2) * (lag + M) - M)
      <4>1. CASE o1 = 0 /\ o2 = 0
        <5>1. y - x >= 2 * lag
          BY <3>4, <3>5, <3>6, <4>1
        <5>2. (1 - o1 - o2) * (lag + M) - M = lag
          BY <1>0, <3>3, <4>1
        <5> QED
          BY <5>1, <5>2
      <4>2. CASE (o1 = 1 /\ o2 = 0) \/ (o1 = 0 /\ o2 = 1)
        <5>1. 1 - o1 - o2 = 0
          BY <4>2
        <5>2. (1 - o1 - o2) * (lag + M) - M = -M
          BY <1>0, <3>3, <5>1
        <5>3. y - x >= 2 * (-M)
          BY <1>0, <3>3
        <5> QED
          BY <5>2, <5>3
      <4>3. CASE o1 = 1 /\ o2 = 1
        <5>1. 1 - o1 - o2 = -1
          BY <4>3
        <5>2. (1 - o1 - o2) * (lag + M) - M = -(lag + M) - M
          BY <1>0, <3>3, <5>1
        <5>3. y - x >= 2 * (-(lag + M) - M)
          BY <1>0, <3>3
        <5> QED
          BY <5>2, <5>3
      <4> QED
        BY <3>4, <3>5, <4>1, <4>2, <4>3
    <3> HIDE DEF Off
    <3> QED
      BY <3>2, <3>7
  <2> QED
    BY <2>1, <2>2 DEF EventsInWindows
<1>18. EventsLinked(p, t)
  <2>1. [v \in Job |-> Rounded(t[p[v][1]])] \in StartPoints
    BY <1>15 DEF StartPoints
  <2>2. ASSUME NEW v \in Job
        PROVE  /\ t[p[v][1]] % 2 = 0
               /\ \A event \in ilpWindows.events[v] :
                    t[event] - t[p[v][1]] \in -(2 * M) .. 2 * M
    <3>1. PICK s \in Nat : s = start[v]
      BY <1>3
    <3>2. (2 * s) % 2 = 0
      OBVIOUS
    <3>3. p[v][1] \in Event /\ t[p[v][1]] = 2 * s
      BY <1>7, <1>13, <3>1
    <3>4. ASSUME NEW event \in ilpWindows.events[v]
          PROVE  t[event] - t[p[v][1]] \in -(2 * M) .. 2 * M
      <4>1. PICK x, y : x = t[event] /\ y = t[p[v][1]]
        OBVIOUS
      <4>2. x \in Nat /\ x <= 2 * M /\ y \in Nat /\ y <= 2 * M
        BY <1>11, <1>16, <3>3, <3>4, <4>1
      <4> HIDE DEF M
      <4>3. x - y \in -(2 * M) .. 2 * M
        BY <1>0, <4>2
      <4> QED
        BY <4>1, <4>3
    <3> QED
      BY <3>2, <3>3, <3>4
  <2> QED
    BY <2>1, <2>2 DEF EventsLinked
<1>19. <<start, EventPeak(p)>> \in EBILP(points)
  <2> DEFINE Times(q) == {u \in EventTimes :
                            /\ InOrder(q, u)
                            /\ IF points THEN EventsLinked(q, u)
                               ELSE EventsInWindows(q, u)}
             Starts(q) == {[v \in Job |-> Rounded(u[q[v][1]])] : u \in Times(q)}
             Priced(q) == Starts(q) \X {EventPeak(q)}
  <2>1. EBILP(points) = UNION {Priced(q) : q \in EventPairs}
    BY Zenon DEF EBILP
  <2>2. t \in Times(p)
    BY <1>12, <1>14, <1>17, <1>18
  <2>3. start \in Starts(p)
    <3> HIDE DEF Times
    <3> QED
      BY <1>15, <2>2
  <2> HIDE DEF Starts
  <2>4. <<start, EventPeak(p)>> \in Priced(p)
    BY <2>3
  <2> HIDE DEF Priced
  <2> QED
    BY <1>8, <2>1, <2>4
<1>20. PICK m : m = <<start, EventPeak(p)>>
  OBVIOUS
<1>21. m \in EBILP(points) /\ m[2] = EventPeak(p)
  BY <1>19, <1>20
<1> QED
  BY <1>9, <1>21

-----------------------------------------------------------------------------
(* FBILP has every schedule                                                *)

\* There are sets of all sizes in a set.
LEMMA SubsetOfSize ==
  ASSUME NEW S, IsFiniteSet(S), NEW n \in Nat, n <= Cardinality(S)
  PROVE  \E D \in SUBSET S : Cardinality(D) = n
<1> DEFINE H == {s \in SUBSET S : \A k \in 0 .. Cardinality(s) :
                                    \E D \in SUBSET s : Cardinality(D) = k}
<1>0. \A s \in SUBSET S : IsFiniteSet(s) /\ Cardinality(s) \in Nat
  BY FS_Subset, FS_CardinalityType
<1>1. {} \in H
  <2>1. Cardinality({}) = 0 /\ {} \in SUBSET {} /\ {} \in SUBSET S
    BY FS_EmptySet
  <2>2. \A k \in 0 .. Cardinality({}) : k = 0
    BY <2>1
  <2> QED
    BY <2>1, <2>2
<1>2. \A s \in SUBSET S : s # {} /\ (\A x \in s : s \ {x} \in H) => s \in H
  <2> SUFFICES ASSUME NEW s \in SUBSET S, s # {}, \A x \in s : s \ {x} \in H,
                      NEW k \in 0 .. Cardinality(s)
               PROVE  \E D \in SUBSET s : Cardinality(D) = k
    OBVIOUS
  <2>1. CASE k = Cardinality(s)
    BY <2>1
  <2>2. CASE k # Cardinality(s)
    <3>1. PICK x \in s : TRUE
      OBVIOUS
    <3>2. Cardinality(s \ {x}) = Cardinality(s) - 1
      BY <1>0, <3>1, FS_RemoveElement
    <3>3. k \in 0 .. Cardinality(s \ {x})
      BY <1>0, <2>2, <3>2
    <3>4. PICK D \in SUBSET (s \ {x}) : Cardinality(D) = k
      BY <3>1, <3>3
    <3> QED
      BY <3>4
  <2> QED
    BY <2>1, <2>2
<1>3. \A s \in SUBSET S : s \in H
  <2> HIDE DEF H
  <2> QED
    BY <1>1, <1>2, SetInduction
<1>4. S \in H /\ n \in 0 .. Cardinality(S)
  <2>1. S \in SUBSET S
    OBVIOUS
  <2> HIDE DEF H
  <2> QED
    BY <1>0, <1>3, <2>1
<1> QED
  BY <1>4

\* The sets that a family has for the members of s.
Together(part, s) == {c \in UNION {part[x] : x \in s} : TRUE}

\* Together they have no more elements than all of them count, and as many if
\* they have none in common.
LEMMA PartsCounted ==
  ASSUME NEW S, IsFiniteSet(S), NEW part, \A x \in S : IsFiniteSet(part[x]),
         NEW size, \A x \in S : size[x] = Cardinality(part[x])
  PROVE  /\ IsFiniteSet(Together(part, S))
         /\ Cardinality(Together(part, S)) \in Nat
         /\ SumOf(size, S) \in Nat
         /\ Cardinality(Together(part, S)) <= SumOf(size, S)
         /\ (\A x, y \in S : x = y \/ part[x] \cap part[y] = {}) =>
              Cardinality(Together(part, S)) = SumOf(size, S)
<1> DEFINE Disjoint == \A x, y \in S : x = y \/ part[x] \cap part[y] = {}
           Counted(s) == /\ IsFiniteSet(Together(part, s))
                         /\ Cardinality(Together(part, s)) <= SumOf(size, s)
                         /\ Disjoint => Cardinality(Together(part, s)) = SumOf(size, s)
           H == {s \in SUBSET S : Counted(s)}
<1>0. \A x \in S : size[x] \in Nat
  BY FS_CardinalityType
<1>1. {} \in H
  <2>1. Together(part, {}) = {}
    BY DEF Together
  <2>2. SumOf(size, {}) = 0 /\ Cardinality({}) = 0 /\ IsFiniteSet({})
    BY FS_EmptySet, SumPicks
  <2>3. Counted({})
    <3> HIDE DEF Disjoint
    <3> QED
      BY <2>1, <2>2
  <2> HIDE DEF Counted
  <2> QED
    BY <2>3
<1>2. \A s \in SUBSET S : s # {} /\ (\A x \in s : s \ {x} \in H) => s \in H
  <2> SUFFICES ASSUME NEW s \in SUBSET S, s # {}, \A x \in s : s \ {x} \in H
               PROVE  Counted(s)
    <3> HIDE DEF Counted
    <3> QED
      OBVIOUS
  <2>1. PICK x \in s : TRUE
    OBVIOUS
  <2>2. Counted(s \ {x})
    <3> HIDE DEF Counted
    <3> QED
      BY <2>1
  <2>3. PICK A, P : A = Together(part, s \ {x}) /\ P = part[x]
    OBVIOUS
  <2>4. Together(part, s) = A \cup P
    BY <2>1, <2>3 DEF Together
  <2>5. IsFiniteSet(A) /\ IsFiniteSet(P)
    BY <2>1, <2>2, <2>3
  <2>6. /\ IsFiniteSet(A \cup P) /\ IsFiniteSet(A \cap P)
        /\ Cardinality(A \cup P) = Cardinality(A) + Cardinality(P) - Cardinality(A \cap P)
    BY <2>5, FS_Union, FS_Intersection
  <2>7. /\ Cardinality(A) \in Nat /\ Cardinality(P) \in Nat
        /\ Cardinality(A \cap P) \in Nat
    BY <2>5, <2>6, FS_CardinalityType
  <2>8. SumOf(size, s) = size[x] + SumOf(size, s \ {x}) /\ SumOf(size, s \ {x}) \in Int
    <3>1. IsFiniteSet(s) /\ \A y \in s : size[y] \in Int
      BY <1>0, FS_Subset
    <3> QED
      BY <2>1, <3>1, SumWithout
  <2>9. size[x] = Cardinality(P)
    BY <2>1, <2>3
  <2>10. Disjoint => Cardinality(A \cap P) = 0
    <3>1. Disjoint => A \cap P = {}
      BY <2>1, <2>3 DEF Together
    <3> HIDE DEF Disjoint
    <3> QED
      BY <3>1, FS_EmptySet
  <2>11. /\ Cardinality(A) <= SumOf(size, s \ {x})
         /\ Disjoint => Cardinality(A) = SumOf(size, s \ {x})
    BY <2>2, <2>3
  <2> HIDE DEF Disjoint
  <2> QED
    BY <2>4, <2>6, <2>7, <2>8, <2>9, <2>10, <2>11
<1>3. \A s \in SUBSET S : s \in H
  <2> HIDE DEF H
  <2> QED
    BY <1>1, <1>2, SetInduction
<1>4. Counted(S)
  <2>1. S \in SUBSET S
    OBVIOUS
  <2> HIDE DEF Counted
  <2> QED
    BY <1>3, <2>1
<1>5. SumOf(size, S) \in Nat
  BY <1>0, SumsGrow
<1> QED
  BY <1>4, <1>5, FS_CardinalityType

\* One of two jobs ends before the other starts.
Apart(start, end, u, v) == end[u] <= start[v] \/ end[v] <= start[u]

\* What is used can be numbered up to the peak, such that each job has as many
\* numbers as it uses, and no two jobs that run at the same time share one: the
\* jobs take them in the order of their starts.
LEMMA UsageNumbered ==
  ASSUME NEW i \in LagInstance, NEW start \in [Job -> Nat],
         \A v \in Job : i.duration[v] > 0,
         NEW end, end = [v \in Job |-> start[v] + i.duration[v]],
         NEW P, P = Peak(i, start)
  PROVE  \E number \in [Job -> SUBSET (1 .. P)] :
           /\ \A v \in Job : Cardinality(number[v]) = i.usage[v]
           /\ \A u, v \in Job : \/ u = v \/ number[u] \cap number[v] = {}
                                \/ Apart(start, end, u, v)
<1> DEFINE Numbers == 1 .. P
           Good(s, number) ==
             /\ \A v \in s : Cardinality(number[v]) = i.usage[v]
             /\ \A u, v \in s : \/ u = v \/ number[u] \cap number[v] = {}
                                \/ Apart(start, end, u, v)
           H == {s \in SUBSET Job : \E number \in [Job -> SUBSET Numbers] : Good(s, number)}
<1>0. /\ P \in Nat /\ i.usage \in [Job -> Nat] /\ \A v \in Job : i.usage[v] \in Nat
      /\ \A v \in Job : start[v] \in Nat /\ i.duration[v] \in Nat
  BY InstanceTypes, PeakFacts
<1>1. \A v \in Job : end[v] = start[v] + i.duration[v] /\ end[v] \in Nat /\ start[v] < end[v]
  BY <1>0
<1>2. IsFiniteSet(Numbers) /\ Cardinality(Numbers) = P
  <2>1. 1 \in Int /\ P \in Int
    BY <1>0
  <2>2. IsFiniteSet(1 .. P) /\ Cardinality(1 .. P) = IF 1 > P THEN 0 ELSE P - 1 + 1
    BY <2>1, FS_Interval, Zenon
  <2> QED
    BY <1>0, <2>2
<1>3. {} \in H
  <2>1. [v \in Job |-> {}] \in [Job -> SUBSET Numbers]
    OBVIOUS
  <2>2. Good({}, [v \in Job |-> {}])
    OBVIOUS
  <2> HIDE DEF Good
  <2> QED
    BY <2>1, <2>2
<1>4. \A s \in SUBSET Job : s # {} /\ (\A x \in s : s \ {x} \in H) => s \in H
  <2> SUFFICES ASSUME NEW s \in SUBSET Job, s # {}, \A x \in s : s \ {x} \in H
               PROVE  \E number \in [Job -> SUBSET Numbers] : Good(s, number)
    <3> HIDE DEF Good
    <3> QED
      OBVIOUS
  <2>1. PICK x \in s : \A w \in s : start[w] <= start[x]
    <3> DEFINE Starts == {start[v] : v \in s}
    <3>1. PICK high \in Int : \A v \in Job : start[v] <= high
      <4>1. start \in [Job -> Int]
        BY <1>0
      <4> QED
        BY <4>1, JobsBounded
    <3>2. Starts \subseteq Int /\ Starts # {} /\ \A y \in Starts : y <= high
      BY <1>0, <3>1
    <3>3. Max(Starts) \in Starts /\ \A y \in Starts : Max(Starts) >= y
      <4> HIDE DEF Starts
      <4> QED
        BY <3>1, <3>2, MaxBounded
    <3>4. PICK x \in s : Max(Starts) = start[x]
      BY <3>3
    <3>5. \A w \in s : Max(Starts) >= start[w] /\ start[w] \in Nat
      BY <1>0, <3>3
    <3> HIDE DEF Starts
    <3> QED
      BY <3>4, <3>5
  <2>2. PICK number \in [Job -> SUBSET Numbers] : Good(s \ {x}, number)
    <3> HIDE DEF Good
    <3> QED
      BY <2>1
  <2>3. PICK B : B = {w \in s \ {x} : start[x] < end[w]}
    OBVIOUS
  <2>4. /\ x \in Job /\ B \subseteq Job /\ B \subseteq s \ {x} /\ x \notin B
        /\ B \cup {x} \subseteq RunningAt(i, start, start[x])
    <3>1. ASSUME NEW w \in B \cup {x} PROVE w \in RunningAt(i, start, start[x])
      <4>1. w \in Job /\ start[w] <= start[x]
        BY <1>0, <2>1, <2>3
      <4>2. start[x] < start[w] + i.duration[w]
        BY <1>1, <2>3, <4>1
      <4> QED
        BY <4>1, <4>2 DEF RunningAt
    <3> QED
      BY <2>3, <3>1
  <2>5. IsFiniteSet(B)
    BY <2>4, JobsFinite, FS_Subset
  <2>6. \A w \in B : IsFiniteSet(number[w]) /\ Cardinality(number[w]) = i.usage[w]
                     /\ number[w] \subseteq Numbers
    <3> TAKE w \in B
    <3>1. number[w] \in SUBSET Numbers /\ w \in s \ {x}
      BY <2>4
    <3>2. IsFiniteSet(number[w])
      <4> HIDE DEF Numbers
      <4> QED
        BY <1>2, <3>1, FS_Subset
    <3> QED
      BY <2>2, <3>1, <3>2
  <2>7. PICK taken : taken = Together(number, B)
    OBVIOUS
  <2>8. /\ IsFiniteSet(taken) /\ Cardinality(taken) \in Nat
        /\ SumOf(i.usage, B) \in Nat
        /\ Cardinality(taken) <= SumOf(i.usage, B)
    <3>1. /\ \A w \in B : IsFiniteSet(number[w])
          /\ \A w \in B : i.usage[w] = Cardinality(number[w])
      BY <2>6
    <3> QED
      BY <2>5, <2>7, <3>1, PartsCounted
  <2>9. SumOf(i.usage, B) + i.usage[x] <= P
    <3>1. SumOf(i.usage, B \cup {x}) = SumOf(i.usage, B) + i.usage[x]
      <4>1. PICK usage : usage = i.usage
        OBVIOUS
      <4>2. \A y \in B \cup {x} : usage[y] \in Int
        BY <1>0, <2>4, <4>1
      <4>3. SumOf(usage, B \cup {x}) = SumOf(usage, B) + usage[x]
        <5>1. x \notin B
          BY <2>4
        <5> HIDE DEF H, Good, Numbers
        <5> QED
          BY <2>5, <4>2, <5>1, SumWith
      <4> QED
        BY <4>1, <4>3, Zenon
    <3>2. SumOf(i.usage, B \cup {x}) <= P
      <4>1. start[x] \in Nat
        BY <1>0, <2>4
      <4> QED
        BY <2>4, <4>1, PeakCovers
    <3> QED
      BY <3>1, <3>2
  <2>10. PICK free : free = Numbers \ taken
    OBVIOUS
  <2>11. IsFiniteSet(free) /\ Cardinality(free) \in Nat /\ Cardinality(free) >= i.usage[x]
    <3>1. taken \subseteq Numbers
      <4> HIDE DEF Numbers
      <4> QED
        BY <2>6, <2>7 DEF Together
    <3>2. IsFiniteSet(free) /\ Cardinality(free) \in Nat
      <4> HIDE DEF Numbers
      <4>1. free \subseteq Numbers
        BY <2>10
      <4> QED
        BY <1>2, <4>1, FS_Subset, FS_CardinalityType
    <3>3. Cardinality(Numbers) = Cardinality(taken) + Cardinality(free)
      <4> HIDE DEF Numbers
      <4>1. Numbers = taken \cup free /\ taken \cap free = {}
        BY <2>10, <3>1
      <4>2. Cardinality({}) = 0
        BY FS_EmptySet
      <4>3. Cardinality(taken \cup free)
              = Cardinality(taken) + Cardinality(free) - Cardinality(taken \cap free)
        BY <2>8, <3>2, FS_Union
      <4>4. Cardinality(taken \cap free) = 0
        BY <4>1, <4>2, Zenon
      <4>5. Cardinality(Numbers) = Cardinality(taken \cup free)
        BY <4>1, Zenon
      <4> QED
        BY <2>8, <3>2, <4>3, <4>4, <4>5
    <3>4. i.usage[x] \in Nat
      BY <1>0, <2>4
    <3> HIDE DEF Numbers
    <3> QED
      BY <1>0, <1>2, <2>8, <2>9, <3>2, <3>3, <3>4
  <2>12. PICK D \in SUBSET free : Cardinality(D) = i.usage[x]
    <3>1. i.usage[x] \in Nat /\ i.usage[x] <= Cardinality(free)
      BY <1>0, <2>4, <2>11
    <3> QED
      BY <2>11, <3>1, SubsetOfSize
  <2>13. PICK more : more = [number EXCEPT ![x] = D]
    OBVIOUS
  <2>14. /\ more \in [Job -> SUBSET Numbers] /\ more[x] = D
         /\ \A v \in Job \ {x} : more[v] = number[v]
    <3>1. D \in SUBSET Numbers
      BY <2>10
    <3> HIDE DEF Numbers
    <3> QED
      BY <2>4, <2>13, <3>1
  <2>15. \A v \in s : Cardinality(more[v]) = i.usage[v]
    BY <2>2, <2>12, <2>14
  <2>16. ASSUME NEW w \in s \ {x}
         PROVE  more[w] \cap D = {} \/ end[w] <= start[x]
    <3>1. CASE w \in B
      <4>1. more[w] \subseteq taken
        BY <2>7, <2>14, <3>1 DEF Together
      <4>2. D \cap taken = {}
        BY <2>10
      <4> QED
        BY <4>1, <4>2
    <3>2. CASE w \notin B
      <4>1. w \in Job /\ ~(start[x] < end[w])
        BY <2>3, <3>2
      <4> QED
        BY <1>0, <1>1, <2>4, <4>1
    <3> QED
      BY <3>1, <3>2
  <2>17. ASSUME NEW u \in s, NEW v \in s
         PROVE  u = v \/ more[u] \cap more[v] = {} \/ Apart(start, end, u, v)
    <3>1. CASE u = x /\ v # x
      <4>1. more[v] \cap D = {} \/ end[v] <= start[x]
        BY <2>16, <3>1
      <4> QED
        BY <2>14, <3>1, <4>1 DEF Apart
    <3>2. CASE u # x /\ v = x
      <4>1. more[u] \cap D = {} \/ end[u] <= start[x]
        BY <2>16, <3>2
      <4> QED
        BY <2>14, <3>2, <4>1 DEF Apart
    <3>3. CASE u # x /\ v # x
      <4>1. u \in Job \ {x} /\ v \in Job \ {x} /\ u \in s \ {x} /\ v \in s \ {x}
        BY <3>3
      <4> QED
        BY <2>2, <2>14, <4>1
    <3> QED
      BY <3>1, <3>2, <3>3
  <2>18. Good(s, more)
    BY <2>15, <2>17
  <2> HIDE DEF Good
  <2> QED
    BY <2>14, <2>18
<1>5. \A s \in SUBSET Job : s \in H
  <2> HIDE DEF H
  <2> QED
    BY <1>3, <1>4, JobsFinite, SetInduction
<1>6. Job \in H
  <2>1. Job \in SUBSET Job
    OBVIOUS
  <2> HIDE DEF H
  <2> QED
    BY <1>5, <2>1
<1> QED
  BY <1>6

\* Jobs of which no two run at the same time.
Chain(start, end, B) == \A u, v \in B : u = v \/ Apart(start, end, u, v)

\* v is the next of B after u; and the first of B.
Follows(start, end, B, u, v) ==
  /\ u \in B /\ v \in B /\ end[u] <= start[v]
  /\ \A w \in B : ~(end[u] <= start[w] /\ end[w] <= start[v])
Leads(start, end, B, v) == v \in B /\ \A u \in B : ~(end[u] <= start[v])

\* A chain has one first job, and every job has one next job at most, and
\* is the next of another if it is not the first.
LEMMA ChainOrder ==
  ASSUME NEW start \in [Job -> Nat], NEW end \in [Job -> Nat],
         \A v \in Job : start[v] < end[v],
         NEW B, B \subseteq Job, Chain(start, end, B)
  PROVE  /\ \A u, v \in B : Leads(start, end, B, u) /\ Leads(start, end, B, v) => u = v
         /\ \A u, v, w \in B :
              Follows(start, end, B, u, v) /\ Follows(start, end, B, u, w) => v = w
         /\ \A v \in B : \/ Leads(start, end, B, v)
                         \/ \E u \in B : Follows(start, end, B, u, v)
<1>0. \A v \in B : v \in Job /\ start[v] \in Nat /\ end[v] \in Nat /\ start[v] < end[v]
  OBVIOUS
<1>1. \A u, v \in B : u = v \/ end[u] <= start[v] \/ end[v] <= start[u]
  BY DEF Chain, Apart
<1>2. ASSUME NEW u \in B, NEW v \in B, Leads(start, end, B, u), Leads(start, end, B, v)
      PROVE  u = v
  BY <1>1, <1>2 DEF Leads
<1>3. ASSUME NEW u \in B, NEW v \in B, NEW w \in B,
             Follows(start, end, B, u, v), Follows(start, end, B, u, w)
      PROVE  v = w
  BY <1>1, <1>3 DEF Follows
<1>4. ASSUME NEW v \in B, ~ Leads(start, end, B, v)
      PROVE  \E u \in B : Follows(start, end, B, u, v)
  <2> DEFINE Earlier == {u \in B : end[u] <= start[v]}
             Starts == {start[u] : u \in Earlier}
  <2>1. Earlier # {}
    BY <1>4 DEF Leads
  <2>2. Starts \subseteq Int /\ Starts # {} /\ \A y \in Starts : y <= start[v]
    <3>1. \A u \in Earlier : start[u] \in Nat /\ start[u] <= start[v]
      BY <1>0
    <3> HIDE DEF Earlier
    <3> QED
      BY <2>1, <3>1
  <2>3. Max(Starts) \in Starts /\ \A y \in Starts : Max(Starts) >= y
    <3>1. start[v] \in Int
      BY <1>0
    <3> HIDE DEF Starts
    <3> QED
      BY <2>2, <3>1, MaxBounded
  <2>4. PICK u \in Earlier : Max(Starts) = start[u]
    BY <2>3
  <2>5. \A w \in Earlier : start[u] >= start[w]
    BY <2>3, <2>4
  <2>6. u \in B /\ end[u] <= start[v]
    OBVIOUS
  <2>7. ASSUME NEW w \in B, end[u] <= start[w], end[w] <= start[v]
        PROVE  FALSE
    <3>1. w \in Earlier
      BY <2>7
    <3>2. start[u] >= start[w]
      BY <2>5, <3>1
    <3> QED
      BY <1>0, <2>6, <2>7, <3>2
  <2> QED
    BY <2>6, <2>7 DEF Follows
<1> QED
  BY <1>2, <1>3, <1>4

\* A chain can be made so long that no further job fits into it.
LEMMA LongChain ==
  ASSUME NEW start, NEW end, NEW A, A \subseteq Job, Chain(start, end, A)
  PROVE  \E B \in SUBSET Job :
           /\ A \subseteq B /\ Chain(start, end, B)
           /\ \A x \in Job \ B : ~ Chain(start, end, B \cup {x})
<1> DEFINE Long(B, s) == /\ A \subseteq B /\ Chain(start, end, B)
                         /\ \A x \in s \ B : ~ Chain(start, end, B \cup {x})
           H == {s \in SUBSET Job : \E B \in SUBSET Job : Long(B, s)}
<1>1. {} \in H
  <2>1. A \in SUBSET Job /\ Long(A, {})
    OBVIOUS
  <2> HIDE DEF Long
  <2> QED
    BY <2>1
<1>2. \A s \in SUBSET Job : s # {} /\ (\A x \in s : s \ {x} \in H) => s \in H
  <2> SUFFICES ASSUME NEW s \in SUBSET Job, s # {}, \A x \in s : s \ {x} \in H
               PROVE  \E B \in SUBSET Job : Long(B, s)
    <3> HIDE DEF Long
    <3> QED
      OBVIOUS
  <2>1. PICK x \in s : TRUE
    OBVIOUS
  <2>2. PICK B \in SUBSET Job : Long(B, s \ {x})
    <3> HIDE DEF Long
    <3> QED
      BY <2>1
  <2>3. CASE ~ Chain(start, end, B \cup {x})
    <3>1. Long(B, s)
      BY <2>2, <2>3
    <3> HIDE DEF Long
    <3> QED
      BY <3>1
  <2>4. CASE Chain(start, end, B \cup {x})
    <3>1. PICK C : C = B \cup {x}
      OBVIOUS
    <3>2. ASSUME NEW y \in s \ C PROVE ~ Chain(start, end, C \cup {y})
      <4>1. ~ Chain(start, end, B \cup {y})
        BY <2>2, <3>1, <3>2
      <4>2. B \cup {y} \subseteq C \cup {y}
        BY <3>1
      <4> QED
        BY <4>1, <4>2 DEF Chain
    <3>3. C \in SUBSET Job /\ A \subseteq C /\ Chain(start, end, C)
      BY <2>2, <2>4, <3>1
    <3>4. Long(C, s)
      BY <3>2, <3>3
    <3> HIDE DEF Long
    <3> QED
      BY <3>3, <3>4
  <2> QED
    BY <2>3, <2>4
<1>3. \A s \in SUBSET Job : s \in H
  <2> HIDE DEF H
  <2> QED
    BY <1>1, <1>2, JobsFinite, SetInduction
<1>4. Job \in H
  <2>1. Job \in SUBSET Job
    OBVIOUS
  <2> HIDE DEF H
  <2> QED
    BY <1>3, <2>1
<1> QED
  BY <1>4

\* A schedule gives chains, one for each number up to the peak, such that every
\* job is in as many of them as it uses; with flow proxies it may be in more.
Passed(start, end, P, chain, proxy) ==
  /\ chain \in [1 .. P -> SUBSET Job]
  /\ \A c \in 1 .. P : Chain(start, end, chain[c])
  /\ \A v \in Job : LET on == Cardinality({c \in 1 .. P : v \in chain[c]})
                    IN  /\ on >= ilpInstance.usage[v]
                        /\ ~proxy => on <= ilpInstance.usage[v]
  /\ proxy => \A c \in 1 .. P : \A x \in Job \ chain[c] :
                ~ Chain(start, end, chain[c] \cup {x})

LEMMA ChainsExist ==
  ASSUME ilpInstance \in LagInstance, NEW start \in [Job -> Nat],
         \A v \in Job : ilpInstance.duration[v] > 0,
         NEW end, end = [v \in Job |-> start[v] + ilpInstance.duration[v]],
         NEW P, P = Peak(ilpInstance, start), NEW proxy \in BOOLEAN
  PROVE  \E chain : Passed(start, end, P, chain, proxy)
<1> DEFINE usage == ilpInstance.usage
           Numbers == 1 .. P
<1>0. P \in Nat /\ \A v \in Job : usage[v] \in Nat
  BY InstanceTypes, PeakFacts
<1>1. PICK number \in [Job -> SUBSET Numbers] :
        /\ \A v \in Job : Cardinality(number[v]) = usage[v]
        /\ \A u, v \in Job : \/ u = v \/ number[u] \cap number[v] = {}
                             \/ Apart(start, end, u, v)
  BY UsageNumbered
<1>2. IsFiniteSet(Numbers)
  <2>1. 1 \in Int /\ P \in Int
    BY <1>0
  <2> QED
    BY <2>1, FS_Interval, Zenon
<1>3. PICK short : short = [c \in Numbers |-> {v \in Job : c \in number[v]}]
  OBVIOUS
<1> HIDE DEF usage, Numbers
<1>4. \A c \in Numbers : short[c] \subseteq Job /\ Chain(start, end, short[c])
  BY <1>1, <1>3 DEF Chain
<1>5. \A v \in Job : {c \in Numbers : v \in short[c]} = number[v]
  BY <1>1, <1>3
<1>6. CASE ~proxy
  <2>1. short \in [Numbers -> SUBSET Job]
    BY <1>3, <1>4
  <2>2. \A v \in Job : Cardinality({c \in Numbers : v \in short[c]}) = usage[v]
    BY <1>1, <1>5
  <2>3. Passed(start, end, P, short, proxy)
    BY <1>0, <1>4, <1>6, <2>1, <2>2 DEF Passed, Numbers, usage
  <2> QED
    BY <2>3
<1>7. CASE proxy
  <2> DEFINE Long(c, B) ==
               /\ short[c] \subseteq B /\ Chain(start, end, B)
               /\ \A x \in Job \ B : ~ Chain(start, end, B \cup {x})
  <2>1. \A c \in Numbers : \E B \in SUBSET Job : Long(c, B)
    <3> TAKE c \in Numbers
    <3>1. PICK A : A = short[c]
      OBVIOUS
    <3>2. A \subseteq Job /\ Chain(start, end, A)
      BY <1>4, <3>1
    <3>3. \E B \in SUBSET Job : /\ A \subseteq B /\ Chain(start, end, B)
                                /\ \A x \in Job \ B : ~ Chain(start, end, B \cup {x})
      BY <3>2, LongChain
    <3> QED
      BY <3>1, <3>3
  <2>2. PICK chain : chain = [c \in Numbers |-> CHOOSE B \in SUBSET Job : Long(c, B)]
    OBVIOUS
  <2>3. \A c \in Numbers : chain[c] \in SUBSET Job /\ Long(c, chain[c])
    <3> HIDE DEF Long
    <3> QED
      BY <2>1, <2>2
  <2>4. chain \in [Numbers -> SUBSET Job]
    <3> HIDE DEF Long
    <3> QED
      BY <2>2, <2>3
  <2>5. ASSUME NEW v \in Job
        PROVE  Cardinality({c \in Numbers : v \in chain[c]}) >= usage[v]
    <3>1. PICK on : on = {c \in Numbers : v \in chain[c]}
      OBVIOUS
    <3>2. number[v] \subseteq on /\ on \subseteq Numbers
      BY <1>5, <2>3, <3>1
    <3>3. IsFiniteSet(on) /\ Cardinality(on) \in Nat
      BY <1>2, <3>2, FS_Subset, FS_CardinalityType
    <3>4. Cardinality(number[v]) <= Cardinality(on)
      BY <3>2, <3>3, FS_Subset
    <3>5. usage[v] = Cardinality(number[v]) /\ usage[v] \in Nat
      BY <1>0, <1>1
    <3> QED
      BY <3>1, <3>3, <3>4, <3>5
  <2>6. Passed(start, end, P, chain, proxy)
    BY <1>7, <2>3, <2>4, <2>5 DEF Passed, Numbers, usage
  <2> QED
    BY <2>6
<1> QED
  BY <1>6, <1>7

\* There is a flow variable from a job of a chain to the next: if there was none
\* because of a proxy, that proxy would fit into the chain between them.
LEMMA NextMayFlow ==
  ASSUME ilpInstance \in LagInstance, NEW start \in LagSchedules(ilpInstance),
         \A v \in Job : ilpInstance.duration[v] > 0,
         NEW end, end = [v \in Job |-> start[v] + ilpInstance.duration[v]],
         NEW proxy \in BOOLEAN,
         NEW B \in SUBSET Job, Chain(start, end, B),
         proxy => \A x \in Job \ B : ~ Chain(start, end, B \cup {x}),
         NEW u \in B, NEW v \in B, Follows(start, end, B, u, v)
  PROVE  <<u, v>> \in FlowVars(proxy) /\ MayFlow(start, <<u, v>>)
<1>1. ASSUME NEW w \in Job
      PROVE  /\ start[w] \in Nat /\ end[w] \in Nat /\ start[w] < end[w]
             /\ end[w] = start[w] + ilpInstance.duration[w] /\ ilpInstance.duration[w] \in Nat
             /\ end[w] <= ilpInstance.deadline[w] /\ ilpInstance.deadline[w] \in Nat
             /\ ilpInstance.release[w] <= start[w] /\ ilpInstance.release[w] \in Nat
  <2>1. /\ start[w] \in Nat /\ ilpInstance.duration[w] \in Nat /\ ilpInstance.duration[w] > 0
        /\ ilpInstance.deadline[w] \in Nat /\ ilpInstance.release[w] \in Nat
    BY InstanceTypes, LastDeadlineType DEF LagSchedules
  <2>2. end[w] = start[w] + ilpInstance.duration[w]
    OBVIOUS
  <2>3. /\ start[w] + ilpInstance.duration[w] <= ilpInstance.deadline[w]
        /\ ilpInstance.release[w] <= start[w]
    BY DEF LagSchedules, LagFeasible
  <2> QED
    BY <2>1, <2>2, <2>3
<1>2. /\ u \in Job /\ v \in Job /\ end[u] <= start[v]
      /\ \A w \in B : ~(end[u] <= start[w] /\ end[w] <= start[v])
  BY DEF Follows
<1>3. MayFlow(start, <<u, v>>)
  <2>1. start[u] + ilpInstance.duration[u] <= start[v]
    BY <1>1, <1>2
  <2> QED
    BY <2>1 DEF MayFlow
<1>4. CanFollow(u, v)
  <2>1. u # v
    BY <1>1, <1>2
  <2>2. ilpInstance.deadline[v] - ilpInstance.duration[v]
          >= ilpInstance.release[u] + ilpInstance.duration[u]
    BY <1>1, <1>2
  <2> QED
    BY <2>1, <2>2 DEF CanFollow
<1>5. ASSUME proxy, Proxied(u, v) PROVE FALSE
  <2> DEFINE followers == {p \in Job : AlwaysFollows(u, p)}
             Deadlines == {ilpInstance.deadline[p] : p \in followers}
  <2>1. followers # {} /\ ilpInstance.release[v] >= Min(Deadlines)
    BY <1>5 DEF Proxied
  <2>2. Deadlines \subseteq Int /\ Deadlines # {} /\ \A d \in Deadlines : 0 <= d
    BY <1>1, <2>1
  <2>3. Min(Deadlines) \in Deadlines
    <3>1. 0 \in Int
      OBVIOUS
    <3> HIDE DEF Deadlines
    <3> QED
      BY <2>2, <3>1, MinBounded, Zenon
  <2>4. PICK p \in followers : Min(Deadlines) = ilpInstance.deadline[p]
    BY <2>3
  <2> HIDE DEF Deadlines
  <2>5. p \in Job /\ ilpInstance.release[p] >= ilpInstance.deadline[u]
        /\ ilpInstance.release[v] >= ilpInstance.deadline[p]
    BY <2>1, <2>4 DEF AlwaysFollows
  <2>6. end[u] <= start[p] /\ end[p] <= start[v]
    BY <1>1, <1>2, <2>5
  <2>7. p \notin B
    BY <1>2, <2>6
  <2>8. ASSUME NEW w \in B PROVE Apart(start, end, w, p)
    <3>1. w \in Job /\ (w = u \/ end[w] <= start[u] \/ end[u] <= start[w])
          /\ (w = v \/ end[w] <= start[v] \/ end[v] <= start[w])
      BY DEF Chain, Apart
    <3>2. CASE w = u \/ end[w] <= start[u]
      <4>1. end[w] <= start[p]
        BY <1>1, <1>2, <2>5, <2>6, <3>1, <3>2
      <4> QED
        BY <4>1 DEF Apart
    <3>3. CASE w = v \/ end[v] <= start[w]
      <4>1. end[p] <= start[w]
        BY <1>1, <1>2, <2>5, <2>6, <3>1, <3>3
      <4> QED
        BY <4>1 DEF Apart
    <3> QED
      BY <1>2, <3>1, <3>2, <3>3
  <2>9. Chain(start, end, B \cup {p})
    <3> SUFFICES ASSUME NEW a \in B \cup {p}, NEW b \in B \cup {p}
                 PROVE  a = b \/ Apart(start, end, a, b)
      BY DEF Chain
    <3>1. CASE a \in B /\ b \in B
      BY <3>1 DEF Chain
    <3>2. CASE a \in B /\ b = p
      BY <2>8, <3>2
    <3>3. CASE a = p /\ b \in B
      BY <2>8, <3>3 DEF Apart
    <3> QED
      BY <3>1, <3>2, <3>3
  <2> QED
    BY <1>5, <2>5, <2>7, <2>9
<1>6. <<u, v>> \in FlowVars(proxy)
  BY <1>2, <1>4, <1>5 DEF FlowVars
<1> QED
  BY <1>3, <1>6

\* What FBILP calls the inflows are numbers, and there are some.
LEMMA InflowsType ==
  ASSUME ilpInstance \in LagInstance, NEW start, NEW proxy \in BOOLEAN
  PROVE  Inflows(start, proxy) \subseteq Nat
<1> DEFINE edges == FlowVars(proxy)
           unit == 0 .. IF proxy THEN Total(ilpInstance.usage, Job)
                        ELSE Max(Range(ilpInstance.usage))
           flows == {f \in [edges -> unit] : \A e \in edges : f[e] > 0 => MayFlow(start, e)}
           Into(f, in, v) == in[v] + Total(f, {e \in edges : e[2] = v})
           OutOf(f, v) == Total(f, {e \in edges : e[1] = v})
           Balanced(y) == \A v \in Job :
             /\ Into(y[1], y[2], v) >= ilpInstance.usage[v]
             /\ OutOf(y[1], v) <= IF proxy THEN Into(y[1], y[2], v) ELSE ilpInstance.usage[v]
           All == {y \in flows \X [Job -> unit] : Balanced(y)}
<1>1. Inflows(start, proxy) = {Total(x[2], Job) : x \in All}
  BY Zenon DEF Inflows
<1>2. unit \subseteq Nat
  <2>1. ilpInstance.usage \in [Job -> Nat]
    BY InstanceTypes
  <2>2. Max(Range(ilpInstance.usage)) \in Nat /\ Total(ilpInstance.usage, Job) \in Nat
    BY <2>1, MaxOfJobs, UsagesAdd
  <2> QED
    BY <2>2
<1>3. ASSUME NEW y \in All PROVE Total(y[2], Job) \in Nat
  <2>1. y[2] \in [Job -> unit]
    BY <1>3
  <2> HIDE DEF unit, All
  <2>2. \A v \in Job : y[2][v] \in Nat
    BY <1>2, <2>1
  <2> QED
    BY <2>2, JobsFinite, SumsGrow, TotalIsSum
<1> HIDE DEF All
<1> QED
  BY <1>1, <1>3

\* The ends of the jobs, and the chains a job is on.
Ends(start) == [v \in Job |-> start[v] + ilpInstance.duration[v]]
OnChains(P, chain) == [v \in Job |-> {c \in 1 .. P : v \in chain[c]}]

\* Flows of no more than P in all that give each job what it is on.
Carried(start, P, on, edges, f, in) ==
  /\ f = [e \in edges |-> f[e]] /\ in = [v \in Job |-> in[v]]
  /\ \A e \in edges : /\ f[e] \in Nat /\ f[e] <= Cardinality(on[e[1]])
                      /\ f[e] > 0 => MayFlow(start, e)
  /\ \A v \in Job : /\ in[v] \in Nat /\ in[v] <= Cardinality(on[v])
                    /\ in[v] + FlowTo(edges, f, v) >= Cardinality(on[v])
                    /\ FlowFrom(edges, f, v) <= Cardinality(on[v])
  /\ SumOf(in, Job) <= P

\* One unit flows into each chain from outside, and along it.  A job passes on no
\* more than there are chains it is on, and is given as much.
LEMMA FlowsOfChains ==
  ASSUME ilpInstance \in LagInstance, NEW start \in LagSchedules(ilpInstance),
         \A v \in Job : ilpInstance.duration[v] > 0,
         NEW end, end = Ends(start), NEW proxy \in BOOLEAN, NEW P \in Nat,
         NEW chain, Passed(start, end, P, chain, proxy),
         NEW on, on = OnChains(P, chain),
         NEW edges, edges = FlowVars(proxy)
  PROVE  \E f, in : Carried(start, P, on, edges, f, in)
<1> USE DEF Ends, OnChains
<1> DEFINE Numbers == 1 .. P
           nexts == [e \in edges |-> {c \in Numbers : Follows(start, end, chain[c], e[1], e[2])}]
           firsts == [v \in Job |-> {c \in Numbers : Leads(start, end, chain[c], v)}]
           f == [e \in edges |-> Cardinality(nexts[e])]
           in == [v \in Job |-> Cardinality(firsts[v])]
<1>0. /\ start \in [Job -> Nat] /\ end \in [Job -> Nat]
      /\ \A v \in Job : start[v] < end[v]
  <2>1. start \in [Job -> Nat]
    BY LastDeadlineType DEF LagSchedules
  <2>2. \A v \in Job : start[v] \in Nat /\ ilpInstance.duration[v] \in Nat
    BY <2>1, InstanceTypes
  <2> QED
    BY <2>1, <2>2
<1>1. /\ IsFiniteSet(Numbers) /\ Cardinality(Numbers) = P
      /\ \A X \in SUBSET Numbers : IsFiniteSet(X) /\ Cardinality(X) \in Nat
  <2>1. 1 \in Int /\ P \in Int
    OBVIOUS
  <2>2. IsFiniteSet(1 .. P) /\ Cardinality(1 .. P) = IF 1 > P THEN 0 ELSE P - 1 + 1
    BY <2>1, FS_Interval, Zenon
  <2>3. Cardinality(1 .. P) = P
    BY <2>2
  <2> QED
    BY <2>2, <2>3, FS_Subset, FS_CardinalityType
<1>2. /\ edges \subseteq Job \X Job /\ IsFiniteSet(edges)
  <2>1. edges \subseteq Job \X Job
    BY DEF FlowVars
  <2>2. IsFiniteSet(Job \X Job)
    BY JobsFinite, FS_Product
  <2> QED
    BY <2>1, <2>2, FS_Subset
<1> HIDE DEF Numbers
<1>3. ASSUME NEW c \in Numbers
      PROVE  /\ chain[c] \in SUBSET Job /\ Chain(start, end, chain[c])
             /\ proxy => \A x \in Job \ chain[c] : ~ Chain(start, end, chain[c] \cup {x})
  BY DEF Passed, Numbers
<1>4. ASSUME NEW c \in Numbers, NEW u, NEW v, Follows(start, end, chain[c], u, v)
      PROVE  /\ u \in chain[c] /\ v \in chain[c]
             /\ <<u, v>> \in edges /\ MayFlow(start, <<u, v>>)
  <2>1. u \in chain[c] /\ v \in chain[c]
    BY <1>4 DEF Follows
  <2>2. PICK B : B = chain[c]
    OBVIOUS
  <2>3. /\ B \in SUBSET Job /\ Chain(start, end, B) /\ u \in B /\ v \in B
        /\ proxy => \A x \in Job \ B : ~ Chain(start, end, B \cup {x})
        /\ Follows(start, end, B, u, v)
    BY <1>3, <1>4, <2>1, <2>2
  <2>4. <<u, v>> \in FlowVars(proxy) /\ MayFlow(start, <<u, v>>)
    BY <2>3, NextMayFlow
  <2> QED
    BY <2>1, <2>4
<1>5. ASSUME NEW c \in Numbers
      PROVE  /\ \A u, v \in chain[c] :
                  Leads(start, end, chain[c], u) /\ Leads(start, end, chain[c], v) => u = v
             /\ \A u, v, w \in chain[c] : Follows(start, end, chain[c], u, v)
                  /\ Follows(start, end, chain[c], u, w) => v = w
             /\ \A v \in chain[c] : \/ Leads(start, end, chain[c], v)
                  \/ \E u \in chain[c] : Follows(start, end, chain[c], u, v)
  <2>1. PICK B : B = chain[c]
    OBVIOUS
  <2>2. B \subseteq Job /\ Chain(start, end, B)
    BY <1>3, <2>1
  <2>3. /\ \A u, v \in B : Leads(start, end, B, u) /\ Leads(start, end, B, v) => u = v
        /\ \A u, v, w \in B :
             Follows(start, end, B, u, v) /\ Follows(start, end, B, u, w) => v = w
        /\ \A v \in B : \/ Leads(start, end, B, v)
                        \/ \E u \in B : Follows(start, end, B, u, v)
    BY <1>0, <2>2, ChainOrder
  <2> QED
    BY <2>1, <2>3, Zenon
<1>6. ASSUME NEW v \in Job
      PROVE  /\ on[v] = {c \in Numbers : v \in chain[c]}
             /\ IsFiniteSet(on[v]) /\ Cardinality(on[v]) \in Nat
             /\ firsts[v] \subseteq on[v] /\ IsFiniteSet(firsts[v])
             /\ in[v] = Cardinality(firsts[v])
             /\ in[v] \in Nat /\ in[v] <= Cardinality(on[v])
  <2>1. on[v] = {c \in Numbers : v \in chain[c]}
    BY DEF Numbers
  <2>2. on[v] \in SUBSET Numbers
    BY <2>1
  <2>3. firsts[v] \subseteq on[v]
    BY <2>1 DEF Leads
  <2>4. in[v] = Cardinality(firsts[v])
    OBVIOUS
  <2> HIDE DEF firsts, in
  <2>5. IsFiniteSet(on[v]) /\ Cardinality(on[v]) \in Nat
    BY <1>1, <2>2
  <2>6. /\ IsFiniteSet(firsts[v]) /\ Cardinality(firsts[v]) <= Cardinality(on[v])
        /\ Cardinality(firsts[v]) \in Nat
    BY <2>3, <2>5, FS_Subset, FS_CardinalityType
  <2> QED
    BY <2>1, <2>3, <2>4, <2>5, <2>6
<1>7. ASSUME NEW e \in edges
      PROVE  /\ nexts[e] = {c \in Numbers : Follows(start, end, chain[c], e[1], e[2])}
             /\ IsFiniteSet(nexts[e]) /\ f[e] = Cardinality(nexts[e])
             /\ f[e] \in Nat /\ f[e] <= Cardinality(on[e[1]])
             /\ f[e] > 0 => MayFlow(start, e)
  <2>1. nexts[e] = {c \in Numbers : Follows(start, end, chain[c], e[1], e[2])}
    OBVIOUS
  <2>2. f[e] = Cardinality(nexts[e])
    OBVIOUS
  <2>3. e[1] \in Job /\ e = <<e[1], e[2]>>
    BY <1>2
  <2>4. nexts[e] \subseteq on[e[1]]
    <3> SUFFICES ASSUME NEW c \in nexts[e] PROVE c \in on[e[1]]
      OBVIOUS
    <3>1. PICK u, v : u = e[1] /\ v = e[2]
      OBVIOUS
    <3>2. c \in Numbers /\ Follows(start, end, chain[c], u, v)
      BY <2>1, <3>1
    <3> HIDE DEF nexts
    <3>3. c \in Numbers /\ u \in chain[c]
      BY <1>4, <3>2
    <3>4. on[u] = {x \in Numbers : u \in chain[x]}
      <4>1. u \in Job
        BY <2>3, <3>1
      <4> QED
        BY <4>1 DEF Numbers
    <3> QED
      BY <3>1, <3>3, <3>4
  <2> HIDE DEF nexts, f
  <2>5. IsFiniteSet(on[e[1]])
    BY <1>6, <2>3
  <2>6. /\ IsFiniteSet(nexts[e]) /\ Cardinality(nexts[e]) \in Nat
        /\ Cardinality(nexts[e]) <= Cardinality(on[e[1]])
    BY <2>4, <2>5, FS_Subset, FS_CardinalityType
  <2>7. ASSUME f[e] > 0 PROVE MayFlow(start, e)
    <3>1. nexts[e] # {}
      <4>1. Cardinality({}) = 0
        BY FS_EmptySet
      <4>2. PICK N : N = nexts[e]
        OBVIOUS
      <4>3. Cardinality(N) > 0
        BY <2>2, <2>7, <4>2
      <4>4. N # {}
        <5>1. ASSUME N = {} PROVE FALSE
          <6>1. Cardinality(N) = 0
            BY <4>1, <5>1, Zenon
          <6> QED
            BY <4>3, <6>1
        <5> QED
          BY <5>1
      <4> QED
        BY <4>2, <4>4
    <3>2. PICK c \in Numbers : Follows(start, end, chain[c], e[1], e[2])
      BY <2>1, <3>1
    <3>3. MayFlow(start, <<e[1], e[2]>>)
      BY <1>4, <3>2
    <3> QED
      BY <2>3, <3>3
  <2> QED
    BY <2>1, <2>2, <2>6, <2>7
<1>8. ASSUME NEW v \in Job
      PROVE  in[v] + FlowTo(edges, f, v) >= Cardinality(on[v])
  <2>1. PICK to : to = {e \in edges : e[2] = v}
    OBVIOUS
  <2>2. IsFiniteSet(to) /\ to \subseteq edges
    BY <1>2, <2>1, FS_Subset
  <2>3. PICK given : given = Together(nexts, to)
    OBVIOUS
  <2>4. /\ IsFiniteSet(given) /\ Cardinality(given) \in Nat
        /\ SumOf(f, to) \in Nat /\ Cardinality(given) <= SumOf(f, to)
    <3>1. /\ \A e \in to : IsFiniteSet(nexts[e])
          /\ \A e \in to : f[e] = Cardinality(nexts[e])
      BY <1>7, <2>2
    <3> HIDE DEF nexts, f
    <3> QED
      BY <2>2, <2>3, <3>1, PartsCounted
  <2>5. on[v] \subseteq firsts[v] \cup given
    <3> SUFFICES ASSUME NEW c \in on[v], c \notin firsts[v] PROVE c \in given
      OBVIOUS
    <3>1. c \in Numbers /\ v \in chain[c]
      <4> HIDE DEF nexts, firsts, f, in
      <4>1. on[v] = {x \in Numbers : v \in chain[x]}
        BY <1>6
      <4> QED
        BY <4>1
    <3>2. PICK u \in chain[c] : Follows(start, end, chain[c], u, v)
      BY <1>5, <3>1
    <3>3. PICK e : e = <<u, v>>
      OBVIOUS
    <3>4. e \in to /\ e[1] = u /\ e[2] = v
      BY <1>4, <2>1, <3>1, <3>2, <3>3
    <3>5. c \in nexts[e]
      BY <2>2, <3>1, <3>2, <3>4
    <3> HIDE DEF nexts, firsts
    <3> QED
      BY <2>3, <3>4, <3>5 DEF Together
  <2> HIDE DEF nexts, firsts, f, in
  <2>6. PICK F : F = firsts[v]
    OBVIOUS
  <2>7. IsFiniteSet(F) /\ Cardinality(F) \in Nat /\ in[v] = Cardinality(F)
    BY <1>6, <2>6, FS_CardinalityType
  <2>8. /\ IsFiniteSet(F \cup given) /\ IsFiniteSet(F \cap given)
        /\ Cardinality(F \cup given)
             = Cardinality(F) + Cardinality(given) - Cardinality(F \cap given)
    BY <2>4, <2>7, FS_Union, FS_Intersection
  <2>9. Cardinality(F \cap given) \in Nat /\ Cardinality(F \cup given) \in Nat
    BY <2>8, FS_CardinalityType
  <2>10. Cardinality(on[v]) <= Cardinality(F \cup given)
    BY <2>5, <2>6, <2>8, FS_Subset
  <2>11. FlowTo(edges, f, v) = SumOf(f, to)
    BY <2>1 DEF FlowTo
  <2>12. Cardinality(on[v]) \in Nat
    BY <1>6
  <2> QED
    BY <2>4, <2>7, <2>8, <2>9, <2>10, <2>11, <2>12
<1>9. ASSUME NEW v \in Job
      PROVE  FlowFrom(edges, f, v) <= Cardinality(on[v])
  <2>1. PICK from : from = {e \in edges : e[1] = v}
    OBVIOUS
  <2>2. IsFiniteSet(from) /\ from \subseteq edges
    BY <1>2, <2>1, FS_Subset
  <2>3. PICK given : given = Together(nexts, from)
    OBVIOUS
  <2>4. \A e, d \in from : e = d \/ nexts[e] \cap nexts[d] = {}
    <3> SUFFICES ASSUME NEW e \in from, NEW d \in from,
                        NEW c \in nexts[e], c \in nexts[d]
                 PROVE  e = d
      OBVIOUS
    <3>1. /\ c \in Numbers /\ Follows(start, end, chain[c], e[1], e[2])
          /\ Follows(start, end, chain[c], d[1], d[2])
      BY <1>7, <2>2
    <3>2. e[1] = v /\ d[1] = v /\ e = <<e[1], e[2]>> /\ d = <<d[1], d[2]>>
      BY <1>2, <2>1
    <3>3. PICK v1, v2 : v1 = e[2] /\ v2 = d[2]
      OBVIOUS
    <3>4. Follows(start, end, chain[c], v, v1) /\ Follows(start, end, chain[c], v, v2)
      BY <3>1, <3>2, <3>3
    <3> HIDE DEF nexts
    <3>5. v \in chain[c] /\ v1 \in chain[c] /\ v2 \in chain[c]
      BY <1>4, <3>1, <3>4
    <3>6. v1 = v2
      BY <1>5, <3>1, <3>4, <3>5
    <3> QED
      BY <3>2, <3>3, <3>6
  <2>5. given \subseteq on[v]
    <3> SUFFICES ASSUME NEW c \in given PROVE c \in on[v]
      OBVIOUS
    <3>1. PICK e \in from : c \in nexts[e]
      <4> HIDE DEF nexts
      <4> QED
        BY <2>3 DEF Together
    <3>2. c \in Numbers /\ Follows(start, end, chain[c], v, e[2])
      BY <1>7, <2>1, <2>2, <3>1
    <3> QED
      BY <1>4, <1>6, <3>2
  <2> HIDE DEF nexts, firsts, f, in
  <2>6. IsFiniteSet(given) /\ Cardinality(given) = SumOf(f, from)
    <3>1. /\ \A e \in from : IsFiniteSet(nexts[e])
          /\ \A e \in from : f[e] = Cardinality(nexts[e])
      BY <1>7, <2>2
    <3> QED
      BY <2>2, <2>3, <2>4, <3>1, PartsCounted
  <2>7. Cardinality(given) <= Cardinality(on[v])
    BY <1>6, <2>5, FS_Subset
  <2>8. FlowFrom(edges, f, v) = SumOf(f, from)
    BY <2>1 DEF FlowFrom
  <2> QED
    BY <2>6, <2>7, <2>8
<1>10. SumOf(in, Job) <= P
  <2>1. PICK given : given = Together(firsts, Job)
    OBVIOUS
  <2>2. \A u, v \in Job : u = v \/ firsts[u] \cap firsts[v] = {}
    <3> SUFFICES ASSUME NEW u \in Job, NEW v \in Job,
                        NEW c \in firsts[u], c \in firsts[v]
                 PROVE  u = v
      OBVIOUS
    <3>1. /\ c \in Numbers /\ Leads(start, end, chain[c], u) /\ Leads(start, end, chain[c], v)
      OBVIOUS
    <3>2. u \in chain[c] /\ v \in chain[c]
      BY <3>1 DEF Leads
    <3> QED
      BY <1>5, <3>1, <3>2
  <2>3. given \subseteq Numbers
    BY <2>1 DEF Together
  <2> HIDE DEF nexts, firsts, f, in
  <2>4. IsFiniteSet(given) /\ Cardinality(given) = SumOf(in, Job)
    <3>1. (\A v \in Job : IsFiniteSet(firsts[v])) /\ \A v \in Job : in[v] = Cardinality(firsts[v])
      BY <1>6
    <3> QED
      BY <2>1, <2>2, <3>1, JobsFinite, PartsCounted
  <2>5. Cardinality(given) <= Cardinality(Numbers)
    BY <1>1, <2>3, FS_Subset
  <2> QED
    BY <1>1, <2>4, <2>5
<1>11. f = [e \in edges |-> f[e]] /\ in = [v \in Job |-> in[v]]
  BY Zenon
<1> HIDE DEF f, in
<1> QED
  BY <1>6, <1>7, <1>8, <1>9, <1>10, <1>11 DEF Carried

\* FBILP has every schedule, at the price of its peak, if all jobs take time.
LEMMA FBILPAdmits ==
  ASSUME ilpInstance \in LagInstance, \A v \in Job : ilpInstance.duration[v] > 0,
         NEW start \in LagSchedules(ilpInstance), NEW proxy \in BOOLEAN
  PROVE  /\ \E m \in FBILP(proxy) : m[2] \in Nat /\ m[2] <= Peak(ilpInstance, start)
         /\ \A m \in FBILP(proxy) : m[1] = start => m[2] \in Nat
<1> DEFINE usage == ilpInstance.usage
           edges == FlowVars(proxy)
           most == IF proxy THEN Total(ilpInstance.usage, Job) ELSE Max(Range(ilpInstance.usage))
           unit == 0 .. most
           flows == {f \in [edges -> unit] : \A e \in edges : f[e] > 0 => MayFlow(start, e)}
           Into(f, in, v) == in[v] + Total(f, {e \in edges : e[2] = v})
           OutOf(f, v) == Total(f, {e \in edges : e[1] = v})
           Balanced(y) == \A v \in Job :
             /\ Into(y[1], y[2], v) >= ilpInstance.usage[v]
             /\ OutOf(y[1], v) <= IF proxy THEN Into(y[1], y[2], v) ELSE ilpInstance.usage[v]
           All == {y \in flows \X [Job -> unit] : Balanced(y)}
<1>1. Inflows(start, proxy) = {Total(x[2], Job) : x \in All}
  BY Zenon DEF Inflows
<1>2. /\ start \in [Job -> Nat] /\ usage \in [Job -> Nat]
      /\ \A v \in Job : usage[v] \in Nat
  BY InstanceTypes, LastDeadlineType DEF LagSchedules
<1>3. PICK P \in Nat : P = Peak(ilpInstance, start) /\ P <= Total(usage, Job)
  <2>1. PICK x \in Events(ilpInstance, start) :
          Peak(ilpInstance, start) = UsageAt(ilpInstance, start, x)
    BY <1>2, PeakFacts
  <2>2. UsageAt(ilpInstance, start, x) <= SumOf(usage, Job)
    BY <1>2, UsageIsSum
  <2> QED
    BY <1>2, <2>1, <2>2, PeakFacts, TotalIsSum
<1>4. PICK end : end = Ends(start)
  OBVIOUS
<1>5. PICK chain : Passed(start, end, P, chain, proxy)
  BY <1>2, <1>3, <1>4, ChainsExist DEF Ends
<1>6. PICK on : on = OnChains(P, chain)
  OBVIOUS
<1>7. ASSUME NEW v \in Job
      PROVE  /\ Cardinality(on[v]) \in Nat /\ Cardinality(on[v]) >= usage[v]
             /\ ~proxy => Cardinality(on[v]) = usage[v]
             /\ Cardinality(on[v]) <= most
  <2>1. on[v] = {c \in 1 .. P : v \in chain[c]}
    BY <1>6 DEF OnChains
  <2>2. PICK Numbers : Numbers = 1 .. P
    OBVIOUS
  <2>3. IsFiniteSet(Numbers) /\ Cardinality(Numbers) = P
    <3>1. 1 \in Int /\ P \in Int
      OBVIOUS
    <3>2. IsFiniteSet(1 .. P) /\ Cardinality(1 .. P) = IF 1 > P THEN 0 ELSE P - 1 + 1
      BY <3>1, FS_Interval, Zenon
    <3> QED
      BY <2>2, <3>2
  <2>4. on[v] \subseteq Numbers
    BY <2>1, <2>2
  <2>5. Cardinality(on[v]) \in Nat /\ Cardinality(on[v]) <= P
    BY <2>3, <2>4, FS_Subset, FS_CardinalityType
  <2>6. Cardinality(on[v]) >= usage[v] /\ (~proxy => Cardinality(on[v]) <= usage[v])
    BY <1>5, <2>1 DEF Passed
  <2>7. ~proxy => Cardinality(on[v]) = usage[v]
    BY <1>2, <2>5, <2>6
  <2>8. Cardinality(on[v]) <= most
    <3>1. CASE proxy
      <4>1. most = Total(usage, Job) /\ Total(usage, Job) \in Nat
        BY <1>2, <3>1, UsagesAdd
      <4> HIDE DEF most, usage
      <4> QED
        BY <1>3, <2>5, <4>1
    <3>2. CASE ~proxy
      <4>1. most = Max(Range(usage)) /\ usage[v] <= Max(Range(usage))
        BY <1>2, <3>2, MaxOfJobs
      <4> HIDE DEF most, usage
      <4> QED
        BY <2>7, <3>2, <4>1
    <3> QED
      BY <3>1, <3>2
  <2> HIDE DEF most, usage
  <2> QED
    BY <2>5, <2>6, <2>7, <2>8
<1>8. most \in Nat /\ edges \subseteq Job \X Job
  <2>1. Max(Range(usage)) \in Nat /\ Total(usage, Job) \in Nat
    BY <1>2, MaxOfJobs, UsagesAdd
  <2> QED
    BY <2>1 DEF FlowVars
<1> HIDE DEF edges, most, usage
<1>9. PICK f, in : Carried(start, P, on, edges, f, in)
  <2>1. PICK E : E = FlowVars(proxy)
    OBVIOUS
  <2>2. \E f, in : Carried(start, P, on, E, f, in)
    <3>1. P \in Nat /\ start \in LagSchedules(ilpInstance) /\ proxy \in BOOLEAN
      BY <1>3
    <3> HIDE DEF flows, Into, OutOf, Balanced, All, unit
    <3> QED
      BY <1>4, <1>5, <1>6, <2>1, <3>1, FlowsOfChains
  <2> QED
    BY <2>1, <2>2 DEF edges
<1>10. f \in flows /\ in \in [Job -> unit]
  <2>1. \A e \in edges : f[e] \in unit
    <3> TAKE e \in edges
    <3>1. e[1] \in Job
      BY <1>8
    <3> QED
      BY <1>7, <1>8, <1>9, <3>1 DEF Carried
  <2>2. \A v \in Job : in[v] \in unit
    BY <1>7, <1>8, <1>9 DEF Carried
  <2> HIDE DEF unit
  <2>3. f \in [edges -> unit]
    BY <1>9, <2>1 DEF Carried
  <2>4. in \in [Job -> unit]
    BY <1>9, <2>2 DEF Carried
  <2> QED
    BY <1>9, <2>3, <2>4 DEF Carried
<1>11. ASSUME NEW v \in Job
       PROVE  /\ Into(f, in, v) >= usage[v]
              /\ OutOf(f, v) <= IF proxy THEN Into(f, in, v) ELSE usage[v]
  <2>1. Into(f, in, v) = in[v] + FlowTo(edges, f, v)
    BY TotalIsSum, Zenon DEF FlowTo
  <2>2. OutOf(f, v) = FlowFrom(edges, f, v)
    BY TotalIsSum, Zenon DEF FlowFrom
  <2>3. PICK k, to, from : /\ k = Cardinality(on[v]) /\ to = FlowTo(edges, f, v)
                           /\ from = FlowFrom(edges, f, v)
    OBVIOUS
  <2>4. to \in Nat /\ from \in Nat
    <3>1. IsFiniteSet(edges)
      <4>1. IsFiniteSet(Job \X Job)
        BY JobsFinite, FS_Product
      <4> QED
        BY <1>8, <4>1, FS_Subset
    <3>2. {e \in edges : e[2] = v} \in SUBSET edges /\ {e \in edges : e[1] = v} \in SUBSET edges
      OBVIOUS
    <3>3. \A e \in edges : f[e] \in Nat
      BY <1>9 DEF Carried
    <3>4. SumOf(f, {e \in edges : e[2] = v}) \in Nat /\ SumOf(f, {e \in edges : e[1] = v}) \in Nat
      BY <3>1, <3>2, <3>3, SumsGrow
    <3> QED
      BY <2>3, <3>4 DEF FlowTo, FlowFrom
  <2>5. /\ k \in Nat /\ k >= usage[v] /\ (~proxy => k = usage[v]) /\ usage[v] \in Nat
        /\ in[v] \in Nat /\ in[v] + to >= k /\ from <= k
    BY <1>2, <1>7, <1>9, <2>3 DEF Carried
  <2> HIDE DEF Into, OutOf
  <2> QED
    BY <2>1, <2>2, <2>3, <2>4, <2>5
<1>12. PICK y : y = <<f, in>>
  OBVIOUS
<1>13. y \in All
  <2>1. y[1] = f /\ y[2] = in
    BY <1>12
  <2>2. y \in flows \X [Job -> unit]
    <3> HIDE DEF flows, unit
    <3> QED
      BY <1>10, <1>12
  <2>3. Balanced(y)
    <3> HIDE DEF Into, OutOf
    <3> QED
      BY <1>11, <2>1 DEF usage
  <2> HIDE DEF flows, Balanced, unit
  <2> QED
    BY <2>2, <2>3
<1>14. PICK n \in Inflows(start, proxy) : n <= P
  <2>1. Total(y[2], Job) = SumOf(in, Job)
    BY <1>12, TotalIsSum
  <2>2. Total(y[2], Job) \in Inflows(start, proxy)
    <3> HIDE DEF All
    <3> QED
      BY <1>1, <1>13
  <2>3. Total(y[2], Job) <= P
    BY <1>9, <2>1 DEF Carried
  <2> QED
    BY <2>2, <2>3
<1> HIDE DEF All, flows, unit, Into, OutOf, Balanced
<1>15. Inflows(start, proxy) \subseteq Nat
  BY InflowsType
<1>16. /\ Min(Inflows(start, proxy)) \in Inflows(start, proxy)
       /\ Min(Inflows(start, proxy)) <= n
  <2>1. /\ Inflows(start, proxy) \subseteq Int /\ Inflows(start, proxy) # {}
        /\ \A x \in Inflows(start, proxy) : 0 <= x
    BY <1>14, <1>15
  <2>2. 0 \in Int
    OBVIOUS
  <2> QED
    BY <1>14, <2>1, <2>2, MinBounded
<1>17. PICK m : m = <<start, Min(Inflows(start, proxy))>>
  OBVIOUS
<1>18. m \in FBILP(proxy) /\ m[2] = Min(Inflows(start, proxy))
  BY <1>17 DEF FBILP, StartPoints
<1>19. Min(Inflows(start, proxy)) \in Nat /\ Min(Inflows(start, proxy)) <= P
  BY <1>14, <1>15, <1>16
<1>20. \A k \in FBILP(proxy) : k[1] = start => k[2] = Min(Inflows(start, proxy))
  BY DEF FBILP, StartPoints
<1> QED
  BY <1>3, <1>18, <1>19, <1>20

\* The solutions of a model are schedules with numbers as bounds.
LEMMA ModelsAreTyped ==
  ASSUME ilpFormulation \in Formulations, WindowsOfInstance,
         LastDeadline(ilpInstance) \in 1 .. ILPHorizon, Ordinary(ilpInstance),
         NEW m \in Model
  PROVE  m[1] \in LagSchedules(ilpInstance) /\ m[2] \in Nat
<1>0. /\ ilpInstance \in LagInstance /\ LastDeadline(ilpInstance) > 0
      /\ \A v \in Job : ilpInstance.duration[v] > 0
  BY ILPAssumption DEF WindowsOfInstance, Ordinary
<1>1. CASE m \in DTILP
  <2>1. m[1] \in LagSchedules(ilpInstance)
    <3>1. PICK s \in StartPoints : m = <<s, Max({DiscreteUsage(s, t) : t \in 0 .. LastDeadline(ilpInstance) - 1})>>
      BY <1>1, Zenon DEF DTILP
    <3> QED
      BY <3>1 DEF StartPoints
  <2> QED
    BY <1>0, <1>1, <2>1, DTILPAdmits
<1>2. CASE m \in OBILP
  <2>1. m[1] \in LagSchedules(ilpInstance)
    <3>1. PICK s \in StartPoints : m = <<s, Max({StartUsage(s, a) : a \in Job})>>
      BY <1>2, Zenon DEF OBILP
    <3> QED
      BY <3>1 DEF StartPoints
  <2> QED
    BY <1>0, <1>2, <2>1, OBILPAdmits
<1>3. ASSUME NEW proxy \in BOOLEAN, m \in FBILP(proxy)
      PROVE  m[1] \in LagSchedules(ilpInstance) /\ m[2] \in Nat
  <2>1. m[1] \in LagSchedules(ilpInstance)
    BY <1>3 DEF FBILP, StartPoints
  <2> QED
    BY <1>0, <1>3, <2>1, FBILPAdmits
<1>4. ASSUME NEW points \in BOOLEAN, m \in EBILP(points)
      PROVE  m[1] \in LagSchedules(ilpInstance) /\ m[2] \in Nat
  <2>1. PICK p \in EventPairs, t \in EventTimes :
          m[1] = [v \in Job |-> Rounded(t[p[v][1]])] /\ m[2] = EventPeak(p)
    BY <1>4 DEF EBILP
  <2>2. m[2] \in Nat
    BY <1>0, <2>1, EventPeakIsGreatest
  <2>3. LagFeasible(ilpInstance, m[1])
    <3>1. ilpFormulation \in Formulations
      OBVIOUS
    <3> QED
      BY <1>0, ModelsAreFeasible
  <2>4. \A v \in Job : m[1][v] \in 0 .. LastDeadline(ilpInstance)
    <3> TAKE v \in Job
    <3>1. m[1][v] \in Nat
      BY <1>0, <2>1, TimesOfEvents, RoundingKeepsBounds
    <3>2. /\ ilpInstance.duration[v] \in Nat /\ ilpInstance.deadline[v] \in Nat
          /\ m[1][v] + ilpInstance.duration[v] <= ilpInstance.deadline[v]
      BY <1>0, <2>3, InstanceTypes DEF LagFeasible
    <3>3. /\ ilpInstance.deadline[v] <= LastDeadline(ilpInstance)
          /\ LastDeadline(ilpInstance) \in Nat
      BY <1>0, LastDeadlineIsLast, LastDeadlineType
    <3> QED
      BY <3>1, <3>2, <3>3
  <2>5. m[1] \in [Job -> 0 .. LastDeadline(ilpInstance)]
    BY <2>1, <2>4
  <2> QED
    BY <2>2, <2>3, <2>5 DEF LagSchedules
<1>5. m \in DTILP \/ m \in OBILP \/ m \in FBILP(FALSE) \/ m \in FBILP(TRUE)
        \/ m \in EBILP(FALSE) \/ m \in EBILP(TRUE)
  BY DEF Model, Formulations
<1> QED
  BY <1>1, <1>2, <1>3, <1>4, <1>5

\* Every formulation has every schedule, at the price of its peak.
LEMMA ModelsAdmit ==
  ASSUME ilpFormulation \in Formulations, WindowsOfInstance,
         LastDeadline(ilpInstance) \in 1 .. ILPHorizon, Ordinary(ilpInstance),
         NEW start \in LagSchedules(ilpInstance)
  PROVE  \E m \in Model : m[2] \in Nat /\ m[2] <= Peak(ilpInstance, start)
<1> DEFINE Cheap(m) == m[2] \in Nat /\ m[2] <= Peak(ilpInstance, start)
<1>0. /\ ilpInstance \in LagInstance /\ LastDeadline(ilpInstance) > 0
      /\ \A v \in Job : ilpInstance.duration[v] > 0
      /\ \A e \in ilpInstance.lags : e[3] >= -LastDeadline(ilpInstance)
  BY ILPAssumption DEF WindowsOfInstance, Ordinary
<1>1. \E m \in DTILP : Cheap(m)
  BY <1>0, DTILPAdmits
<1>2. \E m \in OBILP : Cheap(m)
  BY <1>0, OBILPAdmits
<1>3. (\E m \in FBILP(FALSE) : Cheap(m)) /\ \E m \in FBILP(TRUE) : Cheap(m)
  BY <1>0, FBILPAdmits
<1>4. (\E m \in EBILP(FALSE) : Cheap(m)) /\ \E m \in EBILP(TRUE) : Cheap(m)
  BY <1>0, EBILPAdmits
<1> HIDE DEF Cheap
<1>5. \/ Model = DTILP \/ Model = OBILP \/ Model = FBILP(FALSE) \/ Model = FBILP(TRUE)
      \/ Model = EBILP(FALSE) \/ Model = EBILP(TRUE)
  BY DEF Model, Formulations
<1>6. \E m \in Model : Cheap(m)
  BY <1>1, <1>2, <1>3, <1>4, <1>5
<1> QED
  BY <1>6 DEF Cheap

\* Once the model is there, it has a solution that is as good as any schedule,
\* and an answer that is called optimal is the best of its solutions.
BestInv ==
  /\ ilpStatus # "NEW" => /\ ilpFormulation \in Formulations /\ WindowsOfInstance
                          /\ LastDeadline(ilpInstance) \in 1 .. ILPHorizon
                          /\ Ordinary(ilpInstance)
  /\ ilpStatus \notin {"NEW", "PREPARING"} =>
       /\ \A m \in ilpModel : /\ m[1] \in LagSchedules(ilpInstance) /\ m[2] \in Nat
                              /\ Peak(ilpInstance, m[1]) <= m[2]
       /\ \A start \in LagSchedules(ilpInstance) :
            \E m \in ilpModel : m[2] \in Nat /\ m[2] <= Peak(ilpInstance, start)
  /\ ilpStatus = "OPTIMAL" => /\ ilpAnswer \in ilpModel
                              /\ \A other \in ilpModel : ilpAnswer[2] <= other[2]
  /\ ilpStatus = "INFEASIBLE" => ilpModel = {}

LEMMA NextBestInv ==
  ASSUME OrdinaryCases PROVE BestInv /\ [ILPNext]_ilpVars => BestInv'
<1> SUFFICES ASSUME BestInv, [ILPNext]_ilpVars PROVE BestInv'
  OBVIOUS
<1> USE DEF BestInv
<1>1. CASE ComputeWindows
  <2>1. PICK c \in ILPCases :
          ilpFormulation' = c[1] /\ ilpInstance' = c[2] /\ ilpWindows' = Windows(c[2])
    BY <1>1 DEF ComputeWindows
  <2>2. /\ c[1] \in Formulations /\ c[2] \in LagInstance /\ Acyclic(c[2])
        /\ LastDeadline(c[2]) \in 1 .. ILPHorizon
    BY ILPAssumption
  <2>3. Ordinary(c[2])
    BY DEF OrdinaryCases
  <2>4. WindowsOfInstance' /\ (LastDeadline(ilpInstance) \in 1 .. ILPHorizon)'
        /\ Ordinary(ilpInstance)'
    BY <2>1, <2>2, <2>3 DEF WindowsOfInstance
  <2>5. ilpStatus' = "PREPARING"
    BY <1>1 DEF ComputeWindows
  <2> QED
    BY <2>1, <2>2, <2>4, <2>5
<1>2. CASE Prepare
  <2>1. /\ ilpFormulation \in Formulations /\ WindowsOfInstance
        /\ LastDeadline(ilpInstance) \in 1 .. ILPHorizon /\ Ordinary(ilpInstance)
    BY <1>2 DEF Prepare
  <2>2. LastDeadline(ilpInstance) > 0
    BY <2>1, ILPAssumption
  <2>3. \A m \in Model : /\ m[1] \in LagSchedules(ilpInstance) /\ m[2] \in Nat
                         /\ Peak(ilpInstance, m[1]) <= m[2]
    BY <2>1, <2>2, ModelsAreTyped, ModelsAreBounded
  <2>4. \A start \in LagSchedules(ilpInstance) :
          \E m \in Model : m[2] \in Nat /\ m[2] <= Peak(ilpInstance, start)
    BY <2>1, ModelsAdmit
  <2>5. /\ ilpInstance' = ilpInstance /\ ilpFormulation' = ilpFormulation
        /\ ilpWindows' = ilpWindows /\ ilpModel' = Model /\ ilpStatus' = "READY"
    BY <1>2 DEF Prepare
  <2>6. WindowsOfInstance' /\ (LastDeadline(ilpInstance) \in 1 .. ILPHorizon)'
        /\ Ordinary(ilpInstance)'
    BY <2>1, <2>5 DEF WindowsOfInstance
  <2>7. \A m \in ilpModel' : /\ m[1] \in LagSchedules(ilpInstance') /\ m[2] \in Nat
                             /\ Peak(ilpInstance', m[1]) <= m[2]
    BY <2>3, <2>5
  <2>8. \A start \in LagSchedules(ilpInstance') :
          \E m \in ilpModel' : m[2] \in Nat /\ m[2] <= Peak(ilpInstance', start)
    BY <2>4, <2>5
  <2> QED
    BY <2>1, <2>5, <2>6, <2>7, <2>8
<1>3. CASE SolveToOptimality \/ StopSolving \/ ProveInfeasible
  <2>1. /\ ilpInstance' = ilpInstance /\ ilpFormulation' = ilpFormulation
        /\ ilpWindows' = ilpWindows /\ ilpModel' = ilpModel
        /\ ilpStatus = "READY" /\ ilpStatus' \in {"OPTIMAL", "STOPPED", "INFEASIBLE"}
    BY <1>3 DEF SolveToOptimality, StopSolving, ProveInfeasible
  <2>2. WindowsOfInstance' /\ (LastDeadline(ilpInstance) \in 1 .. ILPHorizon)'
        /\ Ordinary(ilpInstance)'
    BY <2>1 DEF WindowsOfInstance
  <2>3. ilpStatus' = "OPTIMAL" => /\ ilpAnswer' \in ilpModel
                                  /\ \A other \in ilpModel : ilpAnswer'[2] <= other[2]
    BY <1>3 DEF SolveToOptimality, StopSolving, ProveInfeasible
  <2>4. ilpStatus' = "INFEASIBLE" => ilpModel = {}
    BY <1>3 DEF SolveToOptimality, StopSolving, ProveInfeasible
  <2> QED
    BY <2>1, <2>2, <2>3, <2>4
<1>4. CASE UNCHANGED ilpVars
  <2>1. /\ ilpInstance' = ilpInstance /\ ilpFormulation' = ilpFormulation
        /\ ilpWindows' = ilpWindows /\ ilpModel' = ilpModel /\ ilpAnswer' = ilpAnswer
        /\ ilpStatus' = ilpStatus
    BY <1>4 DEF ilpVars
  <2>2. ilpStatus # "NEW" =>
          /\ WindowsOfInstance' /\ (LastDeadline(ilpInstance) \in 1 .. ILPHorizon)'
          /\ Ordinary(ilpInstance)'
    BY <2>1 DEF WindowsOfInstance
  <2> QED
    BY <2>1, <2>2
<1> QED
  BY <1>1, <1>2, <1>3, <1>4 DEF ILPNext

\* The best solution of the model is a best schedule.
LEMMA BestIsLeast == BestInv => OptimalIsLeastPeak
<1> SUFFICES ASSUME BestInv PROVE OptimalIsLeastPeak
  OBVIOUS
<1> DEFINE peaks == {Peak(ilpInstance, start) : start \in LagSchedules(ilpInstance)}
<1>1. ASSUME ilpStatus = "OPTIMAL"
      PROVE  ilpAnswer[2] = Min(peaks) /\ Peak(ilpInstance, ilpAnswer[1]) = Min(peaks)
  <2>1. /\ WindowsOfInstance /\ ilpAnswer \in ilpModel
        /\ \A other \in ilpModel : ilpAnswer[2] <= other[2]
        /\ \A m \in ilpModel : /\ m[1] \in LagSchedules(ilpInstance) /\ m[2] \in Nat
                               /\ Peak(ilpInstance, m[1]) <= m[2]
        /\ \A start \in LagSchedules(ilpInstance) :
             \E m \in ilpModel : m[2] \in Nat /\ m[2] <= Peak(ilpInstance, start)
    BY <1>1 DEF BestInv
  <2>2. ilpInstance \in LagInstance
    BY <2>1 DEF WindowsOfInstance
  <2>3. \A start \in LagSchedules(ilpInstance) : Peak(ilpInstance, start) \in Nat
    BY <2>2, InstanceTypes, PeakFacts
  <2>4. PICK own, bound : own = Peak(ilpInstance, ilpAnswer[1]) /\ bound = ilpAnswer[2]
    OBVIOUS
  <2>5. own \in peaks /\ own \in Nat /\ bound \in Nat /\ own <= bound
    BY <2>1, <2>3, <2>4
  <2>6. ASSUME NEW y \in peaks PROVE y \in Nat /\ bound <= y
    <3>1. PICK start \in LagSchedules(ilpInstance) : y = Peak(ilpInstance, start)
      BY <2>6
    <3>2. PICK m \in ilpModel : m[2] \in Nat /\ m[2] <= Peak(ilpInstance, start)
      BY <2>1, <3>1
    <3>3. bound <= m[2]
      BY <2>1, <2>4, <3>2
    <3> QED
      BY <2>3, <2>5, <3>1, <3>2, <3>3
  <2> HIDE DEF peaks
  <2>7. peaks \subseteq Int /\ peaks # {} /\ (\A y \in peaks : 0 <= y) /\ 0 \in Int
    BY <2>5, <2>6
  <2>8. Min(peaks) \in peaks /\ \A y \in peaks : Min(peaks) <= y
    BY <2>7, MinBounded, Zenon
  <2>9. Min(peaks) \in Nat /\ bound <= Min(peaks) /\ Min(peaks) <= own
    BY <2>5, <2>6, <2>8
  <2> QED
    BY <2>4, <2>5, <2>9
<1>2. ASSUME ilpStatus = "INFEASIBLE" PROVE peaks = {}
  <2>1. \A start \in LagSchedules(ilpInstance) : FALSE
    BY <1>2 DEF BestInv
  <2> QED
    BY <2>1
<1> HIDE DEF peaks
<1> QED
  BY <1>1, <1>2 DEF OptimalIsLeastPeak, peaks

\* In every formulation, what the MIP solver proves to be optimal has the least
\* peak of all feasible schedules, and only infeasible instances are called so:
\* no variable that is left out and no big-M constraint cuts off a schedule, if
\* all jobs take time and no lag is below minus the last deadline.
THEOREM OptimumIsLeast ==
  ASSUME OrdinaryCases PROVE ILPSpec => []OptimalIsLeastPeak
<1>1. ILPInit => BestInv
  BY DEF ILPInit, BestInv
<1>2. BestInv /\ [ILPNext]_ilpVars => BestInv'
  BY NextBestInv
<1>3. BestInv => OptimalIsLeastPeak
  BY BestIsLeast
<1> QED
  BY <1>1, <1>2, <1>3, PTL DEF ILPSpec

-----------------------------------------------------------------------------
(* Accepted solutions.                                                       *)

\* The parts of the assumption that the proofs use.
LEMMA SolutionTypes ==
  ASSUME NEW i \in SolutionCases
  PROVE  /\ i.release \in [Job -> Nat] /\ i.deadline \in [Job -> Nat]
         /\ i.duration \in [Job -> Nat] /\ i.usage \in [Job -> Nat]
         /\ i.lags \subseteq Lag
         /\ i.timeLimit \in Nat /\ i.jobLimit \in Nat
         /\ i.hardDeadline \in Nat \cup {NoDeadline}
  BY SolutionAssumption DEF ExtendedInstance

\* How far a job is outside of its window: not at all, or by a positive number.
LEMMA PositivePart ==
  ASSUME NEW x \in Int
  PROVE  /\ Max({0, x}) \in Nat
         /\ Max({0, x}) >= x
         /\ Max({0, x}) > 0 <=> x > 0
<1>1. PICK m \in {0, x} : \A y \in {0, x} : m >= y
  <2>1. CASE x >= 0
    BY <2>1
  <2>2. CASE x < 0
    BY <2>2
  <2>3. QED
    BY <2>1, <2>2
<1>2. /\ Max({0, x}) \in {0, x}
      /\ \A y \in {0, x} : Max({0, x}) >= y
  BY <1>1 DEF Max
<1>3. QED
  BY <1>2

\* The smaller of two numbers.
LEMMA MinOfTwo ==
  ASSUME NEW a \in Int, NEW b \in Int
  PROVE  Min({a, b}) \in Int /\ Min({a, b}) <= a /\ Min({a, b}) <= b
<1>1. PICK m \in {a, b} : \A y \in {a, b} : m <= y
  <2>1. CASE a <= b
    BY <2>1
  <2>2. CASE b < a
    BY <2>2
  <2>3. QED
    BY <2>1, <2>2
<1>2. /\ Min({a, b}) \in {a, b}
      /\ \A y \in {a, b} : Min({a, b}) <= y
  BY <1>1 DEF Min
<1>3. QED
  BY <1>2

\* A job is early or late exactly if it leaves its window on that side.
LEMMA Outside ==
  ASSUME NEW i \in SolutionCases, NEW start \in [Job -> Nat], NEW v \in Job
  PROVE  /\ v \in Early(i, start) <=> start[v] < i.release[v]
         /\ v \in Late(i, start) <=> start[v] + i.duration[v] > i.deadline[v]
<1>1. /\ i.release[v] - start[v] \in Int
      /\ start[v] + i.duration[v] - i.deadline[v] \in Int
      /\ start[v] \in Nat /\ i.release[v] \in Nat
      /\ i.duration[v] \in Nat /\ i.deadline[v] \in Nat
  BY SolutionTypes
<1>2. v \in Early(i, start) <=> i.release[v] - start[v] > 0
  BY <1>1, PositivePart DEF Early, EarlyBy
<1>3. v \in Late(i, start) <=> start[v] + i.duration[v] - i.deadline[v] > 0
  BY <1>1, PositivePart DEF Late, LateBy
<1>4. QED
  BY <1>1, <1>2, <1>3

\* verify() looks for the faults of the windows first, then for those of the lags.
LEMMA ValidVerdict ==
  ASSUME NEW i \in SolutionCases, NEW start \in [Job -> Nat]
  PROVE  Verdict(i, start).valid <=>
           /\ WindowFault(i, start) = "none"
           /\ \A e \in i.lags : start[e[1]] + e[3] <= start[e[2]]
<1>1. \A e \in i.lags : /\ start[e[1]] + e[3] \in Int
                        /\ start[e[2]] \in Int
  BY SolutionTypes DEF Lag
<1>2. (\E e \in i.lags : start[e[1]] + e[3] > start[e[2]])
        <=> ~\A e \in i.lags : start[e[1]] + e[3] <= start[e[2]]
  BY <1>1
<1>3. QED
  BY <1>2 DEF Verdict, Rejected, Accepted

\* Without extensions verify() accepts the schedules that all other solvers are
\* judged by, and no others.
LEMMA VerifiedIsFeasible ==
  ASSUME NEW i \in SolutionCases, NEW start \in [Job -> Nat],
         i.timeLimit = 0, i.jobLimit = 0
  PROVE  Verdict(i, start).valid <=> LagFeasible(i, start)
<1>1. WindowFault(i, start) = "none" <=> Early(i, start) \cup Late(i, start) = {}
  BY DEF WindowFault
<1>2. Early(i, start) \subseteq Job /\ Late(i, start) \subseteq Job
  BY DEF Early, Late
<1>3. \A v \in Job : /\ start[v] \in Nat /\ i.release[v] \in Nat
                     /\ i.duration[v] \in Nat /\ i.deadline[v] \in Nat
  BY SolutionTypes
<1>4. Early(i, start) \cup Late(i, start) = {} <=>
        \A v \in Job : /\ i.release[v] <= start[v]
                       /\ start[v] + i.duration[v] <= i.deadline[v]
  BY <1>2, <1>3, Outside
<1>5. QED
  BY <1>1, <1>4, ValidVerdict DEF LagFeasible

\* A schedule of the model of DTILP extends a window in one direction only, so
\* that the two ways of counting extended jobs agree, and every switch-on step
\* leaves room before the hard deadline.
LEMMA DiscreteIsAccepted ==
  ASSUME NEW i \in SolutionCases, NEW start \in DiscreteSchedules(i),
         start \in [Job -> Nat]
  PROVE  Verdict(i, start).valid /\ InTime(i, start)
<1> DEFINE E == Early(i, start)
           L == Late(i, start)
<1>1. /\ \A v \in Job : start[v] \in SwitchOnSteps(i, v)
      /\ ExtensionsAllowed(i, start)
      /\ \A e \in i.lags : start[e[1]] + e[3] <= start[e[2]]
  BY DEF DiscreteSchedules
<1>2. /\ IsFiniteSet(E) /\ IsFiniteSet(L) /\ E \cap L = {}
      /\ Cardinality(E \cup L) <= i.jobLimit
      /\ WindowExtension(i, start) <= i.timeLimit
  <2>1. E \in SUBSET Job /\ L \in SUBSET Job
    BY DEF Early, Late
  <2>2. IsFiniteSet(E) /\ IsFiniteSet(L)
    BY <2>1, JobsFinite, FS_Subset
  <2>3. QED
    BY <1>1, <2>2 DEF ExtensionsAllowed
<1>3. /\ IsFiniteSet(E \cup L)
      /\ Cardinality(E) \in Nat /\ Cardinality(L) \in Nat
      /\ Cardinality(E \cup L) = Cardinality(E) + Cardinality(L)
  <2> HIDE DEF E, L
  <2>1. Cardinality(E) \in Nat /\ Cardinality(L) \in Nat
    BY <1>2, FS_CardinalityType
  <2>2. /\ IsFiniteSet(E \cup L)
        /\ Cardinality(E \cup L) = Cardinality(E) + Cardinality(L) - Cardinality(E \cap L)
    BY <1>2, FS_Union
  <2>3. Cardinality(E \cap L) = 0
    BY <1>2, FS_EmptySet
  <2>4. QED
    BY <2>1, <2>2, <2>3
<1>4. WindowFault(i, start) = "none"
  <2>1. CASE i.timeLimit = 0 /\ i.jobLimit = 0
    <3>1. Cardinality(E \cup L) = 0
      BY <1>2, <1>3, <2>1
    <3>2. E \cup L = {}
      BY <1>3, <3>1, FS_EmptySet
    <3>3. QED
      BY <2>1, <3>2 DEF WindowFault
  <2>2. CASE ~(i.timeLimit = 0 /\ i.jobLimit = 0)
    <3>1. ExtendedJobs(i, start) <= i.jobLimit
      BY <1>2, <1>3 DEF ExtendedJobs
    <3>2. QED
      BY <1>2, <2>2, <3>1 DEF WindowFault
  <2>3. QED
    BY <2>1, <2>2
<1>5. InTime(i, start)
  <2> SUFFICES ASSUME i.hardDeadline # NoDeadline, NEW v \in Job
               PROVE  start[v] + i.duration[v] <= i.hardDeadline
    BY DEF InTime
  <2> DEFINE finish == i.deadline[v] + i.timeLimit
             last == Min({finish, i.hardDeadline})
  <2>1. finish \in Int /\ i.hardDeadline \in Int /\ i.duration[v] \in Nat
    BY SolutionTypes
  <2>2. last \in Int /\ last <= i.hardDeadline
    BY <2>1, MinOfTwo
  <2>3. start[v] <= last - i.duration[v] /\ start[v] \in Nat
    <3>1. Max({0, i.release[v] - i.timeLimit}) \in Int
      BY SolutionTypes, PositivePart
    <3>2. SwitchOnSteps(i, v)
            = Max({0, i.release[v] - i.timeLimit}) .. last - i.duration[v]
      BY DEF SwitchOnSteps, FirstStep, LastStep
    <3> HIDE DEF last
    <3>3. start[v] \in Max({0, i.release[v] - i.timeLimit}) .. last - i.duration[v]
      BY <1>1, <3>2
    <3>4. QED
      BY <2>1, <2>2, <3>1, <3>3
  <2>4. QED
    BY <2>1, <2>2, <2>3
<1>6. QED
  BY <1>1, <1>4, <1>5, ValidVerdict

-----------------------------------------------------------------------------
\* The inductive invariant: where the start times are from, and that the verdict
\* is about them.
SolutionInv ==
  /\ solInstance \in SolutionCases
  /\ solStart \in [Job -> Nat]
  /\ solPhase = "none" => solSource = "any"
  /\ solSource = "DTILP" /\ solPhase \notin {"infeasible", "failed"}
       => solStart \in DiscreteSchedules(solInstance)
  /\ solPhase = "verified" => solVerdict = Verdict(solInstance, solStart)

\* Nothing that verify() accepts, where windows may not be extended, is outside of
\* the feasible schedules that the searches of the other solvers are about.
AcceptedIsFeasible ==
  solPhase = "verified" /\ solInstance.timeLimit = 0 /\ solInstance.jobLimit = 0
    => (solVerdict.valid <=> LagFeasible(solInstance, solStart))

\* The runner never throws away what DTILP returns, and though verify() does not
\* reject it for that, it never ends after the hard deadline.
DiscreteIsStored ==
  solPhase = "verified" /\ solSource = "DTILP"
    => solVerdict.valid /\ InTime(solInstance, solStart)

\* The horizon is a number.
LEMMA HorizonType ==
  ASSUME NEW i \in SolutionCases, NEW start \in [Job -> 0 .. Horizon(i)]
  PROVE  start \in [Job -> Nat]
  OBVIOUS

\* The invariant holds before a solver has run.
LEMMA InitSolutionInv == SolutionInit => SolutionInv
  BY SolutionAssumption DEF SolutionInit, SolutionInv

\* Start times change only with the solver, and the verdict comes last.
LEMMA NextSolutionInv == SolutionInv /\ [SolutionNext]_solutionVars => SolutionInv'
<1> SUFFICES ASSUME SolutionInv, [SolutionNext]_solutionVars PROVE SolutionInv'
  OBVIOUS
<1> USE DEF SolutionInv
<1>1. CASE TakeSchedule
  BY <1>1, HorizonType DEF TakeSchedule
<1>2. CASE SolveDTILP
  <2>1. PICK i \in SolutionCases :
          /\ solInstance' = i
          /\ \/ solPhase' \in {"infeasible", "failed"} /\ UNCHANGED solStart
             \/ solPhase' = "solved" /\ solStart' \in DiscreteSchedules(i)
    BY <1>2 DEF SolveDTILP
  <2>2. solStart' \in DiscreteSchedules(i) => solStart' \in [Job -> Nat]
    BY HorizonType DEF DiscreteSchedules
  <2>3. QED
    BY <2>1, <2>2
<1>3. CASE SortEvents
  BY <1>3 DEF SortEvents
<1>4. CASE HandleEvent
  BY <1>4 DEF HandleEvent
<1>5. CASE InvestmentCosts
  BY <1>5 DEF InvestmentCosts
<1>6. CASE Verify
  BY <1>6 DEF Verify
<1>7. CASE UNCHANGED solutionVars
  BY <1>7 DEF solutionVars
<1>8. QED
  BY <1>1, <1>2, <1>3, <1>4, <1>5, <1>6, <1>7 DEF SolutionNext

\* The invariant holds in every reachable state.
LEMMA SolutionInvariant == SolutionSpec => []SolutionInv
  BY InitSolutionInv, NextSolutionInv, PTL DEF SolutionSpec

\* verify(), as far as no extension is allowed, is what LagFeasible says.
THEOREM VerifyIsFeasibility == SolutionSpec => []AcceptedIsFeasible
<1>1. SolutionInv => AcceptedIsFeasible
  BY VerifiedIsFeasible DEF SolutionInv, AcceptedIsFeasible
<1>2. QED
  BY <1>1, SolutionInvariant, PTL

\* DTILP and verify() agree on the extensions of the windows.
THEOREM DiscreteSolutionsPass == SolutionSpec => []DiscreteIsStored
<1>1. SolutionInv => DiscreteIsStored
  BY DiscreteIsAccepted DEF SolutionInv, DiscreteIsStored
<1>2. QED
  BY <1>1, SolutionInvariant, PTL

-----------------------------------------------------------------------------
(* Extensions of the windows                                               *)

\* The positive part of a number is its least bound among the natural numbers.
LEMMA PositiveBelow ==
  ASSUME NEW x \in Int, NEW bound \in Nat, x <= bound
  PROVE  Max({0, x}) <= bound
<1>1. PICK m \in {0, x} : \A y \in {0, x} : m >= y
  <2>1. CASE x >= 0
    BY <2>1
  <2>2. CASE x < 0
    BY <2>2
  <2>3. QED
    BY <2>1, <2>2
<1>2. Max({0, x}) \in {0, x}
  BY <1>1 DEF Max
<1> QED
  BY <1>2

\* How far the window of a job has to be extended in all.
Outsides(i, start) == [v \in Job |-> EarlyBy(i, start, v) + LateBy(i, start, v)]

LEMMA OutsideFacts ==
  ASSUME NEW i \in SolutionCases, NEW start \in [Job -> Nat]
  PROVE  \A v \in Job : /\ EarlyBy(i, start, v) \in Nat /\ LateBy(i, start, v) \in Nat
                        /\ Outsides(i, start)[v] = EarlyBy(i, start, v) + LateBy(i, start, v)
                        /\ i.release[v] - EarlyBy(i, start, v) <= start[v]
                        /\ start[v] + i.duration[v] <= i.deadline[v] + LateBy(i, start, v)
                        /\ v \in Early(i, start) <=> EarlyBy(i, start, v) # 0
                        /\ v \in Late(i, start) <=> LateBy(i, start, v) # 0
<1> TAKE v \in Job
<1>1. /\ start[v] \in Nat /\ i.release[v] \in Nat
      /\ i.duration[v] \in Nat /\ i.deadline[v] \in Nat
  BY SolutionTypes
<1>2. /\ i.release[v] - start[v] \in Int
      /\ start[v] + i.duration[v] - i.deadline[v] \in Int
  BY <1>1
<1>3. /\ EarlyBy(i, start, v) \in Nat /\ EarlyBy(i, start, v) >= i.release[v] - start[v]
  BY <1>2, PositivePart DEF EarlyBy
<1>4. /\ LateBy(i, start, v) \in Nat
      /\ LateBy(i, start, v) >= start[v] + i.duration[v] - i.deadline[v]
  BY <1>2, PositivePart DEF LateBy
<1>5. v \in Early(i, start) <=> EarlyBy(i, start, v) # 0
  BY <1>3 DEF Early
<1>6. v \in Late(i, start) <=> LateBy(i, start, v) # 0
  BY <1>4 DEF Late
<1>7. Outsides(i, start)[v] = EarlyBy(i, start, v) + LateBy(i, start, v)
  BY DEF Outsides
<1> QED
  BY <1>1, <1>3, <1>4, <1>5, <1>6, <1>7

LEMMA ExtensionIsSum ==
  ASSUME NEW i, NEW start
  PROVE  WindowExtension(i, start) = SumOf(Outsides(i, start), Job)
  BY DEF WindowExtension, SumOver, SumOf, Outsides

\* Both sides of a window at once are never left by a job that fits in it.
LEMMA OneSide ==
  ASSUME NEW i \in SolutionCases, NEW start \in [Job -> Nat]
  PROVE  /\ Early(i, start) \cap Late(i, start) = {}
         /\ IsFiniteSet(Early(i, start) \cup Late(i, start))
         /\ Cardinality(Early(i, start) \cup Late(i, start)) = ExtendedJobs(i, start)
         /\ ExtendedJobs(i, start) \in Nat
<1> DEFINE E == Early(i, start)
           L == Late(i, start)
<1>1. E \in SUBSET Job /\ L \in SUBSET Job
  BY DEF Early, Late
<1>2. IsFiniteSet(E) /\ IsFiniteSet(L)
  BY <1>1, JobsFinite, FS_Subset
<1>3. E \cap L = {}
  <2> SUFFICES ASSUME NEW v \in Job, v \in E, v \in L PROVE FALSE
    BY <1>1
  <2>1. start[v] < i.release[v] /\ start[v] + i.duration[v] > i.deadline[v]
    BY Outside
  <2>2. i.duration[v] <= i.deadline[v] - i.release[v]
    BY SolutionAssumption
  <2>3. start[v] \in Nat /\ i.release[v] \in Nat /\ i.duration[v] \in Nat /\ i.deadline[v] \in Nat
    BY SolutionTypes
  <2> QED
    BY <2>1, <2>2, <2>3
<1> HIDE DEF E, L
<1>4. Cardinality(E \cup L) = Cardinality(E) + Cardinality(L) - Cardinality(E \cap L)
      /\ IsFiniteSet(E \cup L)
  BY <1>2, FS_Union
<1>5. Cardinality(E) \in Nat /\ Cardinality(L) \in Nat /\ Cardinality(E \cap L) = 0
  BY <1>2, <1>3, FS_EmptySet, FS_CardinalityType
<1>6. Cardinality(E \cup L) = Cardinality(E) + Cardinality(L)
  BY <1>4, <1>5
<1> QED
  BY <1>3, <1>4, <1>5, <1>6 DEF ExtendedJobs, E, L

\* In all cases, verify() compares the same two sums with the limits.
LEMMA WindowsAccepted ==
  ASSUME NEW i \in SolutionCases, NEW start \in [Job -> Nat]
  PROVE  WindowFault(i, start) = "none" <=>
           /\ SumOf(Outsides(i, start), Job) <= i.timeLimit
           /\ ExtendedJobs(i, start) <= i.jobLimit
<1> DEFINE E == Early(i, start)
           L == Late(i, start)
           total == SumOf(Outsides(i, start), Job)
<1>1. \A v \in Job : /\ EarlyBy(i, start, v) \in Nat /\ LateBy(i, start, v) \in Nat
                     /\ Outsides(i, start)[v] = EarlyBy(i, start, v) + LateBy(i, start, v)
                     /\ v \in E <=> EarlyBy(i, start, v) # 0
                     /\ v \in L <=> LateBy(i, start, v) # 0
  BY OutsideFacts
<1>2. i.timeLimit \in Nat /\ i.jobLimit \in Nat /\ ExtendedJobs(i, start) \in Nat
  BY SolutionTypes, OneSide
<1>3. total \in Nat /\ WindowExtension(i, start) = total
  <2>1. \A v \in Job : Outsides(i, start)[v] \in Nat
    BY <1>1
  <2> QED
    BY <2>1, JobsFinite, SumsGrow, ExtensionIsSum
<1>4. CASE i.timeLimit = 0 /\ i.jobLimit = 0
  <2>1. WindowFault(i, start) = "none" <=> E \cup L = {}
    BY <1>4 DEF WindowFault
  <2>2. ExtendedJobs(i, start) = 0 <=> E \cup L = {}
    BY OneSide, FS_EmptySet
  <2>3. E \cup L = {} => total = 0
    <3> SUFFICES ASSUME E \cup L = {} PROVE total = 0
      OBVIOUS
    <3>1. PICK zero : zero = [v \in Job |-> 0]
      OBVIOUS
    <3>2. \A v \in Job : zero[v] \in Int /\ Outsides(i, start)[v] = zero[v]
      BY <1>1, <3>1
    <3>3. SumOf(zero, Job) = total
      BY <3>2, JobsFinite, SumsEqual
    <3>4. SumOf(zero, Job) = 0
      BY <3>1, JobsFinite, SumOfZeros
    <3> QED
      BY <3>3, <3>4
  <2> HIDE DEF E, L, total
  <2> QED
    BY <1>2, <1>3, <1>4, <2>1, <2>2, <2>3 DEF total
<1>5. CASE ~ (i.timeLimit = 0 /\ i.jobLimit = 0)
  <2>1. WindowFault(i, start) = "none" <=>
          /\ WindowExtension(i, start) <= i.timeLimit
          /\ ExtendedJobs(i, start) <= i.jobLimit
    BY <1>5 DEF WindowFault
  <2> QED
    BY <1>3, <2>1
<1> QED
  BY <1>4, <1>5

\* The extensions that a schedule needs are the least that let it pass.
LEMMA AcceptedIsExtensible ==
  ASSUME NEW i \in SolutionCases, NEW start \in [Job -> Nat],
         SumOf(Outsides(i, start), Job) <= i.timeLimit,
         ExtendedJobs(i, start) <= i.jobLimit,
         \A e \in i.lags : start[e[1]] + e[3] <= start[e[2]]
  PROVE  Extended(i, start)
<1> DEFINE by == [v \in Job |-> <<EarlyBy(i, start, v), LateBy(i, start, v)>>]
           wide == [i EXCEPT !.release = [v \in Job |-> i.release[v] - by[v][1]],
                             !.deadline = [v \in Job |-> i.deadline[v] + by[v][2]]]
           total == SumOf(Outsides(i, start), Job)
<1>1. \A v \in Job : /\ EarlyBy(i, start, v) \in Nat /\ LateBy(i, start, v) \in Nat
                     /\ Outsides(i, start)[v] = EarlyBy(i, start, v) + LateBy(i, start, v)
                     /\ i.release[v] - EarlyBy(i, start, v) <= start[v]
                     /\ start[v] + i.duration[v] <= i.deadline[v] + LateBy(i, start, v)
                     /\ v \in Early(i, start) <=> EarlyBy(i, start, v) # 0
                     /\ v \in Late(i, start) <=> LateBy(i, start, v) # 0
  BY OutsideFacts
<1>2. \A v \in Job : by[v][1] = EarlyBy(i, start, v) /\ by[v][2] = LateBy(i, start, v)
                     /\ by[v] = <<EarlyBy(i, start, v), LateBy(i, start, v)>>
  OBVIOUS
<1>3. i \in ExtendedInstance
  BY SolutionAssumption
<1>4. \A v \in Job : EarlyBy(i, start, v) <= i.timeLimit /\ LateBy(i, start, v) <= i.timeLimit
  <2> TAKE v \in Job
  <2>1. IsFiniteSet(Job) /\ \A u \in Job : Outsides(i, start)[u] \in Nat
    BY <1>1, JobsFinite
  <2>2. total = Outsides(i, start)[v] + SumOf(Outsides(i, start), Job \ {v})
    BY <2>1, SumWithout
  <2>3. SumOf(Outsides(i, start), Job \ {v}) \in Nat
    <3>1. Job \ {v} \in SUBSET Job
      OBVIOUS
    <3> QED
      BY <2>1, <3>1, SumsGrow
  <2>4. i.timeLimit \in Nat
    BY SolutionTypes
  <2> HIDE DEF by, wide
  <2> QED
    BY <1>1, <2>2, <2>3, <2>4
<1>5. by \in [Job -> (0 .. i.timeLimit) \X (0 .. i.timeLimit)]
  <2>1. i.timeLimit \in Nat
    BY SolutionTypes
  <2>2. \A v \in Job : EarlyBy(i, start, v) \in 0 .. i.timeLimit
                       /\ LateBy(i, start, v) \in 0 .. i.timeLimit
    BY <1>1, <1>4, <2>1
  <2> QED
    BY <2>2
<1>6. SumOver([v \in Job |-> by[v][1] + by[v][2]], Job) = total
  <2>1. \A v \in Job : Outsides(i, start)[v] = by[v][1] + by[v][2]
    BY <1>1, <1>2
  <2> HIDE DEF by
  <2>2. [v \in Job |-> by[v][1] + by[v][2]] = Outsides(i, start)
    BY <2>1 DEF Outsides
  <2>3. SumOver(Outsides(i, start), Job) = SumOf(Outsides(i, start), Job)
    BY DEF SumOver, SumOf
  <2> QED
    BY <2>2, <2>3
<1>7. {v \in Job : by[v] # <<0, 0>>} = Early(i, start) \cup Late(i, start)
  <2>1. Early(i, start) \subseteq Job /\ Late(i, start) \subseteq Job
    BY DEF Early, Late
  <2>2. \A v \in Job : by[v] # <<0, 0>> <=> v \in Early(i, start) \cup Late(i, start)
    BY <1>1, <1>2
  <2> HIDE DEF by
  <2> QED
    BY <2>1, <2>2
<1>8. Cardinality({v \in Job : by[v] # <<0, 0>>}) <= i.jobLimit
  BY <1>7, OneSide
<1>9. LagFeasible(wide, start)
  <2>1. /\ wide.release = [v \in Job |-> i.release[v] - by[v][1]]
        /\ wide.deadline = [v \in Job |-> i.deadline[v] + by[v][2]]
        /\ wide.duration = i.duration /\ wide.lags = i.lags
    BY <1>3 DEF ExtendedInstance
  <2> HIDE DEF wide, by
  <2>2. \A v \in Job : /\ wide.release[v] = i.release[v] - EarlyBy(i, start, v)
                       /\ wide.deadline[v] = i.deadline[v] + LateBy(i, start, v)
    BY <1>2, <2>1
  <2>3. \A v \in Job : /\ wide.release[v] <= start[v]
                       /\ start[v] + wide.duration[v] <= wide.deadline[v]
    BY <1>1, <2>1, <2>2
  <2> QED
    BY <2>1, <2>3 DEF LagFeasible
<1> HIDE DEF by
<1> QED
  BY <1>5, <1>6, <1>8, <1>9 DEF Extended

\* And what any extensions let pass needs no more than they allow.
LEMMA ExtensibleIsAccepted ==
  ASSUME NEW i \in SolutionCases, NEW start \in [Job -> Nat], Extended(i, start)
  PROVE  /\ SumOf(Outsides(i, start), Job) <= i.timeLimit
         /\ ExtendedJobs(i, start) <= i.jobLimit
         /\ \A e \in i.lags : start[e[1]] + e[3] <= start[e[2]]
<1>1. PICK by \in [Job -> (0 .. i.timeLimit) \X (0 .. i.timeLimit)] :
        /\ SumOver([v \in Job |-> by[v][1] + by[v][2]], Job) <= i.timeLimit
        /\ Cardinality({v \in Job : by[v] # <<0, 0>>}) <= i.jobLimit
        /\ LagFeasible([i EXCEPT !.release = [v \in Job |-> i.release[v] - by[v][1]],
                                 !.deadline = [v \in Job |-> i.deadline[v] + by[v][2]]],
                       start)
  BY DEF Extended
<1> DEFINE wide == [i EXCEPT !.release = [v \in Job |-> i.release[v] - by[v][1]],
                             !.deadline = [v \in Job |-> i.deadline[v] + by[v][2]]]
           widened == {v \in Job : by[v] # <<0, 0>>}
           E == Early(i, start)
           L == Late(i, start)
<1>2. i.timeLimit \in Nat /\ i.jobLimit \in Nat
  BY SolutionTypes
<1>3. \A v \in Job : /\ by[v] \in (0 .. i.timeLimit) \X (0 .. i.timeLimit)
                     /\ by[v][1] \in Nat /\ by[v][2] \in Nat
                     /\ by[v] = <<0, 0>> <=> by[v][1] = 0 /\ by[v][2] = 0
  <2> TAKE v \in Job
  <2>1. by[v] \in (0 .. i.timeLimit) \X (0 .. i.timeLimit)
    OBVIOUS
  <2>2. by[v][1] \in 0 .. i.timeLimit /\ by[v][2] \in 0 .. i.timeLimit
        /\ by[v] = <<by[v][1], by[v][2]>>
    BY <2>1
  <2> QED
    BY <1>2, <2>1, <2>2
<1>4. /\ wide.release = [v \in Job |-> i.release[v] - by[v][1]]
      /\ wide.deadline = [v \in Job |-> i.deadline[v] + by[v][2]]
      /\ wide.duration = i.duration /\ wide.lags = i.lags
  BY SolutionAssumption DEF ExtendedInstance
<1>5. LagFeasible(wide, start)
  BY <1>1
<1> HIDE DEF wide
<1>6. /\ \A v \in Job : /\ i.release[v] - by[v][1] <= start[v]
                        /\ start[v] + i.duration[v] <= i.deadline[v] + by[v][2]
      /\ \A e \in i.lags : start[e[1]] + e[3] <= start[e[2]]
  BY <1>4, <1>5 DEF LagFeasible
<1>7. \A v \in Job : /\ EarlyBy(i, start, v) \in Nat /\ LateBy(i, start, v) \in Nat
                     /\ Outsides(i, start)[v] = EarlyBy(i, start, v) + LateBy(i, start, v)
                     /\ v \in E <=> EarlyBy(i, start, v) # 0
                     /\ v \in L <=> LateBy(i, start, v) # 0
  BY OutsideFacts
<1>8. \A v \in Job : EarlyBy(i, start, v) <= by[v][1] /\ LateBy(i, start, v) <= by[v][2]
  <2> TAKE v \in Job
  <2>1. /\ start[v] \in Nat /\ i.release[v] \in Nat
        /\ i.duration[v] \in Nat /\ i.deadline[v] \in Nat
    BY SolutionTypes
  <2>2. i.release[v] - start[v] \in Int /\ i.release[v] - start[v] <= by[v][1]
        /\ start[v] + i.duration[v] - i.deadline[v] \in Int
        /\ start[v] + i.duration[v] - i.deadline[v] <= by[v][2]
        /\ by[v][1] \in Nat /\ by[v][2] \in Nat
    BY <1>3, <1>6, <2>1
  <2>3. EarlyBy(i, start, v) <= by[v][1]
    BY <2>2, PositiveBelow DEF EarlyBy
  <2>4. LateBy(i, start, v) <= by[v][2]
    BY <2>2, PositiveBelow DEF LateBy
  <2> QED
    BY <2>3, <2>4
<1>9. SumOf(Outsides(i, start), Job) <= i.timeLimit
  <2> DEFINE f == [v \in Job |-> by[v][1] + by[v][2]]
  <2>1. \A v \in Job : f[v] = by[v][1] + by[v][2]
    OBVIOUS
  <2> HIDE DEF f
  <2>2. \A v \in Job : /\ f[v] \in Int /\ Outsides(i, start)[v] \in Int
                       /\ Outsides(i, start)[v] <= f[v]
    BY <1>3, <1>7, <1>8, <2>1
  <2>3. SumOf(Outsides(i, start), Job) <= SumOf(f, Job)
    BY <2>2, JobsFinite, SumsOrdered
  <2>4. SumOver([v \in Job |-> by[v][1] + by[v][2]], Job) = SumOf(f, Job)
    BY DEF SumOver, SumOf, f
  <2>5. SumOf(Outsides(i, start), Job) \in Int /\ SumOf(f, Job) \in Int
    BY <2>2, JobsFinite, SumPicks
  <2>6. SumOf(f, Job) <= i.timeLimit
    BY <1>1, <2>4
  <2> QED
    BY <1>2, <2>3, <2>5, <2>6
<1>10. ExtendedJobs(i, start) <= i.jobLimit
  <2>1. E \cup L \in SUBSET widened
    <3>1. E \subseteq Job /\ L \subseteq Job
      BY DEF Early, Late
    <3>2. ASSUME NEW v \in Job, v \in E \/ v \in L PROVE by[v] # <<0, 0>>
      BY <1>3, <1>7, <1>8, <3>2
    <3> HIDE DEF E, L
    <3> QED
      BY <3>1, <3>2
  <2>2. widened \in SUBSET Job
    OBVIOUS
  <2>3. Cardinality(widened) <= i.jobLimit
    BY <1>1
  <2> HIDE DEF widened
  <2>4. IsFiniteSet(widened)
    BY <2>2, JobsFinite, FS_Subset
  <2>5. Cardinality(E \cup L) <= Cardinality(widened) /\ Cardinality(widened) \in Nat
    BY <2>1, <2>4, FS_Subset, FS_CardinalityType
  <2>6. Cardinality(E \cup L) = ExtendedJobs(i, start) /\ ExtendedJobs(i, start) \in Nat
    BY OneSide
  <2> QED
    BY <1>2, <2>3, <2>5, <2>6
<1> QED
  BY <1>6, <1>9, <1>10

(***************************************************************************)
(* verify() is the notion of feasibility that the extensions mean, for any *)
(* number of jobs and any limits: counting the steps by which the windows  *)
(* are left, and the jobs that leave them, decides whether the windows can *)
(* be extended within both limits.                                         *)
(***************************************************************************)
THEOREM VerifyDecidesExtensions == SolutionSpec => []VerifiedIfExtensible
<1>1. SolutionInv => VerifiedIfExtensible
  <2> SUFFICES ASSUME SolutionInv, solPhase = "verified"
               PROVE  solVerdict.valid <=> Extended(solInstance, solStart)
    BY DEF VerifiedIfExtensible
  <2>1. /\ solInstance \in SolutionCases /\ solStart \in [Job -> Nat]
        /\ solVerdict = Verdict(solInstance, solStart)
    BY DEF SolutionInv
  <2>2. Verdict(solInstance, solStart).valid <=>
          /\ SumOf(Outsides(solInstance, solStart), Job) <= solInstance.timeLimit
          /\ ExtendedJobs(solInstance, solStart) <= solInstance.jobLimit
          /\ \A e \in solInstance.lags : solStart[e[1]] + e[3] <= solStart[e[2]]
    BY <2>1, ValidVerdict, WindowsAccepted
  <2> QED
    BY <2>1, <2>2, AcceptedIsExtensible, ExtensibleIsAccepted
<1> QED
  BY <1>1, SolutionInvariant, PTL

-----------------------------------------------------------------------------
(* Polynomials and step functions                                            *)

\* What a recursion of n rounds computes if each number is found in H.
PowerBy(g, x, n) ==
  /\ Power(x, n) = g[n]
  /\ g[0] = 1
  /\ \A k \in 1 .. n : g[k] = x * g[k - 1]

\* Such numbers exist.
LEMMA PowerRounds ==
  ASSUME NEW x \in Int, NEW n \in Nat
  PROVE  \E g : PowerBy(g, x, n)
<1> DEFINE Folded(g) == g = [k \in 0 .. n |-> IF k = 0 THEN 1 ELSE x * g[k - 1]]
           g == CHOOSE g : Folded(g)
           step == [y \in Int |-> x * y]
<1>1. Power(x, n) = g[n]
  BY DEF Power
<1>2. step \in [Int -> Int] /\ 1 \in Int
  BY DEF step
<1>3. PICK f \in [0 .. n -> Int] : Repeats(f, 1, step, n)
  <2> HIDE DEF step
  <2> QED
    BY <1>2, Iterates
<1> HIDE DEF step
<1>4. f[0] = 1 /\ \A k \in 1 .. n : f[k] = x * f[k - 1]
  <2>1. f[0] = 1 /\ \A k \in 1 .. n : f[k] = step[f[k - 1]]
    <3>1. \A k \in 1 .. n : k \in 0 .. n /\ k # 0
      OBVIOUS
    <3>2. 0 \in 0 .. n
      OBVIOUS
    <3> QED
      BY <1>3, <3>1, <3>2 DEF Repeats
  <2>2. \A k \in 1 .. n : f[k - 1] \in Int
    <3>1. \A k \in 1 .. n : k - 1 \in 0 .. n
      OBVIOUS
    <3> QED
      BY <1>3, <3>1
  <2> QED
    BY <2>1, <2>2 DEF step
<1>5. Folded(f)
  <2>1. ASSUME NEW k \in 0 .. n PROVE f[k] = IF k = 0 THEN 1 ELSE x * f[k - 1]
    <3>1. k = 0 \/ k \in 1 .. n
      OBVIOUS
    <3> QED
      BY <1>4, <3>1
  <2> QED
    BY <1>3, <2>1
<1>6. Folded(g)
  <2> HIDE DEF Folded
  <2> QED
    BY <1>5
<1> HIDE DEF g
<1>7. g[0] = 1 /\ \A k \in 1 .. n : g[k] = x * g[k - 1]
  <2>1. 0 \in 0 .. n /\ \A k \in 1 .. n : k \in 0 .. n /\ k # 0
    OBVIOUS
  <2> QED
    BY <1>6, <2>1
<1> QED
  BY <1>1, <1>7 DEF PowerBy

\* Powers are numbers, and the first is the number itself.
LEMMA PowerType ==
  ASSUME NEW x \in Int, NEW n \in Nat
  PROVE  Power(x, n) \in Int /\ (n = 1 => Power(x, n) = x)
<1>1. PICK g : PowerBy(g, x, n)
  BY PowerRounds
<1> DEFINE H == {k \in 0 .. n : g[k] \in Int}
<1>2. 0 \in H
  BY <1>1 DEF PowerBy
<1>3. \A k \in 1 .. n : k - 1 \in H => k \in H
  <2> TAKE k \in 1 .. n
  <2> HAVE k - 1 \in H
  <2>1. g[k] = x * g[k - 1] /\ g[k - 1] \in Int
    BY <1>1 DEF PowerBy
  <2> QED
    BY <2>1
<1>4. \A k \in 0 .. n : k \in H
  <2> HIDE DEF H
  <2> QED
    BY <1>2, <1>3, Induction
<1>5. n \in 0 .. n
  OBVIOUS
<1>6. n = 1 => Power(x, n) = x
  <2> HAVE n = 1
  <2>1. 1 \in 1 .. n /\ 1 - 1 = 0
    OBVIOUS
  <2>2. g[1] = x * g[0]
    BY <1>1, <2>1 DEF PowerBy
  <2> QED
    BY <1>1, <2>2 DEF PowerBy
<1> QED
  BY <1>1, <1>4, <1>5, <1>6 DEF PowerBy

\* So are the values of polynomials; a linear one without a constant term is 0 at 0.
LEMMA AppliedType ==
  ASSUME NEW poly \in Polynomial, NEW x \in Int
  PROVE  /\ Applied(poly, x) \in Int
         /\ x = 0 /\ (\A term \in poly : term[2] = 1) => Applied(poly, x) = 0
<1> DEFINE f == [term \in poly |-> term[1] * Power(x, term[2])]
<1>1. IsFiniteSet(poly) /\ \A term \in poly : term[1] \in Int /\ term[2] \in Nat
  BY DEF Polynomial
<1>2. \A term \in poly : f[term] = term[1] * Power(x, term[2]) /\ Power(x, term[2]) \in Int
  BY <1>1, PowerType
<1>3. Applied(poly, x) = SumOf(f, poly)
  BY DEF Applied, SumOver, SumOf
<1> HIDE DEF f
<1>4. \A term \in poly : f[term] \in Int
  BY <1>1, <1>2
<1>5. SumOf(f, poly) \in Int
  BY <1>1, <1>4, SumPicks
<1>6. x = 0 /\ (\A term \in poly : term[2] = 1) => SumOf(f, poly) = 0
  <2> HAVE x = 0 /\ (\A term \in poly : term[2] = 1)
  <2>1. ASSUME NEW term \in poly PROVE f[term] = 0
    <3>1. term[2] = 1 /\ term[2] \in Nat /\ term[1] \in Int
      BY <1>1
    <3>2. Power(x, term[2]) = 0
      BY <3>1, PowerType
    <3> QED
      BY <1>2, <3>1, <3>2
  <2> QED
    BY <1>1, <2>1, SumOfZeros
<1> QED
  BY <1>3, <1>5, <1>6

\* The sum of two polynomials is one.
LEMMA AddPolyType ==
  ASSUME NEW p \in Polynomial, NEW q \in Polynomial
  PROVE  AddPoly(p, q) \in Polynomial
<1> DEFINE C(r, e) == Coefficient(r, e)
           term == [x \in p \cup q |-> <<C(p, x[2]) + C(q, x[2]), x[2]>>]
           all == {<<C(p, x[2]) + C(q, x[2]), x[2]>> : x \in p \cup q}
<1>1. ASSUME NEW r \in Polynomial, NEW e PROVE C(r, e) \in Int
  <2> DEFINE f == [x \in r |-> x[1]]
             S == {x \in r : x[2] = e}
  <2>1. S \in SUBSET r /\ IsFiniteSet(r)
    BY DEF Polynomial
  <2>2. \A x \in S : f[x] \in Int
    BY DEF Polynomial
  <2>3. C(r, e) = SumOf(f, S)
    BY DEF Coefficient, SumOver, SumOf
  <2> HIDE DEF f, S
  <2>4. IsFiniteSet(S)
    BY <2>1, FS_Subset
  <2> QED
    BY <2>2, <2>3, <2>4, SumPicks
<1>2. IsFiniteSet(p \cup q) /\ \A x \in p \cup q : x[2] \in Nat
  <2>1. IsFiniteSet(p \cup q)
    BY FS_Union DEF Polynomial
  <2> QED
    BY <2>1 DEF Polynomial
<1>3. all \subseteq Int \X Nat
  <2> HIDE DEF C
  <2>1. ASSUME NEW x \in p \cup q
        PROVE  <<C(p, x[2]) + C(q, x[2]), x[2]>> \in Int \X Nat
    BY <1>1, <1>2
  <2> QED
    BY <2>1
<1>4. IsFiniteSet(all)
  <2> HIDE DEF C
  <2>1. \A y \in all : \E x \in p \cup q : term[x] = y
    OBVIOUS
  <2>2. term \in [p \cup q -> all]
    OBVIOUS
  <2> HIDE DEF term, all
  <2>3. term \in Surjection(p \cup q, all)
    BY <2>1, <2>2 DEF Surjection
  <2> QED
    BY <1>2, <2>3, FS_Surjection
<1>5. AddPoly(p, q) \in SUBSET all
  BY DEF AddPoly
<1> HIDE DEF all
<1>6. IsFiniteSet(AddPoly(p, q))
  BY <1>4, <1>5, FS_Subset
<1> QED
  BY <1>3, <1>5, <1>6 DEF Polynomial

\* Where a step function is at a time.
LEMMA ValueFound ==
  ASSUME NEW points, NEW S, points \in Seq(Nat \X S), NEW pos \in Nat, NEW before \in S
  PROVE  ValueAt(points, pos, before) \in S
<1> DEFINE reached == {k \in DOMAIN points : points[k][1] <= pos}
<1>1. CASE reached = {}
  BY <1>1 DEF ValueAt
<1>2. CASE reached # {}
  <2>1. DOMAIN points = 1 .. Len(points) /\ Len(points) \in Nat
    OBVIOUS
  <2>2. reached \subseteq Int /\ \A k \in reached : k <= Len(points)
    BY <2>1
  <2>3. Max(reached) \in reached
    <3>1. Len(points) \in Int
      BY <2>1
    <3> HIDE DEF reached
    <3> QED
      BY <1>2, <2>2, <3>1, MaxBounded, Zenon
  <2>4. points[Max(reached)] \in Nat \X S
    BY <2>3
  <2> HIDE DEF reached
  <2>5. points[Max(reached)][2] \in S
    BY <2>4
  <2>6. ValueAt(points, pos, before) = points[Max(reached)][2]
    BY <1>2 DEF ValueAt, reached
  <2> QED
    BY <2>5, <2>6
<1> QED
  BY <1>1, <1>2

\* Availability and costs of an instance, at any time.
LEMMA CostTypes ==
  ASSUME NEW i \in SolutionCases, NEW t \in Nat
  PROVE  /\ AvailableAt(i, t) \in Nat
         /\ OvershootCosts(i, t) \in Polynomial
         /\ i.investment \in Polynomial
<1>1. /\ i.available \in Seq(Nat \X Nat) /\ i.flexible \in Seq(Nat \X Polynomial)
      /\ i.base \in Polynomial /\ i.investment \in Polynomial
  BY SolutionAssumption DEF ExtendedInstance
<1>2. AvailableAt(i, t) \in Nat
  BY <1>1, ValueFound DEF AvailableAt
<1>3. OvershootCosts(i, t) \in Polynomial
  <2> DEFINE points == [k \in DOMAIN i.flexible |->
                          <<i.flexible[k][1], AddPoly(i.base, i.flexible[k][2])>>]
  <2>1. DOMAIN i.flexible = 1 .. Len(i.flexible) /\ Len(i.flexible) \in Nat
    BY <1>1
  <2>2. ASSUME NEW k \in DOMAIN i.flexible
        PROVE  <<i.flexible[k][1], AddPoly(i.base, i.flexible[k][2])>> \in Nat \X Polynomial
    <3>1. i.flexible[k] \in Nat \X Polynomial
      BY <1>1, <2>2
    <3>2. i.flexible[k][1] \in Nat /\ i.flexible[k][2] \in Polynomial
      BY <3>1
    <3> QED
      BY <1>1, <3>2, AddPolyType
  <2>3. points \in [1 .. Len(i.flexible) -> Nat \X Polynomial]
    BY <2>1, <2>2
  <2> HIDE DEF points
  <2>4. points \in Seq(Nat \X Polynomial)
    BY <2>1, <2>3
  <2>5. ValueAt(points, t, i.base) \in Polynomial
    BY <1>1, <2>4, ValueFound
  <2> QED
    BY <2>5 DEF OvershootCosts, points
<1> QED
  BY <1>1, <1>2, <1>3

-----------------------------------------------------------------------------
(* The costs of a set of steps                                               *)

\* Where nothing is used, nothing is missing.
LEMMA BeyondType ==
  ASSUME NEW i \in SolutionCases, NEW start, NEW t \in Nat
  PROVE  /\ Beyond(i, start, t) \in Nat
         /\ UsageAt(i, start, t) = 0 => Beyond(i, start, t) = 0
<1>1. UsageAt(i, start, t) \in Nat
  BY SolutionTypes, UsageIsSum
<1>2. AvailableAt(i, t) \in Nat
  BY CostTypes
<1>3. UsageAt(i, start, t) - AvailableAt(i, t) \in Int
  BY <1>1, <1>2
<1>4. Beyond(i, start, t) \in Nat
      /\ (Beyond(i, start, t) > 0 <=> UsageAt(i, start, t) - AvailableAt(i, t) > 0)
  BY <1>3, PositivePart DEF Beyond
<1> QED
  BY <1>1, <1>2, <1>4

Charges(i, start) == [t \in Nat |-> Applied(OvershootCosts(i, t), Beyond(i, start, t))]
Over(i, start, S) == {t \in S : Beyond(i, start, t) > 0}

\* The costs are the sum of the charges over the steps where something is missing.
LEMMA CostsAreSums ==
  ASSUME NEW i \in SolutionCases, NEW start, NEW S \in SUBSET Nat, IsFiniteSet(S)
  PROVE  /\ CostsIn(i, start, S) = SumOf(Charges(i, start), Over(i, start, S))
         /\ CostsIn(i, start, S) \in Int
         /\ \A t \in S : Charges(i, start)[t] \in Int
         /\ Over(i, start, S) \in SUBSET S /\ IsFiniteSet(Over(i, start, S))
<1> DEFINE O == Over(i, start, S)
           f == Charges(i, start)
           g == [t \in O |-> Applied(OvershootCosts(i, t), Beyond(i, start, t))]
<1>1. O \in SUBSET S /\ IsFiniteSet(O)
  <2>1. O \in SUBSET S
    BY DEF Over
  <2> QED
    BY <2>1, FS_Subset
<1>2. \A t \in S : f[t] \in Int /\ f[t] = Applied(OvershootCosts(i, t), Beyond(i, start, t))
  <2> TAKE t \in S
  <2>1. f[t] = Applied(OvershootCosts(i, t), Beyond(i, start, t))
    BY DEF Charges
  <2>2. OvershootCosts(i, t) \in Polynomial /\ Beyond(i, start, t) \in Int
    BY CostTypes, BeyondType
  <2> QED
    BY <2>1, <2>2, AppliedType
<1>3. CostsIn(i, start, S) = SumOf(g, O)
  BY DEF CostsIn, SumOver, SumOf, Over
<1>4. \A t \in O : g[t] = Applied(OvershootCosts(i, t), Beyond(i, start, t))
  OBVIOUS
<1> HIDE DEF O, f, g
<1>5. \A t \in O : f[t] \in Int /\ g[t] = f[t]
  BY <1>1, <1>2, <1>4
<1>6. SumOf(f, O) = SumOf(g, O)
  BY <1>1, <1>5, SumsEqual
<1>7. SumOf(f, O) \in Int
  BY <1>1, <1>5, SumPicks
<1> QED
  BY <1>1, <1>2, <1>3, <1>6, <1>7 DEF O, f

\* The costs of two parts add up.
LEMMA CostsSplit ==
  ASSUME NEW i \in SolutionCases, NEW start, NEW S \in SUBSET Nat, IsFiniteSet(S),
         NEW T \in SUBSET S
  PROVE  CostsIn(i, start, S) = CostsIn(i, start, T) + CostsIn(i, start, S \ T)
<1> DEFINE f == Charges(i, start)
           O(X) == Over(i, start, X)
<1>1. /\ IsFiniteSet(T) /\ IsFiniteSet(S \ T) /\ S \ T \in SUBSET Nat /\ T \in SUBSET Nat
  BY FS_Subset, FS_Difference
<1>2. /\ CostsIn(i, start, S) = SumOf(f, O(S))
      /\ CostsIn(i, start, T) = SumOf(f, O(T))
      /\ CostsIn(i, start, S \ T) = SumOf(f, O(S \ T))
      /\ \A t \in S : f[t] \in Int
      /\ O(S) \in SUBSET S /\ IsFiniteSet(O(S))
  BY <1>1, CostsAreSums
<1>3. O(T) \subseteq O(S) /\ O(S) \ O(T) = O(S \ T)
  BY DEF Over
<1> HIDE DEF f, O
<1>4. SumOf(f, O(S)) = SumOf(f, O(T)) + SumOf(f, O(S) \ O(T))
  BY <1>2, <1>3, SumUnion
<1> QED
  BY <1>2, <1>3, <1>4

\* Where nothing is used, nothing is charged.
LEMMA CostsOfNothing ==
  ASSUME NEW i \in SolutionCases, NEW start, NEW S \in SUBSET Nat, IsFiniteSet(S),
         \A t \in S : UsageAt(i, start, t) = 0
  PROVE  CostsIn(i, start, S) = 0
<1>1. Over(i, start, S) = {}
  <2>1. \A t \in S : Beyond(i, start, t) = 0
    BY BeyondType
  <2>2. \A t \in S : ~(Beyond(i, start, t) > 0)
    BY <2>1
  <2> QED
    BY <2>2 DEF Over
<1>2. CostsIn(i, start, S) = SumOf(Charges(i, start), Over(i, start, S))
  BY CostsAreSums
<1> QED
  BY <1>1, <1>2, FS_EmptySet, SumPicks

-----------------------------------------------------------------------------
(* The sweep over the events                                                 *)

\* Every job has one event for its start and one for its end.
LEMMA EventFacts ==
  ASSUME NEW i \in SolutionCases, NEW start \in [Job -> Nat]
  PROVE  /\ \A v \in Job : /\ StartOf(start, v) \in AllEvents(i, start)
                           /\ EndOf(i, start, v) \in AllEvents(i, start)
                           /\ StartOf(start, v).at = start[v]
                           /\ EndOf(i, start, v).at = start[v] + i.duration[v]
                           /\ start[v] \in Nat /\ i.duration[v] \in Nat
         /\ \A u, v \in Job : /\ StartOf(start, u) # EndOf(i, start, v)
                              /\ StartOf(start, u) = StartOf(start, v) => u = v
                              /\ EndOf(i, start, u) = EndOf(i, start, v) => u = v
         /\ \A ev \in AllEvents(i, start) :
              /\ ev.at \in Nat
              /\ \E v \in Job : ev.job = v /\ (\/ ev = StartOf(start, v) /\ ev.start
                                               \/ ev = EndOf(i, start, v) /\ ~ ev.start)
<1>1. \A v \in Job : start[v] \in Nat /\ i.duration[v] \in Nat
  BY SolutionTypes
<1>2. \A v \in Job : /\ StartOf(start, v).at = start[v]
                     /\ StartOf(start, v).start = TRUE
                     /\ StartOf(start, v).job = v
                     /\ EndOf(i, start, v).at = start[v] + i.duration[v]
                     /\ EndOf(i, start, v).start = FALSE
                     /\ EndOf(i, start, v).job = v
  BY DEF StartOf, EndOf
<1>3. \A v \in Job : /\ StartOf(start, v) \in AllEvents(i, start)
                     /\ EndOf(i, start, v) \in AllEvents(i, start)
  BY DEF AllEvents
<1>4. \A ev \in AllEvents(i, start) :
        \E v \in Job : ev = StartOf(start, v) \/ ev = EndOf(i, start, v)
  BY DEF AllEvents
<1>5. \A u, v \in Job : /\ StartOf(start, u) # EndOf(i, start, v)
                        /\ StartOf(start, u) = StartOf(start, v) => u = v
                        /\ EndOf(i, start, u) = EndOf(i, start, v) => u = v
  BY <1>2
<1>6. ASSUME NEW ev \in AllEvents(i, start)
      PROVE  /\ ev.at \in Nat
             /\ \E v \in Job : ev.job = v /\ (\/ ev = StartOf(start, v) /\ ev.start
                                              \/ ev = EndOf(i, start, v) /\ ~ ev.start)
  <2>1. PICK v \in Job : ev = StartOf(start, v) \/ ev = EndOf(i, start, v)
    BY <1>4
  <2>2. start[v] + i.duration[v] \in Nat /\ start[v] \in Nat
    BY <1>1
  <2> QED
    BY <1>2, <2>1, <2>2
<1> QED
  BY <1>1, <1>2, <1>3, <1>5, <1>6

Begun(start, E) == {v \in Job : StartOf(start, v) \notin E}
Ended(i, start, E) == {v \in Job : EndOf(i, start, v) \notin E}

\* The events of E are still to come after the last one, which was at the time
\* "last"; the current usage is that of the jobs that have begun and not ended.
SweepAt(i, start, E, last, current) ==
  /\ E \subseteq AllEvents(i, start)
  /\ \E e \in AllEvents(i, start) : last = e.at
  /\ current = SumOf(i.usage, Begun(start, E)) - SumOf(i.usage, Ended(i, start, E))
  /\ \A e \in E : last <= e.at
  /\ \A e \in AllEvents(i, start) : e \notin E => e.at <= last

\* Between two events, the current usage is the usage.  A job of no duration ends
\* before it begins, at the same time.
LEMMA CurrentIsUsage ==
  ASSUME NEW i \in SolutionCases, NEW start \in [Job -> Nat],
         NEW E, NEW last, NEW current, SweepAt(i, start, E, last, current),
         NEW t \in Nat, last <= t, \A e \in E : t < e.at
  PROVE  current = UsageAt(i, start, t)
<1> DEFINE B == Begun(start, E)
           D == Ended(i, start, E)
           R == {v \in Job : start[v] <= t /\ t < start[v] + i.duration[v]}
<1>1. last \in Nat
  BY EventFacts DEF SweepAt
<1>2. \A v \in Job : (v \in B <=> start[v] <= t) /\ (v \in D <=> start[v] + i.duration[v] <= t)
  <2> TAKE v \in Job
  <2>1. /\ StartOf(start, v) \in AllEvents(i, start)
        /\ EndOf(i, start, v) \in AllEvents(i, start)
        /\ StartOf(start, v).at = start[v]
        /\ EndOf(i, start, v).at = start[v] + i.duration[v]
        /\ start[v] \in Nat /\ i.duration[v] \in Nat
    BY EventFacts
  <2>2. v \in B <=> start[v] <= t
    <3>1. CASE StartOf(start, v) \in E
      <4>1. t < start[v]
        BY <2>1, <3>1
      <4>2. v \notin B
        BY <3>1 DEF Begun
      <4> QED
        BY <2>1, <4>1, <4>2
    <3>2. CASE StartOf(start, v) \notin E
      <4>1. start[v] <= last
        BY <2>1, <3>2 DEF SweepAt
      <4>2. v \in B
        BY <3>2 DEF Begun
      <4> QED
        BY <1>1, <2>1, <4>1, <4>2
    <3> QED
      BY <3>1, <3>2
  <2>3. v \in D <=> start[v] + i.duration[v] <= t
    <3>1. CASE EndOf(i, start, v) \in E
      <4>1. t < start[v] + i.duration[v]
        BY <2>1, <3>1
      <4>2. v \notin D
        BY <3>1 DEF Ended
      <4> QED
        BY <2>1, <4>1, <4>2
    <3>2. CASE EndOf(i, start, v) \notin E
      <4>1. start[v] + i.duration[v] <= last
        BY <2>1, <3>2 DEF SweepAt
      <4>2. v \in D
        BY <3>2 DEF Ended
      <4> QED
        BY <1>1, <2>1, <4>1, <4>2
    <3> QED
      BY <3>1, <3>2
  <2> QED
    BY <2>2, <2>3
<1>3. B \in SUBSET Job /\ D \in SUBSET Job
  BY DEF Begun, Ended
<1>4. \A v \in Job : start[v] \in Nat /\ i.duration[v] \in Nat /\ i.usage[v] \in Nat
  BY SolutionTypes
<1> HIDE DEF B, D
<1>5. D \subseteq B /\ B \ D = R
  BY <1>2, <1>3, <1>4
<1>6. current = SumOf(i.usage, B) - SumOf(i.usage, D)
  BY DEF SweepAt, B, D
<1>7. IsFiniteSet(B) /\ IsFiniteSet(D) /\ \A v \in B : i.usage[v] \in Int
  BY <1>3, <1>4, JobsFinite, FS_Subset
<1>8. SumOf(i.usage, B) = SumOf(i.usage, D) + SumOf(i.usage, B \ D)
  BY <1>5, <1>7, SumUnion
<1>9. UsageAt(i, start, t) = SumOf(i.usage, R) /\ UsageAt(i, start, t) \in Nat
  BY SolutionTypes, UsageIsSum
<1>10. SumOf(i.usage, D) \in Int
  BY <1>5, <1>7, SumPicks
<1>11. SumOf(i.usage, B \ D) = UsageAt(i, start, t)
  BY <1>5, <1>9
<1> HIDE DEF R
<1> QED
  BY <1>6, <1>8, <1>9, <1>10, <1>11

\* Nothing runs before the first event and after the last one.
LEMMA NothingOutside ==
  ASSUME NEW i \in SolutionCases, NEW start \in [Job -> Nat], NEW t \in Nat,
         \/ \A v \in Job : t < start[v]
         \/ \A v \in Job : start[v] + i.duration[v] <= t
  PROVE  UsageAt(i, start, t) = 0
<1> DEFINE R == {v \in Job : start[v] <= t /\ t < start[v] + i.duration[v]}
<1>1. \A v \in Job : start[v] \in Nat /\ i.duration[v] \in Nat
  BY SolutionTypes
<1>2. R = {}
  BY <1>1
<1>3. UsageAt(i, start, t) = SumOf(i.usage, R)
  BY SolutionTypes, UsageIsSum
<1> HIDE DEF R
<1> QED
  BY <1>2, <1>3, FS_EmptySet, SumPicks

\* Up to which step a job can run.
LEMMA HorizonFacts ==
  ASSUME NEW i \in SolutionCases
  PROVE  /\ LastDeadline(i) \in Nat /\ Horizon(i) \in Nat
         /\ \A v \in Job : i.deadline[v] <= LastDeadline(i) /\ i.duration[v] <= LastDeadline(i)
<1> DEFINE j == [release |-> i.release, deadline |-> i.deadline, duration |-> i.duration,
                 usage |-> i.usage, lags |-> i.lags]
<1>1. j \in LagInstance /\ j.deadline = i.deadline
  BY SolutionTypes DEF LagInstance
<1> HIDE DEF j
<1>2. LastDeadline(i) = LastDeadline(j)
  BY <1>1 DEF LastDeadline
<1>3. LastDeadline(i) \in Nat
  BY <1>1, <1>2, LastDeadlineType
<1>4. Horizon(i) \in Nat
  BY <1>3, SolutionTypes DEF Horizon
<1>5. ASSUME NEW v \in Job
      PROVE  i.deadline[v] <= LastDeadline(i) /\ i.duration[v] <= LastDeadline(i)
  <2>1. i.deadline[v] <= LastDeadline(i)
    BY <1>1, <1>2, LastDeadlineIsLast
  <2>2. i.duration[v] <= i.deadline[v] - i.release[v]
    BY SolutionAssumption
  <2>3. i.duration[v] \in Nat /\ i.deadline[v] \in Nat /\ i.release[v] \in Nat
    BY SolutionTypes
  <2> QED
    BY <1>3, <2>1, <2>2, <2>3
<1> QED
  BY <1>3, <1>4, <1>5

\* The next event ends a segment and changes the current usage.
LEMMA EventTaken ==
  ASSUME NEW i \in SolutionCases, NEW start \in [Job -> Nat],
         NEW E, NEW last, NEW current, SweepAt(i, start, E, last, current),
         NEW ev \in E, \A other \in E \ {ev} : EventBefore(ev, other)
  PROVE  /\ SweepAt(i, start, E \ {ev}, ev.at,
                    IF ev.start THEN current + i.usage[ev.job] ELSE current - i.usage[ev.job])
         /\ \A e \in E : ev.at <= e.at
         /\ ev.at \in Nat /\ last \in Nat /\ last <= ev.at /\ current \in Int
<1> DEFINE F == E \ {ev}
           B == Begun(start, E)
           D == Ended(i, start, E)
<1>1. ev \in AllEvents(i, start) /\ \A e \in E : e \in AllEvents(i, start)
  BY DEF SweepAt
<1>2. ev.at \in Nat /\ \A e \in E : e.at \in Nat
  BY <1>1, EventFacts
<1>3. last \in Nat /\ last <= ev.at
  BY EventFacts DEF SweepAt
<1>4. \A e \in E : ev.at <= e.at
  <2> TAKE e \in E
  <2>1. CASE e = ev
    BY <1>2, <2>1
  <2>2. CASE e # ev
    <3>1. EventBefore(ev, e)
      BY <2>2
    <3> QED
      BY <1>2, <3>1 DEF EventBefore
  <2> QED
    BY <2>1, <2>2
<1>5. PICK v \in Job : ev.job = v /\ (\/ ev = StartOf(start, v) /\ ev.start
                                      \/ ev = EndOf(i, start, v) /\ ~ ev.start)
  BY <1>1, EventFacts
<1>6. \A e \in AllEvents(i, start) : e \notin F => e.at <= ev.at
  <2> TAKE e \in AllEvents(i, start)
  <2> HAVE e \notin F
  <2>1. CASE e = ev
    BY <1>2, <2>1
  <2>2. CASE e # ev
    <3>1. e.at <= last
      BY <2>2 DEF SweepAt
    <3>2. e.at \in Nat
      BY EventFacts
    <3> QED
      BY <1>2, <1>3, <3>1, <3>2
  <2> QED
    BY <2>1, <2>2
<1>7. /\ B \in SUBSET Job /\ D \in SUBSET Job
      /\ IsFiniteSet(B) /\ IsFiniteSet(D)
      /\ \A u \in Job : i.usage[u] \in Int
  <2>1. B \in SUBSET Job /\ D \in SUBSET Job
    BY DEF Begun, Ended
  <2> QED
    BY <2>1, JobsFinite, FS_Subset, SolutionTypes
<1>8. current = SumOf(i.usage, B) - SumOf(i.usage, D)
  BY DEF SweepAt
<1>9. SumOf(i.usage, B) \in Int /\ SumOf(i.usage, D) \in Int
  <2> HIDE DEF B, D
  <2> QED
    BY <1>7, SumPicks
<1>10. (IF ev.start THEN current + i.usage[ev.job] ELSE current - i.usage[ev.job])
          = SumOf(i.usage, Begun(start, F)) - SumOf(i.usage, Ended(i, start, F))
  <2>1. CASE ev = StartOf(start, v) /\ ev.start
    <3>1. Begun(start, F) = B \cup {v} /\ v \notin B
      BY <2>1, EventFacts DEF Begun
    <3>2. Ended(i, start, F) = D
      BY <2>1, EventFacts DEF Ended
    <3> HIDE DEF B, D, F
    <3>3. SumOf(i.usage, B \cup {v}) = SumOf(i.usage, B) + i.usage[v]
      BY <1>7, <3>1, SumWith
    <3> QED
      BY <1>5, <1>7, <1>8, <1>9, <2>1, <3>1, <3>2, <3>3
  <2>2. CASE ev = EndOf(i, start, v) /\ ~ ev.start
    <3>1. Ended(i, start, F) = D \cup {v} /\ v \notin D
      BY <2>2, EventFacts DEF Ended
    <3>2. Begun(start, F) = B
      BY <2>2, EventFacts DEF Begun
    <3> HIDE DEF B, D, F
    <3>3. SumOf(i.usage, D \cup {v}) = SumOf(i.usage, D) + i.usage[v]
      BY <1>7, <3>1, SumWith
    <3> QED
      BY <1>5, <1>7, <1>8, <1>9, <2>2, <3>1, <3>2, <3>3
  <2> QED
    BY <1>5, <2>1, <2>2
<1>11. F \subseteq AllEvents(i, start) /\ \E e \in AllEvents(i, start) : ev.at = e.at
  BY <1>1
<1>12. SweepAt(i, start, F, ev.at,
               IF ev.start THEN current + i.usage[ev.job] ELSE current - i.usage[ev.job])
  BY <1>4, <1>6, <1>10, <1>11 DEF SweepAt
<1>13. current \in Int
  BY <1>8, <1>9
<1> QED
  BY <1>2, <1>3, <1>4, <1>12, <1>13

\* Before the first event.
LEMMA SweepStarts ==
  ASSUME NEW i \in SolutionCases, NEW start \in [Job -> Nat],
         NEW last, last = Min({e.at : e \in AllEvents(i, start)})
  PROVE  /\ SweepAt(i, start, AllEvents(i, start), last, 0)
         /\ last \in Nat
         /\ \A t \in 0 .. last - 1 : UsageAt(i, start, t) = 0
<1> DEFINE A == AllEvents(i, start)
           T == {e.at : e \in A}
<1>1. \A e \in A : e.at \in Nat
  BY EventFacts
<1>2. T \subseteq Int /\ T # {} /\ \A x \in T : 0 <= x
  <2>1. 1 \in Job
    BY JobCountAssumption DEF Job
  <2>2. StartOf(start, 1) \in A
    BY <2>1, EventFacts
  <2> QED
    BY <1>1, <2>2
<1>3. Min(T) \in T /\ \A x \in T : Min(T) <= x
  <2> HIDE DEF T
  <2>1. 0 \in Int
    OBVIOUS
  <2> QED
    BY <1>2, <2>1, MinBounded, Zenon
<1>4. (\E e \in A : last = e.at) /\ (\A e \in A : last <= e.at) /\ last \in Nat
  BY <1>1, <1>3
<1>5. Begun(start, A) = {} /\ Ended(i, start, A) = {}
  BY EventFacts DEF Begun, Ended
<1>6. SumOf(i.usage, {}) = 0
  BY FS_EmptySet, SumPicks
<1>7. SweepAt(i, start, A, last, 0)
  <2>1. 0 = SumOf(i.usage, Begun(start, A)) - SumOf(i.usage, Ended(i, start, A))
    BY <1>5, <1>6
  <2>2. A \subseteq AllEvents(i, start) /\ \A e \in AllEvents(i, start) : e \in A
    OBVIOUS
  <2> HIDE DEF A
  <2> QED
    BY <1>4, <2>1, <2>2 DEF SweepAt
<1>8. ASSUME NEW t \in 0 .. last - 1 PROVE UsageAt(i, start, t) = 0
  <2>1. t \in Nat /\ t < last
    BY <1>4, <1>8
  <2>2. \A v \in Job : t < start[v]
    <3> TAKE v \in Job
    <3>1. last <= StartOf(start, v).at /\ StartOf(start, v).at = start[v] /\ start[v] \in Nat
      BY <1>4, EventFacts
    <3> QED
      BY <1>4, <2>1, <3>1
  <2> QED
    BY <2>1, <2>2, NothingOutside
<1> QED
  BY <1>4, <1>7, <1>8

\* After the last event, which no schedule has beyond the last step.
LEMMA SweepEnds ==
  ASSUME NEW i \in SolutionCases, NEW start \in [Job -> 0 .. Horizon(i)],
         NEW last, NEW current, SweepAt(i, start, {}, last, current)
  PROVE  /\ last \in AllSteps(i)
         /\ \A t \in Nat : last <= t => UsageAt(i, start, t) = 0
<1>1. start \in [Job -> Nat]
  BY HorizonType
<1>2. \A v \in Job : start[v] + i.duration[v] <= last
  BY <1>1, EventFacts DEF SweepAt
<1>3. last \in Nat
  BY <1>1, EventFacts DEF SweepAt
<1>4. ASSUME NEW t \in Nat, last <= t PROVE UsageAt(i, start, t) = 0
  <2>1. \A v \in Job : start[v] + i.duration[v] <= t
    BY <1>1, <1>2, <1>3, <1>4, EventFacts
  <2> QED
    BY <1>1, <2>1, NothingOutside
<1>5. last <= Horizon(i) + LastDeadline(i)
  <2>1. PICK e \in AllEvents(i, start) : last = e.at
    BY DEF SweepAt
  <2>2. PICK v \in Job : e = StartOf(start, v) \/ e = EndOf(i, start, v)
    BY <1>1, EventFacts
  <2>3. last = start[v] \/ last = start[v] + i.duration[v]
    BY <1>1, <2>1, <2>2, EventFacts
  <2>4. start[v] \in 0 .. Horizon(i) /\ i.duration[v] \in Nat
    BY SolutionTypes
  <2>5. Horizon(i) \in Nat /\ LastDeadline(i) \in Nat /\ i.duration[v] <= LastDeadline(i)
    BY HorizonFacts
  <2> QED
    BY <2>3, <2>4, <2>5
<1>6. Horizon(i) + LastDeadline(i) \in Nat
  BY HorizonFacts
<1> QED
  BY <1>3, <1>4, <1>5, <1>6 DEF AllSteps

\* The highest usage that is not covered in a set of steps, or zero.
MostBeyond(i, start, S, most) ==
  /\ most \in Nat
  /\ \A t \in S : Beyond(i, start, t) <= most
  /\ most = 0 \/ \E t \in S : most = Beyond(i, start, t)

\* What is missing is bounded by what all jobs use together.
LEMMA BeyondBounded ==
  ASSUME NEW i \in SolutionCases, NEW start, NEW t \in Nat
  PROVE  /\ SumOf(i.usage, Job) \in Nat
         /\ Beyond(i, start, t) <= SumOf(i.usage, Job)
<1>1. UsageAt(i, start, t) \in Nat /\ UsageAt(i, start, t) <= SumOf(i.usage, Job)
  BY SolutionTypes, UsageIsSum
<1>2. SumOf(i.usage, Job) \in Nat
  <2>1. IsFiniteSet(Job) /\ \A v \in Job : i.usage[v] \in Nat
    BY JobsFinite, SolutionTypes
  <2> QED
    BY <2>1, SumsGrow
<1>3. AvailableAt(i, t) \in Nat
  BY CostTypes
<1>4. PICK total \in Nat : total = SumOf(i.usage, Job)
  BY <1>2
<1>5. /\ UsageAt(i, start, t) - AvailableAt(i, t) \in Int
      /\ UsageAt(i, start, t) - AvailableAt(i, t) <= total
  BY <1>1, <1>3, <1>4
<1>6. Beyond(i, start, t) <= total
  BY <1>5, PositiveBelow DEF Beyond
<1> QED
  BY <1>2, <1>4, <1>6

\* More steps, up to a later one.
LEMMA MostGrows ==
  ASSUME NEW i \in SolutionCases, NEW start, NEW last \in Nat, NEW until \in Nat,
         last <= until, NEW most, MostBeyond(i, start, 0 .. last - 1, most),
         NEW next,
         next = Max({most} \cup {Beyond(i, start, t) : t \in last .. until - 1})
  PROVE  MostBeyond(i, start, 0 .. until - 1, next)
<1> DEFINE S == {most} \cup {Beyond(i, start, t) : t \in last .. until - 1}
           total == SumOf(i.usage, Job)
<1>1. \A t \in 0 .. until - 1 : t \in Nat /\ (t \in 0 .. last - 1 \/ t \in last .. until - 1)
  OBVIOUS
<1>2. (\A t \in 0 .. last - 1 : t \in 0 .. until - 1)
      /\ (\A t \in last .. until - 1 : t \in 0 .. until - 1)
  OBVIOUS
<1>3. most \in Nat
  BY DEF MostBeyond
<1>4. \A t \in 0 .. until - 1 : Beyond(i, start, t) \in Nat /\ Beyond(i, start, t) <= total
  BY <1>1, BeyondType, BeyondBounded
<1>5. total \in Nat
  BY BeyondBounded
<1> HIDE DEF total
<1>6. S \subseteq Nat
  BY <1>2, <1>3, <1>4
<1>7. \A x \in S : x <= most + total
  <2> TAKE x \in S
  <2>1. x = most \/ x <= total
    BY <1>2, <1>4
  <2> QED
    BY <1>3, <1>5, <1>6, <2>1
<1>8. most \in S /\ \A t \in last .. until - 1 : Beyond(i, start, t) \in S
  OBVIOUS
<1>9. \A x \in S : x = most \/ \E t \in last .. until - 1 : x = Beyond(i, start, t)
  OBVIOUS
<1>10. next = Max(S)
  OBVIOUS
<1> HIDE DEF S
<1>11. Max(S) \in S /\ \A x \in S : Max(S) >= x
  <2>1. S \subseteq Int /\ S # {} /\ most + total \in Int
    BY <1>3, <1>5, <1>6, <1>8
  <2> QED
    BY <1>7, <2>1, MaxBounded, Zenon
<1>12. next \in Nat /\ most <= next /\ \A t \in last .. until - 1 : Beyond(i, start, t) <= next
  BY <1>3, <1>6, <1>8, <1>10, <1>11
<1>13. \A t \in 0 .. until - 1 : Beyond(i, start, t) <= next
  <2> TAKE t \in 0 .. until - 1
  <2>1. CASE t \in last .. until - 1
    BY <1>12, <2>1
  <2>2. CASE t \in 0 .. last - 1
    <3>1. Beyond(i, start, t) <= most
      BY <2>2 DEF MostBeyond
    <3> QED
      BY <1>3, <1>4, <1>12, <3>1
  <2> QED
    BY <1>1, <2>1, <2>2
<1>14. next = 0 \/ \E t \in 0 .. until - 1 : next = Beyond(i, start, t)
  <2>1. CASE next = most
    BY <1>2, <2>1 DEF MostBeyond
  <2>2. CASE next # most
    BY <1>2, <1>9, <1>10, <1>11, <2>2
  <2> QED
    BY <2>1, <2>2
<1> QED
  BY <1>12, <1>13, <1>14 DEF MostBeyond

\* What nothing runs after is all there is.
LEMMA TotalIsReached ==
  ASSUME NEW i \in SolutionCases, NEW start, NEW last \in AllSteps(i),
         \A t \in Nat : last <= t => UsageAt(i, start, t) = 0
  PROVE  /\ CostsIn(i, start, 0 .. last - 1) = CostsIn(i, start, AllSteps(i))
         /\ \A most : MostBeyond(i, start, 0 .. last - 1, most)
                        => most = LeastCapacity(i, start)
<1> DEFINE All == AllSteps(i)
           Done == 0 .. last - 1
           Rest == All \ Done
<1>1. All \subseteq Nat /\ IsFiniteSet(All) /\ last \in Nat
  <2>1. Horizon(i) + LastDeadline(i) \in Nat
    BY HorizonFacts
  <2> QED
    BY <2>1, FS_Interval DEF AllSteps
<1>2. Done \subseteq All
  BY HorizonFacts DEF AllSteps
<1>3. \A t \in Rest : t \in Nat /\ last <= t
  BY <1>1
<1>4. Done \in SUBSET Nat /\ IsFiniteSet(Done) /\ Rest \in SUBSET Nat /\ IsFiniteSet(Rest)
  BY <1>1, <1>2, FS_Subset, FS_Difference
<1> HIDE DEF All, Done
<1>5. \A t \in Rest : UsageAt(i, start, t) = 0
  BY <1>3
<1>6. CostsIn(i, start, Rest) = 0
  <2> HIDE DEF Rest
  <2> QED
    BY <1>4, <1>5, CostsOfNothing
<1>7. CostsIn(i, start, All) = CostsIn(i, start, Done)
  <2>1. CostsIn(i, start, All) = CostsIn(i, start, Done) + CostsIn(i, start, Rest)
    BY <1>1, <1>2, CostsSplit
  <2>2. CostsIn(i, start, Done) \in Int
    BY <1>4, CostsAreSums
  <2> HIDE DEF Rest
  <2> QED
    BY <1>6, <2>1, <2>2
<1>8. ASSUME NEW most, MostBeyond(i, start, Done, most)
      PROVE  most = LeastCapacity(i, start)
  <2> DEFINE T == {Beyond(i, start, t) : t \in All}
  <2>1. most \in Nat /\ \A t \in All : Beyond(i, start, t) \in Nat
    BY <1>1, <1>8, BeyondType DEF MostBeyond
  <2>2. \A t \in Rest : Beyond(i, start, t) = 0
    BY <1>3, <1>5, BeyondType
  <2>3. \A x \in T : x <= most
    <3>1. ASSUME NEW t \in All PROVE Beyond(i, start, t) <= most
      <4>1. CASE t \in Done
        BY <1>8, <4>1 DEF MostBeyond
      <4>2. CASE t \notin Done
        BY <2>1, <2>2, <4>2
      <4> QED
        BY <4>1, <4>2
    <3> QED
      BY <3>1
  <2>4. most \in T
    <3>1. CASE most = 0
      <4>1. last \in All
        BY DEF All
      <4>2. Beyond(i, start, last) = 0
        BY <1>1, BeyondType
      <4> QED
        BY <3>1, <4>1, <4>2
    <3>2. CASE most # 0
      BY <1>2, <1>8, <3>2 DEF MostBeyond
    <3> QED
      BY <3>1, <3>2
  <2>5. T \subseteq Int
    BY <2>1
  <2>6. LeastCapacity(i, start) = Max(T)
    BY DEF LeastCapacity, All
  <2> HIDE DEF T
  <2>7. Max(T) \in T /\ \A x \in T : Max(T) >= x
    <3>1. most \in Int /\ T # {}
      BY <2>1, <2>4
    <3> QED
      BY <2>3, <2>5, <3>1, MaxBounded, Zenon
  <2>8. Max(T) <= most /\ Max(T) >= most /\ Max(T) \in Int
    BY <2>3, <2>4, <2>5, <2>7
  <2> QED
    BY <2>1, <2>6, <2>8
<1> QED
  BY <1>7, <1>8 DEF All, Done

\* The costs of a segment are those of its steps.
LEMMA SegmentFacts ==
  ASSUME SolutionInv,
         SweepAt(solInstance, solStart, solEvents, solLast, solCurrent),
         NEW until \in Nat, solLast <= until, \A e \in solEvents : until <= e.at
  PROVE  /\ \A t \in solLast .. until - 1 :
              UsedHere(t) = Beyond(solInstance, solStart, t)
         /\ SegmentCosts(until) = CostsIn(solInstance, solStart, solLast .. until - 1)
         /\ solLast \in Nat
<1> DEFINE i == solInstance
           start == solStart
           S == solLast .. until - 1
<1>1. i \in SolutionCases /\ start \in [Job -> Nat]
  BY DEF SolutionInv
<1>2. solLast \in Nat
  BY <1>1, EventFacts DEF SweepAt
<1>3. ASSUME NEW t \in S PROVE UsedHere(t) = Beyond(i, start, t)
  <2>1. t \in Nat /\ solLast <= t /\ t < until
    BY <1>2
  <2>2. \A e \in solEvents : t < e.at
    <3> TAKE e \in solEvents
    <3>1. e.at \in Nat
      BY <1>1, EventFacts DEF SweepAt
    <3> QED
      BY <2>1, <3>1
  <2>3. solCurrent = UsageAt(i, start, t)
    BY <1>1, <2>1, <2>2, CurrentIsUsage
  <2> QED
    BY <2>3 DEF UsedHere, Beyond
<1>4. {t \in S : UsedHere(t) > 0} = {t \in S : Beyond(i, start, t) > 0}
  BY <1>3
<1>5. SegmentCosts(until) = CostsIn(i, start, S)
  <2> DEFINE O == {t \in S : Beyond(i, start, t) > 0}
             f == [t \in O |-> Applied(OvershootCosts(i, t), UsedHere(t))]
             g == [t \in O |-> Applied(OvershootCosts(i, t), Beyond(i, start, t))]
  <2>1. f = g
    BY <1>3
  <2>2. CostsIn(i, start, S) = SumOver(g, O)
    BY DEF CostsIn
  <2>3. SegmentCosts(until) = SumOver(f, O)
    BY <1>4 DEF SegmentCosts
  <2> QED
    BY <2>1, <2>2, <2>3
<1> QED
  BY <1>2, <1>3, <1>5

\* The costs of what has been swept over, and in the end of everything.
Swept ==
  /\ SweepAt(solInstance, solStart, solEvents, solLast, solCurrent)
  /\ solCosts.overshoot = CostsIn(solInstance, solStart, 0 .. solLast - 1)
  /\ MostBeyond(solInstance, solStart, 0 .. solLast - 1, solMaxUsage)

AllCharged ==
  /\ solCosts.overshoot = CostsIn(solInstance, solStart, AllSteps(solInstance))
  /\ solCosts.investment =
       Applied(solInstance.investment, LeastCapacity(solInstance, solStart))

SweepInv ==
  /\ SolutionInv
  /\ solPhase \notin {"none", "infeasible", "failed"} =>
       solStart \in [Job -> 0 .. Horizon(solInstance)]
  /\ DOMAIN solCosts = {"overshoot", "investment"}
  /\ solPhase \in {"none", "solved"} =>
       solCurrent = 0 /\ solMaxUsage = 0 /\ solCosts.overshoot = 0
  /\ solPhase = "sweeping" => Swept
  /\ solPhase \in {"evaluated", "verified"} => AllCharged

\* Nothing has been charged before a solver has run.
LEMMA InitSweepInv == SolutionInit => SweepInv
<1> SUFFICES ASSUME SolutionInit PROVE SweepInv
  OBVIOUS
<1>1. SolutionInv
  BY InitSolutionInv
<1>2. solPhase = "none" /\ solCurrent = 0 /\ solMaxUsage = 0
      /\ solCosts = [overshoot |-> 0, investment |-> 0]
  BY DEF SolutionInit
<1> QED
  BY <1>1, <1>2 DEF SweepInv

\* Nothing is charged before the first event.
LEMMA SweepBegins == SweepInv /\ SortEvents => Swept'
<1> SUFFICES ASSUME SweepInv, SortEvents PROVE Swept'
  OBVIOUS
<1> DEFINE i == solInstance
           start == solStart
           A == AllEvents(i, start)
           S == 0 .. solLast' - 1
<1>1. /\ i \in SolutionCases /\ start \in [Job -> Nat]
      /\ i' = i /\ start' = start
      /\ solCurrent' = 0 /\ solMaxUsage' = 0 /\ solCosts'.overshoot = 0
      /\ solEvents' = A /\ solLast' = Min({e.at : e \in A})
  BY DEF SweepInv, SolutionInv, SortEvents
<1>2. /\ SweepAt(i, start, A, solLast', 0)
      /\ solLast' \in Nat
      /\ \A t \in S : UsageAt(i, start, t) = 0
  BY <1>1, SweepStarts
<1>3. S \in SUBSET Nat /\ IsFiniteSet(S)
  <2>1. PICK last : last = solLast'
    OBVIOUS
  <2> HIDE DEF S
  <2>2. last \in Nat
    BY <1>2, <2>1
  <2>3. last - 1 \in Int /\ 0 .. last - 1 \in SUBSET Nat
    BY <2>2
  <2>4. IsFiniteSet(0 .. last - 1)
    BY <2>3, FS_Interval
  <2> QED
    BY <2>1, <2>3, <2>4 DEF S
<1>4. CostsIn(i, start, S) = 0
  <2> HIDE DEF S
  <2> QED
    BY <1>1, <1>2, <1>3, CostsOfNothing
<1>5. MostBeyond(i, start, S, 0)
  <2>1. \A t \in S : Beyond(i, start, t) = 0
    BY <1>1, <1>2, <1>3, BeyondType
  <2> QED
    BY <2>1 DEF MostBeyond
<1> QED
  BY <1>1, <1>2, <1>4, <1>5 DEF Swept

\* Each segment is charged once.
LEMMA SweepGoesOn == SweepInv /\ HandleEvent => Swept'
<1> SUFFICES ASSUME SweepInv, HandleEvent PROVE Swept'
  OBVIOUS
<1> DEFINE i == solInstance
           start == solStart
<1>1. /\ i \in SolutionCases /\ start \in [Job -> Nat] /\ SolutionInv
      /\ i' = i /\ start' = start /\ Swept
      /\ DOMAIN solCosts = {"overshoot", "investment"}
  BY DEF SweepInv, SolutionInv, HandleEvent
<1>2. PICK ev \in solEvents :
        /\ \A other \in solEvents \ {ev} : EventBefore(ev, other)
        /\ solMaxUsage' = Max({solMaxUsage} \cup {UsedHere(t) : t \in solLast .. ev.at - 1})
        /\ solCosts' = [solCosts EXCEPT !.overshoot = @ + SegmentCosts(ev.at)]
        /\ solCurrent' = IF ev.start THEN solCurrent + i.usage[ev.job]
                         ELSE solCurrent - i.usage[ev.job]
        /\ solLast' = ev.at
        /\ solEvents' = solEvents \ {ev}
  BY DEF HandleEvent
<1> DEFINE S == solLast .. ev.at - 1
           Past == 0 .. solLast - 1
           Now == 0 .. ev.at - 1
<1>3. SweepAt(i, start, solEvents, solLast, solCurrent)
  BY <1>1 DEF Swept
<1>4. /\ SweepAt(i, start, solEvents', solLast', solCurrent')
      /\ \A e \in solEvents : ev.at <= e.at
      /\ ev.at \in Nat /\ solLast \in Nat /\ solLast <= ev.at
  BY <1>1, <1>2, <1>3, EventTaken
<1>5. /\ \A t \in S : UsedHere(t) = Beyond(i, start, t)
      /\ SegmentCosts(ev.at) = CostsIn(i, start, S)
  BY <1>1, <1>3, <1>4, SegmentFacts
<1>6. /\ Now \in SUBSET Nat /\ IsFiniteSet(Now) /\ Past \in SUBSET Now /\ Now \ Past = S
  <2>1. Now \in SUBSET Nat /\ IsFiniteSet(Now)
    <3>1. ev.at - 1 \in Int /\ Now \in SUBSET Nat
      BY <1>4
    <3> QED
      BY <3>1, FS_Interval
  <2>2. Past \in SUBSET Now /\ Now \ Past = S
    BY <1>4
  <2> QED
    BY <2>1, <2>2
<1>7. solCosts'.overshoot = CostsIn(i, start, Now)
  <2>1. solCosts'.overshoot = solCosts.overshoot + SegmentCosts(ev.at)
    BY <1>1, <1>2
  <2>2. solCosts.overshoot = CostsIn(i, start, Past)
    BY <1>1 DEF Swept
  <2> HIDE DEF Now, Past, S
  <2>3. CostsIn(i, start, Now) = CostsIn(i, start, Past) + CostsIn(i, start, S)
    BY <1>1, <1>6, CostsSplit
  <2> QED
    BY <1>5, <2>1, <2>2, <2>3
<1>8. MostBeyond(i, start, Now, solMaxUsage')
  <2>1. {UsedHere(t) : t \in S} = {Beyond(i, start, t) : t \in S}
    BY <1>5
  <2>2. solMaxUsage' = Max({solMaxUsage} \cup {Beyond(i, start, t) : t \in S})
    BY <1>2, <2>1
  <2>3. MostBeyond(i, start, Past, solMaxUsage)
    BY <1>1 DEF Swept
  <2> QED
    BY <1>1, <1>4, <2>2, <2>3, MostGrows
<1> QED
  BY <1>1, <1>2, <1>4, <1>7, <1>8 DEF Swept

\* Nothing is missing after the last event.
LEMMA SweepIsDone == SweepInv /\ InvestmentCosts => AllCharged'
<1> SUFFICES ASSUME SweepInv, InvestmentCosts PROVE AllCharged'
  OBVIOUS
<1> DEFINE i == solInstance
           start == solStart
<1>1. /\ i \in SolutionCases /\ start \in [Job -> 0 .. Horizon(i)]
      /\ i' = i /\ start' = start /\ Swept /\ solEvents = {}
      /\ DOMAIN solCosts = {"overshoot", "investment"}
      /\ solCosts' = [solCosts EXCEPT !.investment = Applied(i.investment, solMaxUsage)]
  BY DEF SweepInv, SolutionInv, InvestmentCosts
<1>2. SweepAt(i, start, {}, solLast, solCurrent)
  BY <1>1 DEF Swept
<1>3. /\ solLast \in AllSteps(i)
      /\ \A t \in Nat : solLast <= t => UsageAt(i, start, t) = 0
  BY <1>1, <1>2, SweepEnds
<1>4. /\ CostsIn(i, start, 0 .. solLast - 1) = CostsIn(i, start, AllSteps(i))
      /\ \A most : MostBeyond(i, start, 0 .. solLast - 1, most)
                     => most = LeastCapacity(i, start)
  BY <1>1, <1>3, TotalIsReached
<1>5. solMaxUsage = LeastCapacity(i, start)
  BY <1>1, <1>4 DEF Swept
<1>6. solCosts.overshoot = CostsIn(i, start, AllSteps(i))
  BY <1>1, <1>4 DEF Swept
<1>7. solCosts'.overshoot = solCosts.overshoot
      /\ solCosts'.investment = Applied(i.investment, solMaxUsage)
  BY <1>1
<1> QED
  BY <1>1, <1>5, <1>6, <1>7 DEF AllCharged

\* Every action of the runner keeps the costs right.
LEMMA NextSweepInv == SweepInv /\ [SolutionNext]_solutionVars => SweepInv'
<1> SUFFICES ASSUME SweepInv, [SolutionNext]_solutionVars PROVE SweepInv'
  OBVIOUS
<1>1. SolutionInv'
  BY NextSolutionInv DEF SweepInv
<1>2. CASE TakeSchedule
  <2>1. /\ solPhase' = "solved" /\ solStart' \in [Job -> 0 .. Horizon(solInstance')]
        /\ solPhase = "none"
        /\ UNCHANGED <<solCurrent, solMaxUsage, solCosts>>
    BY <1>2 DEF TakeSchedule, sweepVars
  <2> QED
    BY <1>1, <2>1 DEF SweepInv
<1>3. CASE SolveDTILP
  <2>1. PICK i \in SolutionCases :
          /\ solInstance' = i
          /\ \/ solPhase' \in {"infeasible", "failed"}
             \/ solPhase' = "solved" /\ solStart' \in DiscreteSchedules(i)
    BY <1>3 DEF SolveDTILP
  <2>2. solPhase = "none" /\ UNCHANGED <<solCurrent, solMaxUsage, solCosts>>
    BY <1>3 DEF SolveDTILP, sweepVars
  <2>3. solPhase' \in {"infeasible", "failed"} \/ solStart' \in [Job -> 0 .. Horizon(solInstance')]
    BY <2>1 DEF DiscreteSchedules
  <2> QED
    BY <1>1, <2>1, <2>2, <2>3 DEF SweepInv
<1>4. CASE SortEvents
  <2>1. Swept'
    BY <1>4, SweepBegins
  <2> QED
    BY <1>1, <1>4, <2>1 DEF SweepInv, SortEvents
<1>5. CASE HandleEvent
  <2>1. Swept'
    BY <1>5, SweepGoesOn
  <2> QED
    BY <1>1, <1>5, <2>1 DEF SweepInv, HandleEvent
<1>6. CASE InvestmentCosts
  <2>1. AllCharged'
    BY <1>6, SweepIsDone
  <2> QED
    BY <1>1, <1>6, <2>1 DEF SweepInv, InvestmentCosts
<1>7. CASE Verify
  BY <1>1, <1>7 DEF SweepInv, Verify, AllCharged, sweepVars
<1>8. CASE UNCHANGED solutionVars
  BY <1>1, <1>8 DEF SweepInv, Swept, AllCharged, solutionVars, sweepVars
<1> QED
  BY <1>2, <1>3, <1>4, <1>5, <1>6, <1>7, <1>8 DEF SolutionNext

\* So they are in every reachable state.
LEMMA SweepInvariant == SolutionSpec => []SweepInv
  BY InitSweepInv, NextSweepInv, PTL DEF SolutionSpec

\* compute_costs() charges each step before the last event once, and in the end
\* every step, and the investment is for the highest usage not covered.
THEOREM CostsAreExact == SolutionSpec => []CostsExact
<1>1. SweepInv => CostsExact
  BY DEF SweepInv, CostsExact, Swept, AllCharged
<1> QED
  BY <1>1, SweepInvariant, PTL

-----------------------------------------------------------------------------
(* The availability that DTILP walks along                                   *)

\* The point that holds at a time.
PointAt(points, k, t) ==
  /\ k \in 1 .. Len(points) /\ points[k][1] <= t
  /\ k < Len(points) => t < points[k + 1][1]

\* The next number is in the same interval, and no greater than any greater one.
LEMMA NextInOrder ==
  /\ \A x, y, n \in Int : 1 <= x /\ x < y /\ y <= n
                             => x + 1 \in 1 .. n /\ (x + 1 = y \/ x + 1 < y)
  /\ \A n : \A x \in 1 .. n : x \in Int /\ 1 <= x /\ x <= n
  OBVIOUS

\* Numbers that increase from each to the next increase.
LEMMA TimesIncrease ==
  ASSUME NEW N \in Nat, NEW time \in [1 .. N -> Nat],
         \A k \in 2 .. N : time[k - 1] < time[k]
  PROVE  \A j, k \in 1 .. N : j < k => time[j] < time[k]
<1> DEFINE H == {n \in 0 .. N : \A m \in 1 .. n - 1 : time[m] < time[n]}
<1>1. 0 \in H
  OBVIOUS
<1>2. \A n \in 1 .. N : n - 1 \in H => n \in H
  <2> TAKE n \in 1 .. N
  <2> HAVE n - 1 \in H
  <2> SUFFICES ASSUME NEW m \in 1 .. n - 1 PROVE time[m] < time[n]
    OBVIOUS
  <2>1. /\ n \in 2 .. N /\ n - 1 \in 1 .. N /\ m \in 1 .. N
        /\ m = n - 1 \/ m \in 1 .. (n - 1) - 1
    OBVIOUS
  <2>2. time[n - 1] < time[n] /\ (m = n - 1 \/ time[m] < time[n - 1])
    BY <2>1
  <2>3. time[m] \in Nat /\ time[n - 1] \in Nat /\ time[n] \in Nat
    BY <2>1
  <2> QED
    BY <2>2, <2>3
<1>3. \A n \in 0 .. N : n \in H
  <2> HIDE DEF H
  <2> QED
    BY <1>1, <1>2, Induction
<1> QED
  <2> TAKE j, k \in 1 .. N
  <2> HAVE j < k
  <2>1. k \in H /\ j \in 1 .. k - 1
    BY <1>3
  <2> QED
    BY <2>1

\* The times of the points of a step function do.
LEMMA PointsIncrease ==
  ASSUME NEW points \in Seq(Nat \X Nat), Increasing(points),
         NEW k \in 1 .. Len(points), NEW j \in 1 .. Len(points), j < k
  PROVE  points[j][1] < points[k][1]
<1> DEFINE time == [m \in 1 .. Len(points) |-> points[m][1]]
<1>1. Len(points) \in Nat
  OBVIOUS
<1>2. \A m \in 1 .. Len(points) : points[m] \in Nat \X Nat
  OBVIOUS
<1>3. time \in [1 .. Len(points) -> Nat]
  BY <1>2
<1>4. \A m \in 2 .. Len(points) : m \in 1 .. Len(points) /\ m - 1 \in 1 .. Len(points)
  BY <1>1
<1>5. \A m \in 2 .. Len(points) : time[m - 1] < time[m]
  BY <1>4 DEF Increasing
<1>6. time[j] < time[k]
  <2> HIDE DEF time
  <2> QED
    BY <1>1, <1>3, <1>5, TimesIncrease
<1> QED
  BY <1>6

\* Only one point holds at a time.
LEMMA PointIsUnique ==
  ASSUME NEW points \in Seq(Nat \X Nat), Increasing(points), NEW t \in Nat,
         NEW k, PointAt(points, k, t), NEW j \in 1 .. Len(points), points[j][1] <= t
  PROVE  /\ j <= k
         /\ PointAt(points, j, t) => j = k
<1>1. ASSUME NEW a \in 1 .. Len(points), NEW b, PointAt(points, b, t), points[a][1] <= t
      PROVE  a <= b
  <2> SUFFICES ASSUME b < a PROVE FALSE
    <3>1. a \in Int /\ b \in Int
      BY <1>1 DEF PointAt
    <3> QED
      BY <3>1
  <2>1. Len(points) \in Nat /\ b \in 1 .. Len(points) /\ a \in 1 .. Len(points)
        /\ b < Len(points)
    BY <1>1 DEF PointAt
  <2>2. b + 1 \in 1 .. Len(points) /\ (b + 1 = a \/ b + 1 < a)
    <3>1. Len(points) \in Int /\ b < a
      BY <2>1
    <3> QED
      BY <2>1, <3>1, NextInOrder, Zenon
  <2>3. t < points[b + 1][1]
    BY <1>1, <2>1 DEF PointAt
  <2>4. points[b + 1] \in Nat \X Nat /\ points[a] \in Nat \X Nat
    BY <2>2
  <2>5. points[b + 1][1] \in Nat /\ points[a][1] \in Nat
    BY <2>4
  <2>6. b + 1 = a \/ points[b + 1][1] < points[a][1]
    BY <2>2, PointsIncrease
  <2> QED
    BY <1>1, <2>3, <2>5, <2>6
<1>2. j <= k
  BY <1>1
<1>3. PointAt(points, j, t) => k <= j
  <2>1. k \in 1 .. Len(points) /\ points[k][1] <= t
    BY DEF PointAt
  <2> QED
    BY <1>1, <2>1
<1>4. k \in Int /\ j \in Int
  BY DEF PointAt
<1> QED
  BY <1>2, <1>3, <1>4

\* One does, and get_at() finds it.
LEMMA PointIsFound ==
  ASSUME NEW points \in Seq(Nat \X Nat), Increasing(points), Len(points) > 0,
         points[1][1] = 0, NEW t \in Nat
  PROVE  /\ \E k : PointAt(points, k, t)
         /\ \A k : PointAt(points, k, t) => ValueAt(points, t, 0) = points[k][2]
<1> DEFINE reached == {k \in DOMAIN points : points[k][1] <= t}
<1>1. DOMAIN points = 1 .. Len(points) /\ Len(points) \in Nat
  OBVIOUS
<1>2. 1 \in reached
  BY <1>1
<1>3. reached \subseteq Int /\ \A k \in reached : k <= Len(points)
  BY <1>1
<1>4. PICK m : m = Max(reached)
  OBVIOUS
<1>5. m \in reached /\ \A k \in reached : m >= k
  <2>1. Len(points) \in Int
    BY <1>1
  <2> HIDE DEF reached
  <2> QED
    BY <1>2, <1>3, <1>4, <2>1, MaxBounded, Zenon
<1>6. ValueAt(points, t, 0) = points[m][2]
  BY <1>2, <1>4 DEF ValueAt
<1>7. m \in 1 .. Len(points) /\ points[m][1] <= t
  BY <1>1, <1>5
<1>8. m < Len(points) => t < points[m + 1][1]
  <2> HAVE m < Len(points)
  <2>1. m + 1 \in DOMAIN points /\ ~(m >= m + 1)
    BY <1>1, <1>7
  <2>2. ~(points[m + 1][1] <= t)
    BY <1>5, <2>1
  <2>3. points[m + 1] \in Nat \X Nat
    BY <2>1
  <2>4. points[m + 1][1] \in Nat
    BY <2>3
  <2> QED
    BY <2>2, <2>4
<1>9. PointAt(points, m, t)
  BY <1>7, <1>8 DEF PointAt
<1>10. \A k : PointAt(points, k, t) => k = m
  <2> TAKE k
  <2> HAVE PointAt(points, k, t)
  <2> HIDE DEF reached
  <2> QED
    BY <1>7, <1>9, PointIsUnique
<1> QED
  BY <1>6, <1>9, <1>10

\* A step in time moves on by one point, or not at all.
LEMMA PointMovesOn ==
  ASSUME NEW points \in Seq(Nat \X Nat), Increasing(points), NEW t \in Nat, t > 0,
         NEW k, PointAt(points, k, t - 1)
  PROVE  PointAt(points, IF k < Len(points) /\ points[k + 1][1] <= t THEN k + 1 ELSE k, t)
<1>1. /\ k \in 1 .. Len(points) /\ points[k][1] <= t - 1
      /\ k < Len(points) => t - 1 < points[k + 1][1]
      /\ Len(points) \in Nat
  BY DEF PointAt
<1>2. \A n \in 1 .. Len(points) : points[n][1] \in Nat
  <2>1. \A n \in 1 .. Len(points) : points[n] \in Nat \X Nat
    OBVIOUS
  <2> QED
    BY <2>1
<1>3. CASE k < Len(points) /\ points[k + 1][1] <= t
  <2>1. k + 1 \in 1 .. Len(points)
    BY <1>1, <1>3
  <2>2. k + 1 < Len(points) => t < points[k + 2][1]
    <3> HAVE k + 1 < Len(points)
    <3>1. k + 2 \in 1 .. Len(points) /\ k + 1 < k + 2
      BY <1>1, <1>3
    <3>2. points[k + 1][1] < points[k + 2][1]
      BY <2>1, <3>1, PointsIncrease
    <3>3. points[k + 1][1] \in Nat /\ points[k + 2][1] \in Nat
      BY <1>2, <2>1, <3>1
    <3>4. t - 1 < points[k + 1][1]
      BY <1>1, <1>3
    <3>5. t <= points[k + 1][1]
      BY <3>3, <3>4
    <3> QED
      BY <3>2, <3>3, <3>5
  <2>3. (k + 1) + 1 = k + 2
    BY <1>1
  <2> QED
    BY <1>3, <2>1, <2>2, <2>3 DEF PointAt
<1>4. CASE ~(k < Len(points) /\ points[k + 1][1] <= t)
  <2>1. points[k][1] <= t
    BY <1>1, <1>2
  <2>2. k < Len(points) => t < points[k + 1][1]
    <3> HAVE k < Len(points)
    <3>1. k + 1 \in 1 .. Len(points)
      BY <1>1
    <3>2. points[k + 1][1] \in Nat
      BY <1>2, <3>1
    <3> QED
      BY <1>4, <3>2
  <2> QED
    BY <1>1, <1>4, <2>1, <2>2 DEF PointAt
<1> QED
  BY <1>3, <1>4

\* Moving on by at most one point in every step never falls behind.
LEMMA WalkIsRight ==
  ASSUME NEW i \in SolutionCases
  PROVE  /\ AvailabilityWalk(i) = [t \in 0 .. Horizon(i) |-> AvailableAt(i, t)]
<1> DEFINE P == i.available
           N == Horizon(i)
           Folded(g) == g = [t \in 0 .. Horizon(i) |->
                               LET k == IF t = 0 THEN 1 ELSE g[t - 1]
                               IN  IF k < Len(i.available) /\ i.available[k + 1][1] <= t
                                   THEN k + 1 ELSE k]
           g == CHOOSE g : Folded(g)
           f == [t \in 0 .. Horizon(i) |-> CHOOSE k : PointAt(i.available, k, t)]
<1>1. AvailabilityWalk(i) = [t \in 0 .. Horizon(i) |-> i.available[g[t]][2]]
  BY DEF AvailabilityWalk
<1>2. P \in Seq(Nat \X Nat) /\ Increasing(P) /\ Len(P) > 0 /\ P[1][1] = 0 /\ N \in Nat
  BY SolutionAssumption, HorizonFacts DEF ExtendedInstance
<1>3. \A t \in 0 .. N : PointAt(P, f[t], t)
  <2> TAKE t \in 0 .. N
  <2>1. t \in Nat
    BY <1>2
  <2>2. \E k : PointAt(P, k, t)
    BY <1>2, <2>1, PointIsFound
  <2>3. f[t] = CHOOSE k : PointAt(P, k, t)
    OBVIOUS
  <2> QED
    BY <2>2, <2>3
<1>4. PointAt(P, 1, 0)
  <2>1. 1 < Len(P) => 0 < P[2][1]
    <3> HAVE 1 < Len(P)
    <3>1. 1 \in 1 .. Len(P) /\ 2 \in 1 .. Len(P)
      BY <1>2
    <3>2. P[1][1] < P[2][1]
      BY <1>2, <3>1, PointsIncrease
    <3> QED
      BY <1>2, <3>2
  <2>2. 1 \in 1 .. Len(P) /\ 1 + 1 = 2
    BY <1>2
  <2> QED
    BY <1>2, <2>1, <2>2 DEF PointAt
<1> DEFINE Moved(k, t) == IF k < Len(P) /\ P[k + 1][1] <= t THEN k + 1 ELSE k
<1>5. Moved(1, 0) = 1
  <2>1. ~(1 < Len(P) /\ P[1 + 1][1] <= 0)
    <3> SUFFICES ASSUME 1 < Len(P) PROVE ~(P[1 + 1][1] <= 0)
      OBVIOUS
    <3>1. 0 < P[1 + 1][1]
      BY <1>4 DEF PointAt
    <3>2. 1 + 1 \in 1 .. Len(P)
      BY <1>2
    <3>3. P[1 + 1] \in Nat \X Nat
      BY <1>2, <3>2
    <3>4. P[1 + 1][1] \in Nat
      BY <3>3
    <3> QED
      BY <3>1, <3>4
  <2> QED
    BY <2>1
<1>6. \A t \in 1 .. N : \A k : PointAt(P, k, t - 1) => PointAt(P, Moved(k, t), t)
  <2> TAKE t \in 1 .. N
  <2> TAKE k
  <2> HAVE PointAt(P, k, t - 1)
  <2>1. t \in Nat /\ t > 0
    BY <1>2
  <2> QED
    BY <1>2, <2>1, PointMovesOn
<1>7. \A t \in 0 .. N : \A j, k : PointAt(P, j, t) /\ PointAt(P, k, t) => j = k
  <2> TAKE t \in 0 .. N
  <2> TAKE j, k
  <2> HAVE PointAt(P, j, t) /\ PointAt(P, k, t)
  <2>1. t \in Nat /\ j \in 1 .. Len(P) /\ P[j][1] <= t
    BY <1>2 DEF PointAt
  <2> QED
    BY <1>2, <2>1, PointIsUnique
<1>8. Folded(f)
  <2>1. ASSUME NEW t \in 0 .. N
        PROVE  f[t] = Moved(IF t = 0 THEN 1 ELSE f[t - 1], t)
    <3>1. CASE t = 0
      <4>1. PointAt(P, f[0], 0)
        BY <1>3, <2>1, <3>1
      <4>2. f[0] = 1
        BY <1>4, <1>7, <2>1, <3>1, <4>1
      <4> QED
        BY <1>5, <3>1, <4>2
    <3>2. CASE t # 0
      <4>1. t \in 1 .. N /\ t - 1 \in 0 .. N
        BY <1>2, <2>1, <3>2
      <4> HIDE DEF f, Moved
      <4>2. PointAt(P, Moved(f[t - 1], t), t)
        BY <1>3, <1>6, <4>1
      <4>3. f[t] = Moved(f[t - 1], t)
        BY <1>3, <1>7, <2>1, <4>2
      <4> QED
        BY <3>2, <4>3
    <3> QED
      BY <3>1, <3>2
  <2>2. f = [t \in 0 .. N |-> f[t]]
    OBVIOUS
  <2>3. [t \in 0 .. N |-> f[t]] = [t \in 0 .. N |-> Moved(IF t = 0 THEN 1 ELSE f[t - 1], t)]
    <3> HIDE DEF f, Moved
    <3> QED
      BY <2>1
  <2> HIDE DEF f
  <2> QED
    BY <2>2, <2>3
<1>9. Folded(g)
  <2> HIDE DEF Folded, f
  <2> QED
    BY <1>8
<1>10. \A t \in 0 .. N : g[t] = Moved(IF t = 0 THEN 1 ELSE g[t - 1], t)
  <2> HIDE DEF g
  <2> QED
    BY <1>9
<1> DEFINE H == {t \in 0 .. N : PointAt(P, g[t], t)}
<1>11. 0 \in H
  <2>1. 0 \in 0 .. N
    BY <1>2
  <2> HIDE DEF g
  <2>2. g[0] = 1
    BY <1>5, <1>10, <2>1
  <2> QED
    BY <1>4, <2>1, <2>2
<1>12. \A t \in 1 .. N : t - 1 \in H => t \in H
  <2> TAKE t \in 1 .. N
  <2> HAVE t - 1 \in H
  <2>1. t \in 0 .. N /\ t # 0
    BY <1>2
  <2> HIDE DEF g, Moved
  <2>2. g[t] = Moved(g[t - 1], t)
    BY <1>10, <2>1
  <2>3. PointAt(P, Moved(g[t - 1], t), t)
    BY <1>6
  <2> QED
    BY <2>1, <2>2, <2>3
<1>13. \A t \in 0 .. N : t \in H
  <2> HIDE DEF H
  <2> QED
    BY <1>2, <1>11, <1>12, Induction
<1>14. \A t \in 0 .. N : i.available[g[t]][2] = AvailableAt(i, t)
  <2> TAKE t \in 0 .. N
  <2>1. PointAt(P, g[t], t) /\ t \in Nat
    BY <1>2, <1>13
  <2> HIDE DEF g
  <2>2. ValueAt(P, t, 0) = P[g[t]][2]
    BY <1>2, <2>1, PointIsFound
  <2> QED
    BY <2>2 DEF AvailableAt
<1> QED
  <2> HIDE DEF g
  <2> QED
    BY <1>1, <1>14

-----------------------------------------------------------------------------
(* The optimum of DTILP                                                      *)

\* The smaller of two numbers is no smaller than what is below both.
LEMMA MinAbove ==
  ASSUME NEW a \in Int, NEW b \in Int, NEW x \in Int, x <= a, x <= b
  PROVE  x <= Min({a, b})
<1>1. PICK m \in {a, b} : \A y \in {a, b} : m <= y
  <2>1. CASE a <= b
    BY <2>1
  <2>2. CASE b < a
    BY <2>2
  <2>3. QED
    BY <2>1, <2>2
<1>2. Min({a, b}) \in {a, b}
  BY <1>1 DEF Min
<1> QED
  BY <1>2

\* A job that is extended by no more than the limit starts at a switch-on step.
LEMMA SwitchOnAllowed ==
  ASSUME NEW i \in SolutionCases, NEW start \in [Job -> Nat], InTime(i, start),
         SumOf(Outsides(i, start), Job) <= i.timeLimit, NEW v \in Job
  PROVE  start[v] \in SwitchOnSteps(i, v)
<1> DEFINE finish == i.deadline[v] + i.timeLimit
           last == IF i.hardDeadline = NoDeadline THEN finish
                   ELSE Min({finish, i.hardDeadline})
           first == Max({0, i.release[v] - i.timeLimit})
<1>1. /\ start[v] \in Nat /\ i.release[v] \in Nat /\ i.deadline[v] \in Nat
      /\ i.duration[v] \in Nat /\ i.timeLimit \in Nat
      /\ i.hardDeadline \in Nat \cup {NoDeadline}
  BY SolutionTypes
<1>2. /\ EarlyBy(i, start, v) \in Nat /\ LateBy(i, start, v) \in Nat
      /\ Outsides(i, start)[v] = EarlyBy(i, start, v) + LateBy(i, start, v)
      /\ i.release[v] - EarlyBy(i, start, v) <= start[v]
      /\ start[v] + i.duration[v] <= i.deadline[v] + LateBy(i, start, v)
  BY OutsideFacts
<1>3. EarlyBy(i, start, v) <= i.timeLimit /\ LateBy(i, start, v) <= i.timeLimit
  <2>1. IsFiniteSet(Job) /\ \A u \in Job : Outsides(i, start)[u] \in Nat
    <3>1. \A u \in Job : /\ EarlyBy(i, start, u) \in Nat /\ LateBy(i, start, u) \in Nat
                         /\ Outsides(i, start)[u] = EarlyBy(i, start, u) + LateBy(i, start, u)
      BY OutsideFacts
    <3> QED
      BY <3>1, JobsFinite
  <2>2. SumOf(Outsides(i, start), Job)
          = Outsides(i, start)[v] + SumOf(Outsides(i, start), Job \ {v})
    BY <2>1, SumWithout
  <2>3. SumOf(Outsides(i, start), Job \ {v}) \in Nat
    <3>1. Job \ {v} \in SUBSET Job
      OBVIOUS
    <3> QED
      BY <2>1, <3>1, SumsGrow
  <2> HIDE DEF finish, last, first
  <2> QED
    BY <1>1, <1>2, <2>2, <2>3
<1>4. first \in Nat /\ first <= start[v]
  <2>1. i.release[v] - i.timeLimit \in Int /\ i.release[v] - i.timeLimit <= start[v]
    BY <1>1, <1>2, <1>3
  <2> QED
    BY <1>1, <2>1, PositivePart, PositiveBelow
<1>5. last \in Int /\ start[v] + i.duration[v] <= last
  <2>1. finish \in Int /\ start[v] + i.duration[v] \in Int
        /\ start[v] + i.duration[v] <= finish
    BY <1>1, <1>2, <1>3
  <2>2. CASE i.hardDeadline = NoDeadline
    BY <2>1, <2>2
  <2>3. CASE i.hardDeadline # NoDeadline
    <3>1. i.hardDeadline \in Int /\ start[v] + i.duration[v] <= i.hardDeadline
      BY <1>1, <2>3 DEF InTime
    <3> HIDE DEF finish
    <3>2. Min({finish, i.hardDeadline}) \in Int
      BY <2>1, <3>1, MinOfTwo
    <3>3. start[v] + i.duration[v] <= Min({finish, i.hardDeadline})
      BY <2>1, <3>1, MinAbove
    <3> QED
      BY <2>3, <3>2, <3>3
  <2> QED
    BY <2>2, <2>3
<1>6. SwitchOnSteps(i, v) = first .. last - i.duration[v]
  BY DEF SwitchOnSteps, FirstStep, LastStep
<1> HIDE DEF finish, last, first
<1> QED
  BY <1>1, <1>4, <1>5, <1>6

\* What verify() accepts and meets the hard deadline.
Acceptable(i) ==
  {start \in [Job -> 0 .. Horizon(i)] : Verdict(i, start).valid /\ InTime(i, start)}

\* DTILP has a solution for each of them, and for nothing else.
LEMMA DiscreteIsAcceptable ==
  ASSUME NEW i \in SolutionCases
  PROVE  DiscreteSchedules(i) = Acceptable(i)
<1>1. ASSUME NEW start \in DiscreteSchedules(i) PROVE start \in Acceptable(i)
  <2>1. start \in [Job -> 0 .. Horizon(i)]
    BY DEF DiscreteSchedules
  <2>2. start \in [Job -> Nat]
    BY <2>1, HorizonType
  <2> QED
    BY <2>1, <2>2, DiscreteIsAccepted DEF Acceptable
<1>2. ASSUME NEW start \in Acceptable(i) PROVE start \in DiscreteSchedules(i)
  <2>1. start \in [Job -> 0 .. Horizon(i)] /\ Verdict(i, start).valid /\ InTime(i, start)
    BY DEF Acceptable
  <2>2. start \in [Job -> Nat]
    BY <2>1, HorizonType
  <2>3. /\ SumOf(Outsides(i, start), Job) <= i.timeLimit
        /\ ExtendedJobs(i, start) <= i.jobLimit
        /\ \A e \in i.lags : start[e[1]] + e[3] <= start[e[2]]
    BY <2>1, <2>2, ValidVerdict, WindowsAccepted
  <2>4. ExtensionsAllowed(i, start)
    <3>1. /\ Early(i, start) \cap Late(i, start) = {}
          /\ Cardinality(Early(i, start) \cup Late(i, start)) = ExtendedJobs(i, start)
      BY <2>2, OneSide
    <3>2. WindowExtension(i, start) = SumOf(Outsides(i, start), Job)
      BY ExtensionIsSum
    <3> QED
      BY <2>3, <3>1, <3>2 DEF ExtensionsAllowed
  <2>5. \A v \in Job : start[v] \in SwitchOnSteps(i, v)
    BY <2>1, <2>2, <2>3, SwitchOnAllowed
  <2> QED
    BY <2>1, <2>3, <2>4, <2>5 DEF DiscreteSchedules
<1> QED
  BY <1>1, <1>2

\* None of them has a job running beyond the horizon.
LEMMA DiscreteEnds ==
  ASSUME NEW i \in SolutionCases, NEW start \in DiscreteSchedules(i)
  PROVE  \A v \in Job : start[v] + i.duration[v] <= Horizon(i)
<1> TAKE v \in Job
<1> DEFINE finish == i.deadline[v] + i.timeLimit
           last == IF i.hardDeadline = NoDeadline THEN finish
                   ELSE Min({finish, i.hardDeadline})
           first == Max({0, i.release[v] - i.timeLimit})
<1>1. /\ i.release[v] \in Nat /\ i.deadline[v] \in Nat
      /\ i.duration[v] \in Nat /\ i.timeLimit \in Nat
      /\ i.hardDeadline \in Nat \cup {NoDeadline}
  BY SolutionTypes
<1>2. start[v] \in SwitchOnSteps(i, v)
  BY DEF DiscreteSchedules
<1>3. SwitchOnSteps(i, v) = first .. last - i.duration[v]
  BY DEF SwitchOnSteps, FirstStep, LastStep
<1>4. first \in Int
  BY <1>1, PositivePart
<1>5. finish \in Int
  BY <1>1
<1>6. last \in Int /\ last <= finish
  <2>1. CASE i.hardDeadline = NoDeadline
    BY <1>5, <2>1
  <2>2. CASE i.hardDeadline # NoDeadline
    <3>1. i.hardDeadline \in Int
      BY <1>1, <2>2
    <3> HIDE DEF finish
    <3> QED
      BY <1>5, <2>2, <3>1, MinOfTwo
  <2> QED
    BY <2>1, <2>2
<1>7. start[v] \in Int /\ start[v] + i.duration[v] <= finish
  <2> HIDE DEF first, last, finish
  <2> QED
    BY <1>1, <1>2, <1>3, <1>4, <1>5, <1>6
<1>8. finish <= Horizon(i)
  <2>1. i.deadline[v] <= LastDeadline(i) /\ LastDeadline(i) \in Nat
    BY HorizonFacts
  <2> QED
    BY <1>1, <2>1 DEF Horizon
<1>9. Horizon(i) \in Nat
  BY HorizonFacts
<1> HIDE DEF first, last, finish
<1> QED
  BY <1>1, <1>5, <1>7, <1>8, <1>9

\* A job whose number of steps wraps has no step.
LEMMA WrappedIsInfeasible ==
  ASSUME NEW i \in SolutionCases, CountWraps(i)
  PROVE  DiscreteSchedules(i) = {}
<1>1. PICK v \in Job : LastStep(i, v) - FirstStep(i, v) + 1 < 0
  BY DEF CountWraps
<1>2. FirstStep(i, v) \in Int
  BY SolutionTypes, PositivePart DEF FirstStep
<1>3. LastStep(i, v) \in Int
  <2> DEFINE finish == i.deadline[v] + i.timeLimit
  <2>1. finish \in Int /\ i.duration[v] \in Nat /\ i.hardDeadline \in Nat \cup {NoDeadline}
    BY SolutionTypes
  <2>2. CASE i.hardDeadline = NoDeadline
    BY <2>1, <2>2 DEF LastStep
  <2>3. CASE i.hardDeadline # NoDeadline
    <3> HIDE DEF finish
    <3>1. i.hardDeadline \in Int
      BY <2>1, <2>3
    <3>2. Min({finish, i.hardDeadline}) \in Int
      BY <2>1, <3>1, MinOfTwo
    <3>3. LastStep(i, v) = Min({finish, i.hardDeadline}) - i.duration[v]
      BY <2>3 DEF LastStep, finish
    <3> QED
      BY <2>1, <3>2, <3>3
  <2> QED
    BY <2>2, <2>3
<1>4. SwitchOnSteps(i, v) = {}
  BY <1>1, <1>2, <1>3 DEF SwitchOnSteps
<1> QED
  BY <1>4 DEF DiscreteSchedules

TotalCosts(i, start) ==
  CostsIn(i, start, AllSteps(i)) + Applied(i.investment, LeastCapacity(i, start))

\* Where all costs are linear, steps that nothing is charged for do not count, and
\* those from the horizon on are of that kind.
LEMMA ObjectiveIsCosts ==
  ASSUME NEW i \in SolutionCases, Linear(i), NEW start \in DiscreteSchedules(i),
         ~ OvershootRebate(i), ~ InvestmentRebate(i)
  PROVE  Objective(i, start) = TotalCosts(i, start)
<1> DEFINE available == AvailabilityWalk(i)
           N == Horizon(i)
           Steps == 0 .. Horizon(i) - 1
           overshoot == [t \in Steps |-> Max({0, UsageAt(i, start, t) - available[t]})]
           costs == [t \in Steps |-> Applied(OvershootCosts(i, t), overshoot[t])]
           f == Charges(i, start)
           O == Over(i, start, Steps)
<1>1. Objective(i, start)
        = SumOver(costs, Steps) + Applied(i.investment, Max({0} \cup Range(overshoot)))
  BY DEF Objective
<1>2. N \in Nat /\ start \in [Job -> Nat]
  BY HorizonFacts, HorizonType DEF DiscreteSchedules
<1>3. Steps \in SUBSET Nat /\ IsFiniteSet(Steps) /\ \A t \in Steps : t \in 0 .. N
  <2>1. N - 1 \in Int /\ Steps \in SUBSET Nat /\ \A t \in Steps : t \in 0 .. N
    BY <1>2
  <2> QED
    BY <2>1, FS_Interval
<1>4. \A t \in Steps : overshoot[t] = Beyond(i, start, t)
  <2> TAKE t \in Steps
  <2>1. available[t] = AvailableAt(i, t)
    BY <1>3, WalkIsRight
  <2>2. overshoot[t] = Max({0, UsageAt(i, start, t) - available[t]})
    OBVIOUS
  <2> HIDE DEF overshoot, available
  <2> QED
    BY <2>1, <2>2 DEF Beyond
<1>5. \A t \in Steps : costs[t] = f[t]
  <2> TAKE t \in Steps
  <2>1. costs[t] = Applied(OvershootCosts(i, t), overshoot[t])
    OBVIOUS
  <2>2. f[t] = Applied(OvershootCosts(i, t), Beyond(i, start, t))
    BY <1>3 DEF Charges
  <2> HIDE DEF costs, overshoot, f
  <2> QED
    BY <1>4, <2>1, <2>2
<1>6. /\ CostsIn(i, start, Steps) = SumOf(f, O)
      /\ \A t \in Steps : f[t] \in Int
      /\ O \in SUBSET Steps
  <2> HIDE DEF Steps
  <2> QED
    BY <1>3, CostsAreSums
<1>7. \A t \in Steps \ O : f[t] = 0
  <2> TAKE t \in Steps \ O
  <2>1. t \in Nat /\ ~(Beyond(i, start, t) > 0)
    BY <1>3 DEF Over
  <2>2. Beyond(i, start, t) \in Nat
    BY <2>1, BeyondType
  <2>3. Beyond(i, start, t) = 0
    BY <2>1, <2>2
  <2>4. OvershootCosts(i, t) \in Polynomial
    BY <2>1, CostTypes
  <2>5. \A term \in OvershootCosts(i, t) : term[2] = 1
    BY <1>3 DEF Linear
  <2>6. Applied(OvershootCosts(i, t), Beyond(i, start, t)) = 0
    BY <2>3, <2>4, <2>5, AppliedType
  <2> QED
    BY <2>1, <2>6 DEF Charges
<1>8. SumOver(costs, Steps) = SumOf(costs, Steps)
  BY DEF SumOver, SumOf
<1>9. SumOf(costs, Steps) = CostsIn(i, start, Steps)
  <2> HIDE DEF costs, f, O, Steps
  <2>1. SumOf(f, Steps) = SumOf(costs, Steps)
    BY <1>3, <1>5, <1>6, SumsEqual
  <2>2. SumOf(f, Steps) = SumOf(f, O) + SumOf(f, Steps \ O)
    BY <1>3, <1>6, SumUnion
  <2>3. SumOf(f, Steps \ O) = 0
    BY <1>3, <1>7, FS_Difference, SumOfZeros
  <2>4. SumOf(f, O) \in Int
    BY <1>3, <1>6, FS_Subset, SumPicks
  <2> QED
    BY <1>6, <2>1, <2>2, <2>3, <2>4
<1>10. N \in AllSteps(i) /\ \A t \in Nat : N <= t => UsageAt(i, start, t) = 0
  <2>1. N \in AllSteps(i)
    BY HorizonFacts DEF AllSteps
  <2>2. ASSUME NEW t \in Nat, N <= t PROVE UsageAt(i, start, t) = 0
    <3>1. \A v \in Job : start[v] + i.duration[v] <= t
      <4> TAKE v \in Job
      <4>1. start[v] + i.duration[v] <= N /\ start[v] \in Nat /\ i.duration[v] \in Nat
        BY <1>2, DiscreteEnds, SolutionTypes
      <4> QED
        BY <1>2, <2>2, <4>1
    <3> QED
      BY <1>2, <3>1, NothingOutside
  <2> QED
    BY <2>1, <2>2
<1>11. CostsIn(i, start, Steps) = CostsIn(i, start, AllSteps(i))
  BY <1>10, TotalIsReached
<1>12. Max({0} \cup Range(overshoot)) = LeastCapacity(i, start)
  <2> DEFINE M == Max({0} \cup {Beyond(i, start, t) : t \in Steps})
  <2>1. Range(overshoot) = {overshoot[t] : t \in Steps}
    BY DEF Range
  <2>2. Range(overshoot) = {Beyond(i, start, t) : t \in Steps}
    <3> HIDE DEF overshoot
    <3> QED
      BY <1>4, <2>1
  <2>3. MostBeyond(i, start, 0 .. 0 - 1, 0)
    BY DEF MostBeyond
  <2>4. 0 \in Nat /\ 0 <= N
    BY <1>2
  <2>5. MostBeyond(i, start, Steps, M)
    BY <1>2, <2>3, <2>4, MostGrows
  <2>6. M = LeastCapacity(i, start)
    <3> HIDE DEF M
    <3> QED
      BY <1>10, <2>5, TotalIsReached
  <2> QED
    BY <2>2, <2>6
<1> HIDE DEF costs, overshoot, Steps
<1> QED
  BY <1>1, <1>8, <1>9, <1>11, <1>12 DEF TotalCosts

\* What DTILP returns.
DiscreteInv ==
  /\ SweepInv
  /\ solSource = "DTILP" =>
       /\ \/ solPhase = "infeasible"
          \/ solPhase = "failed" /\ Linear(solInstance)
            => DiscreteSchedules(solInstance) = {}
       /\ solPhase \notin {"infeasible", "failed"} =>
            /\ Linear(solInstance)
            /\ Objective(solInstance, solStart)
                 = Min({Objective(solInstance, start) : start \in DiscreteSchedules(solInstance)})

\* DTILP has not run yet.
LEMMA InitDiscreteInv == SolutionInit => DiscreteInv
<1> SUFFICES ASSUME SolutionInit PROVE DiscreteInv
  OBVIOUS
<1>1. SweepInv
  BY InitSweepInv
<1>2. solSource = "any"
  BY DEF SolutionInit
<1> QED
  BY <1>1, <1>2 DEF DiscreteInv

\* What it returned is not changed any more.
LEMMA NextDiscreteInv == DiscreteInv /\ [SolutionNext]_solutionVars => DiscreteInv'
<1> SUFFICES ASSUME DiscreteInv, [SolutionNext]_solutionVars PROVE DiscreteInv'
  OBVIOUS
<1>1. SweepInv'
  BY NextSweepInv DEF DiscreteInv
<1>2. CASE TakeSchedule
  <2>1. solSource' = "any"
    BY <1>2 DEF TakeSchedule, DiscreteInv, SweepInv, SolutionInv
  <2> QED
    BY <1>1, <2>1 DEF DiscreteInv
<1>3. CASE SolveDTILP
  <2> DEFINE objective(i) == [start \in DiscreteSchedules(i) |-> Objective(i, start)]
  <2>1. PICK i \in SolutionCases :
          /\ solInstance' = i
          /\ IF CountWraps(i) \/ ~ Linear(i) THEN solPhase' = "failed" /\ UNCHANGED solStart
             ELSE IF DiscreteSchedules(i) = {}
             THEN solPhase' = "infeasible" /\ UNCHANGED solStart
             ELSE /\ solStart' \in {start \in DiscreteSchedules(i) :
                                      objective(i)[start] = Min(Range(objective(i)))}
                  /\ solPhase' = "solved"
    BY <1>3 DEF SolveDTILP
  <2>2. Range(objective(i)) = {Objective(i, start) : start \in DiscreteSchedules(i)}
    BY DEF Range
  <2>3. \A start \in DiscreteSchedules(i) : objective(i)[start] = Objective(i, start)
    OBVIOUS
  <2> HIDE DEF objective
  <2>4. CASE CountWraps(i) \/ ~ Linear(i)
    <3>1. solPhase' = "failed" /\ (Linear(i) => DiscreteSchedules(i) = {})
      BY <2>1, <2>4, WrappedIsInfeasible
    <3> QED
      BY <1>1, <2>1, <3>1 DEF DiscreteInv
  <2>5. CASE ~ CountWraps(i) /\ Linear(i) /\ DiscreteSchedules(i) = {}
    BY <1>1, <2>1, <2>5 DEF DiscreteInv
  <2>6. CASE ~ CountWraps(i) /\ Linear(i) /\ DiscreteSchedules(i) # {}
    <3>1. solPhase' = "solved" /\ solStart' \in DiscreteSchedules(i) /\ Linear(i)
          /\ objective(i)[solStart'] = Min(Range(objective(i)))
      BY <2>1, <2>6
    <3>2. Objective(i, solStart')
            = Min({Objective(i, start) : start \in DiscreteSchedules(i)})
      BY <2>2, <2>3, <3>1
    <3>3. Objective(solInstance', solStart')
            = Min({Objective(solInstance', start) : start \in DiscreteSchedules(solInstance')})
      BY <2>1, <3>2
    <3> QED
      BY <1>1, <2>1, <3>1, <3>3 DEF DiscreteInv
  <2> QED
    BY <2>4, <2>5, <2>6
<1>4. CASE SortEvents
  BY <1>1, <1>4 DEF DiscreteInv, SortEvents
<1>5. CASE HandleEvent
  BY <1>1, <1>5 DEF DiscreteInv, HandleEvent
<1>6. CASE InvestmentCosts
  BY <1>1, <1>6 DEF DiscreteInv, InvestmentCosts
<1>7. CASE Verify
  BY <1>1, <1>7 DEF DiscreteInv, Verify
<1>8. CASE UNCHANGED solutionVars
  BY <1>1, <1>8 DEF DiscreteInv, solutionVars
<1> QED
  BY <1>2, <1>3, <1>4, <1>5, <1>6, <1>7, <1>8 DEF SolutionNext

(***************************************************************************)
(* Unless a coefficient is below zero, DTILP finds what is cheapest by the *)
(* costs that the runner computes among all that verify() accepts and that *)
(* meets the hard deadline.  Where nothing does, it says so or, if a step  *)
(* count wraps, breaks down; over linear costs it breaks down for nothing  *)
(* else.                                                                   *)
(***************************************************************************)
THEOREM DiscreteIsCheapest == SolutionSpec => []DiscreteOptimum
<1>1. DiscreteInv => DiscreteOptimum
  <2> SUFFICES ASSUME DiscreteInv PROVE DiscreteOptimum
    OBVIOUS
  <2> DEFINE i == solInstance
             Costs(start) == CostsIn(i, start, AllSteps(i))
                               + Applied(i.investment, LeastCapacity(i, start))
  <2>1. CASE solSource # "DTILP"
    BY <2>1 DEF DiscreteOptimum
  <2>2. CASE solSource = "DTILP"
    <3>1. i \in SolutionCases /\ SweepInv /\ SolutionInv
      BY DEF DiscreteInv, SweepInv, SolutionInv
    <3>2. DiscreteSchedules(i) = Acceptable(i)
      BY <3>1, DiscreteIsAcceptable
    <3>3. \/ solPhase = "infeasible"
          \/ solPhase = "failed" /\ Linear(i)
            => Acceptable(i) = {}
      BY <2>2, <3>2 DEF DiscreteInv
    <3>4. ASSUME solPhase = "verified"
          PROVE  /\ solStart \in Acceptable(i)
                 /\ ~ OvershootRebate(i) /\ ~ InvestmentRebate(i) =>
                      solCosts.overshoot + solCosts.investment
                        = Min({Costs(start) : start \in Acceptable(i)})
      <4>1. /\ solStart \in DiscreteSchedules(i) /\ Linear(i)
            /\ Objective(i, solStart)
                 = Min({Objective(i, start) : start \in DiscreteSchedules(i)})
            /\ AllCharged
        BY <2>2, <3>1, <3>4 DEF DiscreteInv, SweepInv, SolutionInv
      <4>2. solStart \in Acceptable(i)
        BY <3>2, <4>1
      <4> SUFFICES ASSUME ~ OvershootRebate(i), ~ InvestmentRebate(i)
                   PROVE  solCosts.overshoot + solCosts.investment
                            = Min({Costs(start) : start \in Acceptable(i)})
        BY <4>2
      <4>3. \A start \in DiscreteSchedules(i) : Objective(i, start) = Costs(start)
        BY <3>1, <4>1, ObjectiveIsCosts DEF TotalCosts
      <4>4. solCosts.overshoot + solCosts.investment = Costs(solStart)
        BY <4>1 DEF AllCharged
      <4> HIDE DEF Costs
      <4>5. {Objective(i, start) : start \in DiscreteSchedules(i)}
              = {Costs(start) : start \in Acceptable(i)}
        BY <3>2, <4>3
      <4> QED
        BY <3>2, <4>1, <4>3, <4>4, <4>5
    <3> QED
      BY <2>2, <3>3, <3>4 DEF DiscreteOptimum, Acceptable
  <2> QED
    BY <2>1, <2>2
<1>2. DiscreteInv /\ [SolutionNext]_solutionVars => DiscreteInv'
  BY NextDiscreteInv
<1> QED
  BY <1>1, <1>2, InitDiscreteInv, PTL DEF SolutionSpec

=============================================================================
