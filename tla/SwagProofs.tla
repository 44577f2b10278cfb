----------------------------- MODULE SwagProofs -----------------------------
(***************************************************************************)
(* Safety of the search of the SWAG solver, for every set of instances and *)
(* all parameters.                                                         *)
(*                                                                         *)
(* The heart of the matter is that an edge is inserted on the strength of  *)
(* windows that may be out of date.  Two facts save it.  There is always a *)
(* schedule within the windows that respects the graph (Admits), although  *)
(* the solver never computes it; and an edge along which the windows are   *)
(* not consistent has its job in a queue, or among those that were put     *)
(* aside, and then it lies beyond the active range (StartsTight,           *)
(* FinishsTight).                                                          *)
(*                                                                         *)
(* The second half of the module is about what the windows are worth.  No  *)
(* end of a window is ever held by nothing: the base value, an edge or a   *)
(* pending look at the job holds it (HeldInv).  So a deletion gives the    *)
(* room that its trial promised, and in the active range the windows are   *)
(* the least solution of the lag graph, which is what complete propagation *)
(* computes.                                                               *)
(***************************************************************************)
EXTENDS Swag, ScheduleProofs, SequenceTheorems, FiniteSetTheorems, TLAPS

-----------------------------------------------------------------------------
(* Instances and sequences of jobs                                         *)

\* What an instance of the set of instances is made of.
LEMMA InstanceFacts ==
  ASSUME inst \in Instances
  PROVE  /\ \A v \in Job : /\ inst.duration[v] \in Nat
                           /\ inst.release[v] \in Nat
                           /\ inst.deadline[v] \in Nat
         /\ inst.release \in [Job -> Nat] /\ inst.deadline \in [Job -> Nat]
         /\ inst.lag \subseteq Job \X Job
         /\ Solvable(inst)
<1>1. inst \in Instance /\ Solvable(inst)
  BY InstancesAssumption
<1> QED
  BY <1>1 DEF Instance

\* There are finitely many jobs, and at least one.
LEMMA JobFacts ==
  /\ IsFiniteSet(Job) /\ 1 \in Job /\ Job \subseteq Nat
<1>1. IsFiniteSet(1 .. JobCount)
  BY JobCountAssumption, FS_Interval
<1> QED
  BY <1>1, JobCountAssumption DEF Job

\* A stack is its top and what is below it.
LEMMA StackFacts ==
  ASSUME NEW q \in Seq(Job), q # <<>>
  PROVE  /\ Front(q) \in Seq(Job)
         /\ Last(q) \in Job
         /\ \A v \in Range(q) : v = Last(q) \/ v \in Range(Front(q))
<1>1. Len(q) \in Nat /\ Len(q) # 0 /\ DOMAIN q = 1 .. Len(q)
  BY EmptySeq, LenProperties
<1>2. /\ Front(q) \in Seq(Job)
      /\ Len(Front(q)) = Len(q) - 1
      /\ \A i \in 1 .. Len(q) - 1 : Front(q)[i] = q[i]
  <2>1. \A i \in 1 .. Len(q) - 1 : q[i] \in Job
    BY <1>1, ElementOfSeq
  <2> QED
    BY <1>1, <2>1, SubSeqProperties DEF Front
<1>3. Last(q) \in Job
  BY <1>1, ElementOfSeq DEF Last
<1>4. DOMAIN Front(q) = 1 .. Len(q) - 1
  BY <1>2, LenProperties
<1>5. ASSUME NEW v \in Range(q) PROVE v = Last(q) \/ v \in Range(Front(q))
  <2>1. PICK i \in 1 .. Len(q) : v = q[i]
    BY <1>1 DEF Range
  <2>2. CASE i = Len(q)
    BY <2>1, <2>2 DEF Last
  <2>3. CASE i # Len(q)
    <3>1. i \in 1 .. Len(q) - 1
      <4>1. \A n \in Nat : \A j \in 1 .. n : j # n => j \in 1 .. n - 1
        OBVIOUS
      <4> QED
        BY <1>1, <2>1, <2>3, <4>1, Zenon
    <3> QED
      BY <1>2, <1>4, <2>1, <3>1 DEF Range
  <2> QED
    BY <2>2, <2>3
<1> QED
  BY <1>2, <1>3, <1>5

\* Pushing some jobs onto a stack.
LEMMA PushFacts ==
  ASSUME NEW q \in Seq(Job), NEW o \in Seq(Job)
  PROVE  /\ q \o o \in Seq(Job)
         /\ Range(q \o o) = Range(q) \cup Range(o)
BY ConcatProperties, RangeConcatenation

\* The empty sequence holds nothing.
LEMMA NothingIn == Range(<<>>) = {} /\ <<>> \in Seq(Job)
<1>1. <<>> \in Seq(Job) /\ Len(<<>>) = 0
  BY EmptySeq
<1>2. DOMAIN <<>> = 1 .. 0
  BY <1>1, LenProperties
<1> QED
  BY <1>1, <1>2 DEF Range

\* A list of the elements of a set of jobs.
LEMMA OrderFacts ==
  ASSUME NEW S, S \subseteq Job, NEW o \in Orders(S)
  PROVE  o \in Seq(Job) /\ Range(o) = S
<1>1. Cardinality(S) \in Nat
  BY JobFacts, FS_Subset, FS_CardinalityType
<1>2. o \in [1 .. Cardinality(S) -> S] /\ Range(o) = S
  BY DEF Orders
<1>3. o \in [1 .. Cardinality(S) -> Job]
  BY <1>2
<1>4. o \in Seq(Job)
  BY <1>1, <1>3, SeqDef
<1> QED
  BY <1>2, <1>4

\* There is one list of nothing.
LEMMA NothingToOrder ==
  ASSUME NEW o \in Orders({})
  PROVE  o = <<>>
<1>1. o \in Seq(Job) /\ Range(o) = {}
  BY OrderFacts
<1>2. SUFFICES ASSUME o # <<>> PROVE FALSE
  OBVIOUS
<1>3. Len(o) \in Nat \ {0} /\ DOMAIN o = 1 .. Len(o)
  BY <1>1, <1>2, EmptySeq, LenProperties
<1>4. o[1] \in Range(o)
  BY <1>3 DEF Range
<1> QED
  BY <1>1, <1>4

-----------------------------------------------------------------------------
(* The inductive invariant                                                 *)

Starting == {"InitES", "InitLF"}

\* The functions during which jobs move before the sky line is told.
Moving == {"RangeLF", "RangeES", "StuckLF", "StuckES", "RebuildES",
           "RebuildLF", "ResetLF", "ResetES", "InsertES", "InsertLF"}

\* Which queues can hold something, where the propagation is complete, and
\* that the jobs of a candidate differ.
Control ==
  /\ pc \notin {"InitES", "RangeES", "StuckES", "RebuildES", "ResetES", "InsertES"}
       => esQueue = <<>>
  /\ pc \notin {"InitES", "InitLF", "RangeLF", "StuckLF", "RebuildES",
                "RebuildLF", "ResetLF", "InsertES", "InsertLF"}
       => lfQueue = <<>>
  /\ pc \notin {"RangeLF", "StuckLF", "Iterate", "Candidate", "InsertES",
                "InsertLF", "Done"}
       => esLate = <<>>
  /\ pc \notin {"Iterate", "Candidate", "InsertES", "InsertLF", "Done"}
       => lfLate = <<>>
  /\ pc \in Starting \cup {"RangeLF", "RangeES", "StuckLF", "StuckES", "ResetLF",
                          "ResetES"}
       => force
  /\ pc \in Starting => edges = {}
  /\ pc \in Starting \cup {"Iterate"} => sincePush <= ForceAfter
  /\ \A e \in candidates : e[1] # e[2]

\* A schedule within the windows that respects the graph.
Within(T) ==
  /\ T \in [Job -> Nat]
  /\ \A v \in Job : es[v] <= T[v] /\ T[v] + Duration(v) <= lf[v]
  /\ \A e \in Graph : T[e[1]] + Duration(e[1]) <= T[e[2]]

Admits == \E T : Within(T)

\* An edge whose jobs' starts are not consistent has its first job in a queue,
\* or put aside, and then its second job lies beyond the active range.
StartsTight ==
  \A e \in Graph :
    \/ es[e[1]] + Duration(e[1]) <= es[e[2]]
    \/ pc # "RebuildES" /\ e[1] \in Range(esQueue)
    \/ e[1] \in Range(esLate) /\ (pc = "RangeLF" \/ es[e[2]] > active[2])

\* The same for the finishs.
FinishsTight ==
  \A e \in Graph :
    \/ lf[e[1]] + Duration(e[2]) <= lf[e[2]]
    \/ pc \notin {"RebuildES", "RebuildLF"} /\ e[2] \in Range(lfQueue)
    \/ e[2] \in Range(lfLate) /\ lf[e[1]] < active[1]

\* The windows of the lag graph alone, to which a reset returns.
BaseOK ==
  pc \notin Starting =>
    /\ \A v \in Job : /\ inst.release[v] <= baseES[v]
                      /\ baseLF[v] <= inst.deadline[v]
                      /\ baseES[v] + Duration(v) <= baseLF[v]
    /\ \A e \in inst.lag :
         /\ baseES[e[1]] + Duration(e[1]) <= baseES[e[2]]
         /\ baseLF[e[1]] + Duration(e[2]) <= baseLF[e[2]]

\* A job that is not where the sky line has it is in the list of changes.
SkyLineFollows ==
  pc \notin Starting =>
    \A v \in Job : pos[v] = es[v] \/ (pc \in Moving /\ v \in changed)

IInv ==
  /\ TypeOK /\ Control /\ Admits /\ StartsTight /\ FinishsTight /\ BaseOK
  /\ BestFeasible /\ SkyLineFollows

-----------------------------------------------------------------------------
(* Consequences of the types                                               *)

LEMMA TypeFacts ==
  ASSUME TypeOK
  PROVE  /\ \A v \in Job : es[v] \in Nat /\ lf[v] \in Nat /\ Duration(v) \in Nat
         /\ es \in [Job -> Nat] /\ lf \in [Job -> Nat]
         /\ Graph \subseteq Job \X Job
         /\ \A v, w \in Job : /\ w \in Succ(v) <=> <<v, w>> \in Graph
                              /\ v \in Pred(w) <=> <<v, w>> \in Graph
         /\ active[1] \in Nat /\ active[2] \in Nat
         /\ esQueue \in Seq(Job) /\ lfQueue \in Seq(Job)
         /\ esLate \in Seq(Job) /\ lfLate \in Seq(Job)
<1>1. inst \in Instances
  BY DEF TypeOK
<1>2. \A v \in Job : Duration(v) \in Nat
  BY <1>1, InstanceFacts DEF Duration
<1>3. Graph \subseteq Job \X Job
  BY <1>1, InstanceFacts DEF Graph, TypeOK
<1>4. active[1] \in Nat /\ active[2] \in Nat
  BY DEF TypeOK
<1> QED
  BY <1>2, <1>3, <1>4 DEF TypeOK, Succ, Pred

\* A job is never its own successor, unless it takes no time; and a job ends
\* within its window.
LEMMA WindowFacts ==
  ASSUME TypeOK, Admits
  PROVE  /\ \A v \in Job : <<v, v>> \in Graph => Duration(v) = 0
         /\ \A v \in Job : es[v] + Duration(v) <= lf[v] /\ Duration(v) <= lf[v]
<1>1. PICK T : Within(T)
  BY DEF Admits
<1>2. \A v \in Job : T[v] \in Nat /\ Duration(v) \in Nat /\ es[v] \in Nat
                     /\ lf[v] \in Nat
  BY <1>1, TypeFacts DEF Within
<1>3. ASSUME NEW v \in Job, <<v, v>> \in Graph PROVE Duration(v) = 0
  <2>1. T[v] + Duration(v) <= T[v]
    BY <1>1, <1>3 DEF Within
  <2> QED
    BY <1>2, <2>1
<1>4. \A v \in Job : es[v] + Duration(v) <= lf[v] /\ Duration(v) <= lf[v]
  BY <1>1, <1>2 DEF Within
<1> QED
  BY <1>3, <1>4

-----------------------------------------------------------------------------
(* What one round of a propagation does                                    *)

LEMMA PushESFacts ==
  ASSUME TypeOK, Control, Admits, PushES, NEW v, v = Last(esQueue)
  PROVE  /\ v \in Job /\ es'[v] = es[v]
         /\ es' \in [Job -> Nat]
         /\ esQueue' \in Seq(Job) /\ esLate' \in Seq(Job)
         /\ changed' \subseteq Job
         /\ \A w \in Job :
              \/ /\ es'[w] = es[w]
                 /\ <<v, w>> \in Graph => es[v] + Duration(v) <= es[w]
              \/ /\ <<v, w>> \in Graph /\ es[w] < es[v] + Duration(v)
                 /\ es'[w] = es[v] + Duration(v)
                 /\ w \in changed'
                 /\ \/ w \in Range(esQueue')
                    \/ w \in Range(esLate') /\ es[w] > active[2]
         /\ \A w \in Range(esQueue) : w = v \/ w \in Range(esQueue')
         /\ \A w \in Range(esLate) : w \in Range(esLate')
         /\ force => esLate' = esLate
         /\ changed \subseteq changed'
<1> DEFINE start    == es[v] + Duration(v)
           Moved    == {w \in Succ(v) : start > es[w]}
           Deferred == {w \in Moved : ~force /\ Behind(w)}
<1>1. /\ esQueue # <<>>
      /\ es' = [w \in Job |-> IF w \in Moved THEN start ELSE es[w]]
      /\ \E o \in Orders(Moved \ Deferred) : esQueue' = Front(esQueue) \o o
      /\ \E o \in Orders(Deferred) : esLate' = esLate \o o
      /\ changed' = changed \cup Moved
  BY DEF PushES
<1>2. /\ v \in Job /\ Front(esQueue) \in Seq(Job)
      /\ \A w \in Range(esQueue) : w = v \/ w \in Range(Front(esQueue))
  BY <1>1, TypeFacts, StackFacts
<1>3. Moved \subseteq Job /\ Deferred \subseteq Moved
  BY DEF Succ
<1>4. start \in Nat
  BY <1>2, TypeFacts
<1>5. PICK o \in Orders(Moved \ Deferred) : esQueue' = Front(esQueue) \o o
  BY <1>1
<1>6. o \in Seq(Job) /\ Range(o) = Moved \ Deferred
  BY <1>3, OrderFacts
<1>7. /\ esQueue' \in Seq(Job)
      /\ Range(esQueue') = Range(Front(esQueue)) \cup (Moved \ Deferred)
  BY <1>2, <1>5, <1>6, PushFacts
<1>8. PICK p \in Orders(Deferred) : esLate' = esLate \o p
  BY <1>1
<1>9. p \in Seq(Job) /\ Range(p) = Deferred
  BY <1>3, OrderFacts
<1>10. esLate' \in Seq(Job) /\ Range(esLate') = Range(esLate) \cup Deferred
  BY <1>8, <1>9, PushFacts, TypeFacts
<1>11. ASSUME force PROVE esLate' = esLate
  <2>1. Deferred = {}
    BY <1>11
  <2>2. p = <<>>
    BY <1>8, <2>1, NothingToOrder
  <2> QED
    BY <1>8, <2>2, ConcatEmptySeq, TypeFacts
<1>12. es'[v] = es[v]
  <2>1. v \notin Moved
    <3>1. SUFFICES ASSUME v \in Moved PROVE FALSE
      OBVIOUS
    <3>2. <<v, v>> \in Graph
      BY <3>1 DEF Succ
    <3>3. Duration(v) = 0
      BY <1>2, <3>2, WindowFacts
    <3> QED
      BY <1>2, <3>1, <3>3, TypeFacts
  <2> QED
    BY <1>1, <1>2, <2>1
<1>13. es' \in [Job -> Nat]
  BY <1>1, <1>4, TypeFacts
<1>14. ASSUME NEW w \in Job
       PROVE  \/ /\ es'[w] = es[w]
                 /\ <<v, w>> \in Graph => es[v] + Duration(v) <= es[w]
              \/ /\ <<v, w>> \in Graph /\ es[w] < es[v] + Duration(v)
                 /\ es'[w] = es[v] + Duration(v)
                 /\ w \in changed'
                 /\ \/ w \in Range(esQueue')
                    \/ w \in Range(esLate') /\ es[w] > active[2]
  <2>1. CASE w \in Moved
    <3>1. <<v, w>> \in Graph /\ es[w] < start /\ es'[w] = start /\ w \in changed'
      BY <1>1, <1>4, <2>1, TypeFacts DEF Succ
    <3>2. CASE w \in Deferred
      <4>1. w \in Range(esLate') /\ es[w] > active[2]
        BY <1>10, <3>2 DEF Behind
      <4> QED
        BY <3>1, <4>1
    <3>3. CASE w \notin Deferred
      <4>1. w \in Range(esQueue')
        BY <1>7, <2>1, <3>3
      <4> QED
        BY <3>1, <4>1
    <3> QED
      BY <3>2, <3>3
  <2>2. CASE w \notin Moved
    <3>1. es'[w] = es[w]
      BY <1>1, <2>2
    <3>2. ASSUME <<v, w>> \in Graph PROVE start <= es[w]
      <4>1. w \in Succ(v)
        BY <3>2 DEF Succ
      <4>2. ~(start > es[w])
        BY <2>2, <4>1
      <4> QED
        BY <1>4, <4>2, TypeFacts
    <3> QED
      BY <3>1, <3>2
  <2> QED
    BY <2>1, <2>2
<1>15. /\ \A w \in Range(esQueue) : w = v \/ w \in Range(esQueue')
       /\ \A w \in Range(esLate) : w \in Range(esLate')
  BY <1>2, <1>7, <1>10
<1>16. changed \subseteq changed' /\ changed' \subseteq Job
  BY <1>1, <1>3 DEF TypeOK
<1> QED
  BY <1>2, <1>7, <1>10, <1>11, <1>12, <1>13, <1>14, <1>15, <1>16

LEMMA PushLFFacts ==
  ASSUME TypeOK, Control, Admits, PushLF, NEW v, v = Last(lfQueue)
  PROVE  /\ v \in Job /\ lf'[v] = lf[v]
         /\ lf' \in [Job -> Nat]
         /\ lfQueue' \in Seq(Job) /\ lfLate' \in Seq(Job)
         /\ \A u \in Job :
              \/ /\ lf'[u] = lf[u]
                 /\ <<u, v>> \in Graph => lf[u] + Duration(v) <= lf[v]
              \/ /\ <<u, v>> \in Graph /\ lf[v] < lf[u] + Duration(v)
                 /\ lf'[u] = lf[v] - Duration(v)
                 /\ \/ u \in Range(lfQueue')
                    \/ u \in Range(lfLate') /\ lf[u] < active[1]
         /\ \A u \in Range(lfQueue) : u = v \/ u \in Range(lfQueue')
         /\ \A u \in Range(lfLate) : u \in Range(lfLate')
         /\ force => lfLate' = lfLate
<1> DEFINE finish   == lf[v] - Duration(v)
           Moved    == {u \in Pred(v) : finish < lf[u]}
           Deferred == {u \in Moved : ~force /\ Before(u)}
<1>1. /\ lfQueue # <<>>
      /\ lf' = [u \in Job |-> IF u \in Moved THEN finish ELSE lf[u]]
      /\ \E o \in Orders(Moved \ Deferred) : lfQueue' = Front(lfQueue) \o o
      /\ \E o \in Orders(Deferred) : lfLate' = lfLate \o o
  BY DEF PushLF
<1>2. /\ v \in Job /\ Front(lfQueue) \in Seq(Job)
      /\ \A u \in Range(lfQueue) : u = v \/ u \in Range(Front(lfQueue))
  BY <1>1, TypeFacts, StackFacts
<1>3. Moved \subseteq Job /\ Deferred \subseteq Moved
  BY DEF Pred
<1>4. finish \in Nat
  BY <1>2, TypeFacts, WindowFacts
<1>5. PICK o \in Orders(Moved \ Deferred) : lfQueue' = Front(lfQueue) \o o
  BY <1>1
<1>6. o \in Seq(Job) /\ Range(o) = Moved \ Deferred
  BY <1>3, OrderFacts
<1>7. /\ lfQueue' \in Seq(Job)
      /\ Range(lfQueue') = Range(Front(lfQueue)) \cup (Moved \ Deferred)
  BY <1>2, <1>5, <1>6, PushFacts
<1>8. PICK p \in Orders(Deferred) : lfLate' = lfLate \o p
  BY <1>1
<1>9. p \in Seq(Job) /\ Range(p) = Deferred
  BY <1>3, OrderFacts
<1>10. lfLate' \in Seq(Job) /\ Range(lfLate') = Range(lfLate) \cup Deferred
  BY <1>8, <1>9, PushFacts, TypeFacts
<1>11. ASSUME force PROVE lfLate' = lfLate
  <2>1. Deferred = {}
    BY <1>11
  <2>2. p = <<>>
    BY <1>8, <2>1, NothingToOrder
  <2> QED
    BY <1>8, <2>2, ConcatEmptySeq, TypeFacts
<1>12. lf'[v] = lf[v]
  <2>1. v \notin Moved
    <3>1. SUFFICES ASSUME v \in Moved PROVE FALSE
      OBVIOUS
    <3>2. <<v, v>> \in Graph
      BY <3>1 DEF Pred
    <3>3. Duration(v) = 0
      BY <1>2, <3>2, WindowFacts
    <3> QED
      BY <1>2, <3>1, <3>3, TypeFacts
  <2> QED
    BY <1>1, <1>2, <2>1
<1>13. lf' \in [Job -> Nat]
  BY <1>1, <1>4, TypeFacts
<1>14. ASSUME NEW u \in Job
       PROVE  \/ /\ lf'[u] = lf[u]
                 /\ <<u, v>> \in Graph => lf[u] + Duration(v) <= lf[v]
              \/ /\ <<u, v>> \in Graph /\ lf[v] < lf[u] + Duration(v)
                 /\ lf'[u] = lf[v] - Duration(v)
                 /\ \/ u \in Range(lfQueue')
                    \/ u \in Range(lfLate') /\ lf[u] < active[1]
  <2>0. lf[u] \in Nat /\ lf[v] \in Nat /\ Duration(v) \in Nat
    BY <1>2, TypeFacts
  <2>1. CASE u \in Moved
    <3>1. <<u, v>> \in Graph /\ finish < lf[u] /\ lf'[u] = finish
      BY <1>1, <2>1 DEF Pred
    <3>2. lf[v] < lf[u] + Duration(v)
      BY <2>0, <3>1
    <3>3. CASE u \in Deferred
      <4>1. u \in Range(lfLate') /\ lf[u] < active[1]
        BY <1>10, <3>3 DEF Before
      <4> QED
        BY <3>1, <3>2, <4>1
    <3>4. CASE u \notin Deferred
      <4>1. u \in Range(lfQueue')
        BY <1>7, <2>1, <3>4
      <4> QED
        BY <3>1, <3>2, <4>1
    <3> QED
      BY <3>3, <3>4
  <2>2. CASE u \notin Moved
    <3>1. lf'[u] = lf[u]
      BY <1>1, <2>2
    <3>2. ASSUME <<u, v>> \in Graph PROVE lf[u] + Duration(v) <= lf[v]
      <4>1. u \in Pred(v)
        BY <3>2 DEF Pred
      <4>2. ~(finish < lf[u])
        BY <2>2, <4>1
      <4> QED
        BY <2>0, <4>2
    <3> QED
      BY <3>1, <3>2
  <2> QED
    BY <2>1, <2>2
<1>15. /\ \A u \in Range(lfQueue) : u = v \/ u \in Range(lfQueue')
       /\ \A u \in Range(lfLate) : u \in Range(lfLate')
  BY <1>2, <1>7, <1>10
<1> QED
  BY <1>2, <1>7, <1>10, <1>11, <1>12, <1>13, <1>14, <1>15

LEMMA RebuildESFacts ==
  ASSUME TypeOK, RebuildES, NEW v, v = Last(esQueue)
  PROVE  /\ v \in Job
         /\ es' \in [Job -> Nat] /\ inst.release[v] <= es'[v]
         /\ esQueue' \in Seq(Job)
         /\ changed \subseteq changed' /\ changed' \subseteq Job
         /\ \A w \in Job : w # v => es'[w] = es[w]
         /\ \/ es'[v] = es[v]
            \/ /\ es'[v] < es[v] /\ v \in changed'
               /\ \A u \in Job :
                    <<u, v>> \in Graph => es[u] + Duration(u) <= es'[v]
<1> DEFINE Bounds == {inst.release[v]} \cup {es[u] + Duration(u) : u \in Pred(v)}
<1>1. esQueue # <<>>
  BY DEF RebuildES
<1>2. v \in Job /\ Front(esQueue) \in Seq(Job)
  BY <1>1, TypeFacts, StackFacts
<1>3. PICK start \in Bounds :
        /\ \A b \in Bounds : b <= start
        /\ \/ LowerStart(v, start)
           \/ start >= es[v] /\ esQueue' = Front(esQueue)
                             /\ UNCHANGED <<es, changed>>
  BY DEF RebuildES
<1>4. start \in Nat /\ inst.release[v] <= start /\ inst.release[v] <= es[v]
  <2>1. inst.release[v] \in Nat
    BY <1>2, InstanceFacts DEF TypeOK
  <2>2. \A u \in Pred(v) : es[u] + Duration(u) \in Nat
    BY TypeFacts DEF Pred
  <2>3. inst.release[v] <= es[v]
    BY <1>2 DEF TypeOK
  <2> QED
    BY <1>3, <2>1, <2>2, <2>3
<1>5. CASE LowerStart(v, start)
  <2>1. /\ start < es[v] /\ es' = [es EXCEPT ![v] = start]
        /\ \E o \in Orders(Succ(v)) : esQueue' = Front(esQueue) \o o
        /\ changed' = changed \cup {v}
    BY <1>5 DEF LowerStart
  <2>2. PICK o \in Orders(Succ(v)) : esQueue' = Front(esQueue) \o o
    BY <2>1
  <2>3. o \in Seq(Job)
    BY OrderFacts DEF Succ
  <2>4. esQueue' \in Seq(Job)
    BY <1>2, <2>2, <2>3, PushFacts
  <2>5. /\ es' \in [Job -> Nat] /\ es'[v] = start
        /\ \A w \in Job : w # v => es'[w] = es[w]
    BY <1>2, <1>4, <2>1, TypeFacts
  <2>6. \A u \in Job : <<u, v>> \in Graph => es[u] + Duration(u) <= start
    BY <1>3 DEF Pred
  <2>7. changed \subseteq changed' /\ changed' \subseteq Job /\ v \in changed'
    BY <1>2, <2>1 DEF TypeOK
  <2> QED
    BY <1>2, <1>4, <2>1, <2>4, <2>5, <2>6, <2>7
<1>6. CASE start >= es[v] /\ esQueue' = Front(esQueue)
                          /\ UNCHANGED <<es, changed>>
  BY <1>2, <1>4, <1>6, TypeFacts DEF TypeOK
<1> QED
  BY <1>3, <1>5, <1>6

LEMMA RebuildLFFacts ==
  ASSUME TypeOK, Admits, RebuildLF, NEW v, v = Last(lfQueue)
  PROVE  /\ v \in Job
         /\ lf' \in [Job -> Nat] /\ lf'[v] <= inst.deadline[v]
         /\ lfQueue' \in Seq(Job)
         /\ \A u \in Job : u # v => lf'[u] = lf[u]
         /\ \/ lf'[v] = lf[v]
            \/ /\ lf'[v] > lf[v]
               /\ \A w \in Job :
                    <<v, w>> \in Graph => lf'[v] + Duration(w) <= lf[w]
<1> DEFINE Bounds == {inst.deadline[v]} \cup {lf[w] - Duration(w) : w \in Succ(v)}
<1>1. lfQueue # <<>>
  BY DEF RebuildLF
<1>2. v \in Job /\ Front(lfQueue) \in Seq(Job)
  BY <1>1, TypeFacts, StackFacts
<1>3. PICK finish \in Bounds :
        /\ \A b \in Bounds : finish <= b
        /\ \/ /\ finish > lf[v]
              /\ lf' = [lf EXCEPT ![v] = finish]
              /\ \E o \in Orders(Pred(v)) : lfQueue' = Front(lfQueue) \o o
           \/ finish <= lf[v] /\ lfQueue' = Front(lfQueue) /\ UNCHANGED lf
  BY DEF RebuildLF
<1>4. /\ finish \in Nat /\ finish <= inst.deadline[v]
      /\ lf[v] <= inst.deadline[v]
  <2>1. inst.deadline[v] \in Nat
    BY <1>2, InstanceFacts DEF TypeOK
  <2>2. \A w \in Succ(v) : lf[w] - Duration(w) \in Nat
    BY TypeFacts, WindowFacts DEF Succ
  <2>3. lf[v] <= inst.deadline[v]
    BY <1>2 DEF TypeOK
  <2> QED
    BY <1>3, <2>1, <2>2, <2>3
<1>5. CASE /\ finish > lf[v]
           /\ lf' = [lf EXCEPT ![v] = finish]
           /\ \E o \in Orders(Pred(v)) : lfQueue' = Front(lfQueue) \o o
  <2>1. PICK o \in Orders(Pred(v)) : lfQueue' = Front(lfQueue) \o o
    BY <1>5
  <2>2. o \in Seq(Job)
    BY OrderFacts DEF Pred
  <2>3. lfQueue' \in Seq(Job)
    BY <1>2, <2>1, <2>2, PushFacts
  <2>4. /\ lf' \in [Job -> Nat] /\ lf'[v] = finish
        /\ \A u \in Job : u # v => lf'[u] = lf[u]
    BY <1>2, <1>4, <1>5, TypeFacts
  <2>5. ASSUME NEW w \in Job, <<v, w>> \in Graph
        PROVE  finish + Duration(w) <= lf[w]
    <3>1. finish <= lf[w] - Duration(w)
      BY <1>3, <2>5 DEF Succ
    <3> QED
      BY <1>4, <3>1, TypeFacts
  <2> QED
    BY <1>2, <1>4, <1>5, <2>3, <2>4, <2>5
<1>6. CASE finish <= lf[v] /\ lfQueue' = Front(lfQueue) /\ UNCHANGED lf
  BY <1>2, <1>4, <1>6, TypeFacts
<1> QED
  BY <1>3, <1>5, <1>6

\* Edges are deleted, their jobs are queued, and the pair that is wanted is
\* one of two different jobs.
LEMMA DeleteFacts ==
  ASSUME TypeOK, Delete
  PROVE  /\ edges' \subseteq edges
         /\ esQueue' \in Seq(Job) /\ lfQueue' \in Seq(Job)
         /\ candidates' \subseteq Job \X Job
         /\ \A e \in candidates' : e[1] # e[2]
<1>1. PICK o \in Sortings, k \in Trials :
        Succeeds(k, o) /\ DeleteFor(Trial(k, o)[1], Trial(k, o)[2])
  BY DEF Delete
<1> DEFINE s == Trial(k, o)[1]
           t == Trial(k, o)[2]
           n == Cardinality(jobs)
           Deleted == ForwardsEdges(t) \cup BackwardsEdges(s)
<1>2. s \in Job /\ t \in Job /\ s # t
  <2>1. n \in Nat
    BY JobFacts, FS_Subset, FS_CardinalityType DEF TypeOK
  <2>2. o[1] \in [1 .. n -> jobs] /\ o[2] \in [1 .. n -> jobs]
    BY <1>1 DEF Sortings, Orders
  <2>3. k \in Nat /\ (k \div 2) + (k % 2) < n
    BY <1>1, ParametersAssumption DEF Trials
  <2>4. (k \div 2) + 1 \in 1 .. n /\ (k \div 2) + (k % 2) + 1 \in 1 .. n
    BY <2>1, <2>3
  <2>5. s \in jobs /\ t \in jobs
    BY <2>2, <2>4 DEF Trial
  <2>6. s # t
    BY <1>1 DEF Succeeds, TrialSucceeds
  <2> QED
    BY <2>5, <2>6 DEF TypeOK
<1>3. /\ edges' = edges \ Deleted
      /\ candidates' = {<<s, t>>}
      /\ \E p \in Orders(Deleted) :
           /\ esQueue' = [i \in DOMAIN p |-> p[i][2]]
           /\ lfQueue' = [i \in DOMAIN p |-> p[i][1]]
  BY <1>1 DEF DeleteFor
<1>4. PICK p \in Orders(Deleted) :
        /\ esQueue' = [i \in DOMAIN p |-> p[i][2]]
        /\ lfQueue' = [i \in DOMAIN p |-> p[i][1]]
  BY <1>3
<1>5. Deleted \subseteq Job \X Job
  BY DEF ForwardsEdges, BackwardsEdges, TypeOK
<1>6. Cardinality(Deleted) \in Nat
  BY <1>5, JobFacts, FS_Product, FS_Subset, FS_CardinalityType
<1>7. p \in [1 .. Cardinality(Deleted) -> Deleted]
  BY <1>4 DEF Orders
<1>8. /\ esQueue' \in [1 .. Cardinality(Deleted) -> Job]
      /\ lfQueue' \in [1 .. Cardinality(Deleted) -> Job]
  <2>1. DOMAIN p = 1 .. Cardinality(Deleted)
    BY <1>7
  <2>2. ASSUME NEW i \in DOMAIN p PROVE p[i][1] \in Job /\ p[i][2] \in Job
    <3> HIDE DEF Deleted
    <3>1. p[i] \in Deleted
      BY <1>7
    <3>2. p[i] \in Job \X Job
      BY <1>5, <3>1
    <3> QED
      BY <3>2
  <2> QED
    BY <1>4, <2>1, <2>2
<1>9. esQueue' \in Seq(Job) /\ lfQueue' \in Seq(Job)
  BY <1>6, <1>8, SeqDef
<1> QED
  BY <1>2, <1>3, <1>9

-----------------------------------------------------------------------------
(* Types                                                                   *)

\* Ranges of a sky line are pairs of time steps.
LEMMA PeakRangeType ==
  ASSUME inst \in Instances, NEW start \in [Job -> Nat],
         NEW r \in PeakRanges(inst, start)
  PROVE  r \in Nat \X Nat
<1>1. Events(inst, start) \subseteq Nat
  BY InstanceFacts DEF Events
<1> QED
  BY <1>1 DEF PeakRanges

LEMMA RegenerateFacts ==
  ASSUME NEW r
  PROVE  /\ CandidateJobs(r) \subseteq Job
         /\ CandidateEdges(r) \subseteq Job \X Job
         /\ \A e \in CandidateEdges(r) : e[1] # e[2]
BY DEF CandidateJobs, CandidateEdges

\* Everything that was put aside joins a queue.
LEMMA JoinFacts ==
  ASSUME TypeOK
  PROVE  /\ lfQueue \o lfLate \in Seq(Job)
         /\ Range(lfQueue \o lfLate) = Range(lfQueue) \cup Range(lfLate)
         /\ esQueue \o esLate \in Seq(Job)
         /\ Range(esQueue \o esLate) = Range(esQueue) \cup Range(esLate)
BY TypeFacts, PushFacts

LEMMA InsertFacts ==
  ASSUME TypeOK, Control, Insert
  PROVE  \E e \in candidates :
           /\ Insertable(e[1], e[2]) /\ e = <<e[1], e[2]>>
           /\ e[1] \in Job /\ e[2] \in Job /\ e[1] # e[2]
           /\ edges' = edges \cup {e}
           /\ candidates' \subseteq candidates
           /\ esQueue' \in Seq(Job) /\ lfQueue' \in Seq(Job)
           /\ esLate' \in Seq(Job)
           /\ e[1] \in Range(esQueue') /\ e[2] \in Range(lfQueue')
           /\ Range(esLate) \subseteq Range(esQueue') \cup Range(esLate')
           /\ Forced => esLate' = <<>>
           /\ ~Forced => esLate' = esLate
<1>1. PICK e \in candidates :
        /\ Insertable(e[1], e[2])
        /\ edges' = edges \cup {e}
        /\ candidates' = candidates \ {e}
        /\ esQueue' = <<e[1]>> \o (IF Forced THEN esLate ELSE <<>>)
        /\ lfQueue' = <<e[2]>>
  BY DEF Insert
<1>2. e = <<e[1], e[2]>> /\ e[1] \in Job /\ e[2] \in Job /\ e[1] # e[2]
  BY <1>1 DEF TypeOK, Control
<1>3. /\ <<e[1]>> \in Seq(Job) /\ Range(<<e[1]>>) = {e[1]}
      /\ <<e[2]>> \in Seq(Job) /\ Range(<<e[2]>>) = {e[2]}
  <2>1. ASSUME NEW v \in Job PROVE <<v>> \in Seq(Job) /\ Range(<<v>>) = {v}
    <3>1. DOMAIN <<v>> = {1} /\ <<v>>[1] = v
      OBVIOUS
    <3> QED
      BY <3>1 DEF Range
  <2> QED
    BY <1>2, <2>1
<1>4. esLate' = IF Forced THEN <<>> ELSE esLate
  BY DEF Insert
<1>5. CASE Forced
  <2>1. esQueue' = <<e[1]>> \o esLate
    BY <1>1, <1>5
  <2>2. esQueue' \in Seq(Job) /\ Range(esQueue') = {e[1]} \cup Range(esLate)
    BY <1>3, <2>1, PushFacts, TypeFacts
  <2> QED
    BY <1>1, <1>2, <1>3, <1>4, <1>5, <2>2, NothingIn
<1>6. CASE ~Forced
  <2>1. esQueue' = <<e[1]>> \o <<>>
    BY <1>1, <1>6
  <2>2. esQueue' \in Seq(Job) /\ Range(esQueue') = {e[1]}
    BY <1>3, <2>1, PushFacts, NothingIn
  <2> QED
    BY <1>1, <1>2, <1>3, <1>4, <1>6, <2>2, TypeFacts
<1> QED
  BY <1>5, <1>6

-----------------------------------------------------------------------------
(* There is always a schedule within the windows                           *)

\* The actions that leave the graph and the windows alone.
Quiet ==
  \/ InitTurn \/ InitEnd \/ PropagationTurn \/ RangeChanged \/ RangeChangedEnd
  \/ RangeKept \/ StuckEnd \/ OtherPeak \/ Record \/ DeleteTurn \/ DeleteEnd
  \/ ResetEnd \/ Discard \/ InsertTurn \/ InsertEnd \/ NothingInserted
  \/ TimeIsUp \/ UNCHANGED vars

LEMMA QuietFacts ==
  ASSUME Quiet
  PROVE  UNCHANGED <<inst, edges, es, lf>>
<1> USE DEF windows, queues, search, base, recorded
<1>1. CASE InitTurn \/ InitEnd \/ PropagationTurn \/ RangeChanged
  BY <1>1 DEF InitTurn, InitEnd, PropagationTurn, RangeChanged
<1>2. CASE RangeChangedEnd \/ RangeKept \/ StuckEnd
  BY <1>2 DEF RangeChangedEnd, RangeKept, StuckEnd
<1>3. CASE OtherPeak \/ Record \/ DeleteTurn \/ DeleteEnd
  BY <1>3 DEF OtherPeak, Record, DeleteTurn, DeleteEnd
<1>4. CASE ResetEnd \/ Discard \/ InsertTurn \/ InsertEnd \/ NothingInserted
  BY <1>4 DEF ResetEnd, Discard, InsertTurn, InsertEnd, NothingInserted
<1>5. CASE TimeIsUp \/ UNCHANGED vars
  BY <1>5 DEF TimeIsUp, vars
<1> QED
  BY <1>1, <1>2, <1>3, <1>4, <1>5 DEF Quiet

LEMMA NextCases ==
  ASSUME [Next]_vars
  PROVE  \/ PushES \/ PushLF \/ RebuildES \/ RebuildLF \/ Delete \/ Reset
         \/ Insert \/ Quiet
BY DEF Next, Step, Returned, Quiet

\* Where no edge waits for its propagation, a schedule that meets the windows
\* near the active range exactly and any schedule elsewhere can be joined: the
\* jobs that have to follow t move as late as they can, the others start as
\* early as they can.
LEMMA InsertAdmits ==
  ASSUME IInv, Insert
  PROVE  Admits'
<1>1. PICK e \in candidates :
        /\ Insertable(e[1], e[2]) /\ e = <<e[1], e[2]>>
        /\ e[1] \in Job /\ e[2] \in Job /\ e[1] # e[2]
        /\ edges' = edges \cup {e}
  BY InsertFacts DEF IInv
<1>2. PICK T : Within(T)
  BY DEF IInv, Admits
<1> DEFINE s     == e[1]
           t     == e[2]
           lo[v \in Job] == IF es[v] <= active[2] THEN es[v] ELSE T[v]
           hi[v \in Job] == IF lf[v] >= active[1] THEN lf[v] - Duration(v) ELSE T[v]
           D     == {v \in Job : v = t \/ lo[v] >= lo[t] + Duration(t)}
           U     == [v \in Job |-> IF v \in D THEN hi[v] ELSE lo[v]]
<1>3. /\ \A v \in Job : /\ es[v] \in Nat /\ lf[v] \in Nat /\ Duration(v) \in Nat
                        /\ T[v] \in Nat
                        /\ es[v] <= T[v] /\ T[v] + Duration(v) <= lf[v]
      /\ \A g \in Graph : T[g[1]] + Duration(g[1]) <= T[g[2]]
      /\ active[1] \in Nat /\ active[2] \in Nat
  BY <1>2, TypeFacts DEF IInv, Within
<1>4. /\ pc = "Candidate" /\ esQueue = <<>> /\ lfQueue = <<>>
      /\ inst' = inst /\ es' = es /\ lf' = lf
  BY DEF IInv, Control, Insert, windows
<1>5. \A v \in Job : /\ lo[v] \in Nat /\ hi[v] \in Nat
                     /\ es[v] <= lo[v] /\ lo[v] <= T[v] /\ T[v] <= hi[v]
                     /\ hi[v] + Duration(v) <= lf[v]
  BY <1>3
<1>6. ASSUME NEW a \in Job, NEW b \in Job, <<a, b>> \in Graph
      PROVE  /\ lo[a] + Duration(a) <= lo[b]
             /\ hi[a] + Duration(a) <= hi[b]
  <2>1. T[a] + Duration(a) <= T[b]
    BY <1>3, <1>6
  <2>2. es[a] + Duration(a) <= es[b] \/ es[b] > active[2]
    BY <1>4, <1>6, NothingIn DEF IInv, StartsTight
  <2>3. lf[a] + Duration(b) <= lf[b] \/ lf[a] < active[1]
    BY <1>4, <1>6, NothingIn DEF IInv, FinishsTight
  <2>4. lo[a] + Duration(a) <= lo[b]
    BY <1>3, <2>1, <2>2
  <2>5. hi[a] + Duration(a) <= hi[b]
    BY <1>3, <2>1, <2>3
  <2> QED
    BY <2>4, <2>5
<1>7. /\ es[s] <= active[2] /\ es[t] <= active[2]
      /\ es[t] + Duration(t) >= active[1]
      /\ es[s] < es[t] + Duration(t)
      /\ es[s] + Duration(s) + Duration(t) <= lf[t]
  BY <1>1 DEF Insertable, InRange, Overlap, Fits
<1>8. /\ lo[s] = es[s] /\ lo[t] = es[t]
      /\ hi[t] = lf[t] - Duration(t)
  BY <1>1, <1>3, <1>7
<1> HIDE DEF lo, hi
<1>9. U \in [Job -> Nat]
  BY <1>5
<1>10. ASSUME NEW v \in Job
       PROVE  es[v] <= U[v] /\ U[v] + Duration(v) <= lf[v]
  BY <1>3, <1>5
<1>11. ASSUME NEW a \in Job, NEW b \in Job, <<a, b>> \in Graph
       PROVE  U[a] + Duration(a) <= U[b]
  <2>1. CASE a \in D
    <3>1. b \in D
      <4>1. lo[b] >= lo[t] + Duration(t)
        BY <1>1, <1>3, <1>5, <1>6, <1>11, <2>1
      <4> QED
        BY <4>1
    <3> QED
      BY <1>6, <1>11, <2>1, <3>1
  <2>2. CASE a \notin D /\ b \in D
    BY <1>3, <1>5, <1>6, <1>11, <2>2
  <2>3. CASE a \notin D /\ b \notin D
    BY <1>6, <1>11, <2>3
  <2> QED
    BY <2>1, <2>2, <2>3
<1>12. U[s] + Duration(s) <= U[t]
  <2>1. s \notin D /\ t \in D
    BY <1>1, <1>3, <1>7, <1>8
  <2>2. U[s] = es[s] /\ U[t] = lf[t] - Duration(t)
    BY <1>1, <1>8, <2>1
  <2> QED
    BY <1>1, <1>3, <1>7, <2>2
<1>13. Graph' = Graph \cup {e}
  BY <1>1, <1>4 DEF Graph
<1>14. \A v \in Job : Duration(v)' = Duration(v)
  BY <1>4 DEF Duration
<1>15. \A g \in Graph' : U[g[1]] + Duration(g[1])' <= U[g[2]]
  <2>1. SUFFICES ASSUME NEW g \in Graph'
                 PROVE  U[g[1]] + Duration(g[1])' <= U[g[2]]
    OBVIOUS
  <2>2. CASE g = e
    BY <1>1, <1>12, <1>14, <2>2
  <2>3. CASE g \in Graph
    <3>1. g = <<g[1], g[2]>> /\ g[1] \in Job /\ g[2] \in Job
      BY <2>3, TypeFacts DEF IInv
    <3> QED
      BY <1>11, <1>14, <2>3, <3>1
  <2> QED
    BY <1>13, <2>2, <2>3
<1>16. PICK W : W = U
  OBVIOUS
<1>17. /\ W \in [Job -> Nat]
       /\ \A v \in Job : es'[v] <= W[v] /\ W[v] + Duration(v)' <= lf'[v]
       /\ \A g \in Graph' : W[g[1]] + Duration(g[1])' <= W[g[2]]
  <2> HIDE DEF U
  <2> QED
    BY <1>4, <1>9, <1>10, <1>14, <1>15, <1>16
<1>18. Within(W)'
  BY <1>17 DEF Within
<1> QED
  BY <1>18 DEF Admits

\* Every step leaves a schedule within the windows.
LEMMA AdmitsStep ==
  ASSUME IInv, [Next]_vars
  PROVE  Admits'
<1>1. PICK T : Within(T)
  BY DEF IInv, Admits
<1>2. /\ \A v \in Job : /\ es[v] \in Nat /\ lf[v] \in Nat /\ Duration(v) \in Nat
                        /\ T[v] \in Nat
                        /\ es[v] <= T[v] /\ T[v] + Duration(v) <= lf[v]
      /\ \A g \in Graph : T[g[1]] + Duration(g[1]) <= T[g[2]]
      /\ T \in [Job -> Nat]
  BY <1>1, TypeFacts DEF IInv, Within
<1>3. ASSUME inst' = inst, edges' \subseteq edges,
             \A v \in Job : es'[v] <= T[v] /\ T[v] + Duration(v) <= lf'[v]
      PROVE  Admits'
  <2>1. Graph' \subseteq Graph /\ \A v \in Job : Duration(v)' = Duration(v)
    BY <1>3 DEF Graph, Duration
  <2>2. \A g \in Graph : g[1] \in Job
    BY TypeFacts DEF IInv
  <2>3. Within(T)'
    BY <1>2, <1>3, <2>1, <2>2 DEF Within
  <2> QED
    BY <2>3 DEF Admits
<1>4. CASE PushES
  <2>1. PICK v : v = Last(esQueue)
    OBVIOUS
  <2>2. ASSUME NEW w \in Job PROVE es'[w] <= T[w]
    <3>1. CASE es'[w] = es[w]
      BY <1>2, <3>1
    <3>2. CASE <<v, w>> \in Graph /\ es'[w] = es[v] + Duration(v)
      <4>1. T[v] + Duration(v) <= T[w]
        BY <1>2, <3>2
      <4>2. v \in Job
        BY <1>4, <2>1, PushESFacts DEF IInv
      <4> QED
        BY <1>2, <3>2, <4>1, <4>2
    <3> QED
      BY <1>4, <2>1, <3>1, <3>2, PushESFacts DEF IInv
  <2>3. inst' = inst /\ edges' = edges /\ lf' = lf
    BY <1>4 DEF PushES
  <2> QED
    BY <1>2, <1>3, <2>2, <2>3
<1>5. CASE PushLF
  <2>1. PICK v : v = Last(lfQueue)
    OBVIOUS
  <2>2. ASSUME NEW u \in Job PROVE T[u] + Duration(u) <= lf'[u]
    <3>1. CASE lf'[u] = lf[u]
      BY <1>2, <3>1
    <3>2. CASE <<u, v>> \in Graph /\ lf'[u] = lf[v] - Duration(v)
      <4>1. T[u] + Duration(u) <= T[v]
        BY <1>2, <3>2
      <4>2. v \in Job
        BY <1>5, <2>1, PushLFFacts DEF IInv
      <4> QED
        BY <1>2, <3>2, <4>1, <4>2
    <3> QED
      BY <1>5, <2>1, <3>1, <3>2, PushLFFacts DEF IInv
  <2>3. inst' = inst /\ edges' = edges /\ es' = es
    BY <1>5 DEF PushLF, windows
  <2> QED
    BY <1>2, <1>3, <2>2, <2>3
<1>6. CASE RebuildES
  <2>1. PICK v : v = Last(esQueue)
    OBVIOUS
  <2>2. /\ es' \in [Job -> Nat] /\ v \in Job
        /\ \A w \in Job : w # v => es'[w] = es[w]
        /\ es'[v] = es[v] \/ es'[v] < es[v]
    BY <1>6, <2>1, RebuildESFacts DEF IInv
  <2>3. \A w \in Job : es'[w] <= T[w]
    BY <1>2, <2>2
  <2>4. inst' = inst /\ edges' = edges /\ lf' = lf
    BY <1>6 DEF RebuildES
  <2> QED
    BY <1>2, <1>3, <2>3, <2>4
<1>7. CASE RebuildLF
  <2>1. PICK v : v = Last(lfQueue)
    OBVIOUS
  <2>2. /\ lf' \in [Job -> Nat] /\ v \in Job
        /\ \A u \in Job : u # v => lf'[u] = lf[u]
        /\ lf'[v] = lf[v] \/ lf'[v] > lf[v]
    BY <1>7, <2>1, RebuildLFFacts DEF IInv
  <2>3. \A u \in Job : T[u] + Duration(u) <= lf'[u]
    BY <1>2, <2>2
  <2>4. inst' = inst /\ edges' = edges /\ es' = es
    BY <1>7 DEF RebuildLF
  <2> QED
    BY <1>2, <1>3, <2>3, <2>4
<1>8. CASE Delete
  BY <1>2, <1>3, <1>8, DeleteFacts DEF IInv, Delete, windows
<1>9. CASE Reset
  <2>1. /\ inst' = inst /\ edges' = {} /\ es' = baseES /\ lf' = baseLF
        /\ pc = "Unstuck"
    BY <1>9 DEF Reset
  <2>2. /\ baseES \in [Job -> Nat]
        /\ \A v \in Job : baseES[v] + Duration(v) <= baseLF[v]
        /\ \A e \in inst.lag : baseES[e[1]] + Duration(e[1]) <= baseES[e[2]]
    BY <2>1 DEF IInv, BaseOK, Starting, TypeOK
  <2>3. Graph' = inst.lag /\ \A v \in Job : Duration(v)' = Duration(v)
    BY <2>1 DEF Graph, Duration
  <2>4. \A e \in Graph' : baseES[e[1]] + Duration(e[1])' <= baseES[e[2]]
    <3>1. \A e \in inst.lag : e[1] \in Job
      BY InstanceFacts DEF IInv, TypeOK
    <3> QED
      BY <2>2, <2>3, <3>1
  <2>5. PICK W : W = baseES
    OBVIOUS
  <2>6. /\ W \in [Job -> Nat]
        /\ \A v \in Job : es'[v] <= W[v] /\ W[v] + Duration(v)' <= lf'[v]
        /\ \A e \in Graph' : W[e[1]] + Duration(e[1])' <= W[e[2]]
    BY <2>1, <2>2, <2>3, <2>4, <2>5
  <2>7. Within(W)'
    BY <2>6 DEF Within
  <2> QED
    BY <2>7 DEF Admits
<1>10. CASE Insert
  BY <1>10, InsertAdmits
<1>11. CASE Quiet
  BY <1>2, <1>3, <1>11, QuietFacts
<1> QED
  BY <1>4, <1>5, <1>6, <1>7, <1>8, <1>9, <1>10, <1>11, NextCases

-----------------------------------------------------------------------------
(* Windows are consistent along edges, or about to be made so              *)

\* If a graph is not added to and no start changes, it is enough to look at the
\* queues and the range.
LEMMA StartsStay ==
  ASSUME TypeOK, inst' = inst, es' = es
  PROVE  /\ edges' \subseteq edges => Graph' \subseteq Graph
         /\ \A v \in Job : Duration(v)' = Duration(v)
         /\ \A e \in Graph : e = <<e[1], e[2]>> /\ e[1] \in Job /\ e[2] \in Job
  BY TypeFacts DEF Graph, Duration

LEMMA StartsTightQuiet ==
  ASSUME IInv, Quiet
  PROVE  StartsTight'
<1> USE DEF windows, queues, search, base, recorded
<1>1. /\ Graph' = Graph /\ es' = es
      /\ \A e \in Graph : e[1] \in Job /\ e[2] \in Job
      /\ \A v \in Job : Duration(v)' = Duration(v)
  BY QuietFacts, StartsStay DEF IInv, Graph
<1>2. ASSUME pc' # "RebuildES" \/ pc = "RebuildES",
             pc = "RangeLF" => pc' = "RangeLF",
             esQueue' = esQueue, esLate' = esLate, active' = active
      PROVE  StartsTight'
  BY <1>1, <1>2 DEF IInv, StartsTight
<1>3. ASSUME pc' # "RebuildES", esLate = <<>>, esQueue' = esQueue
      PROVE  StartsTight'
  BY <1>1, <1>3, NothingIn DEF IInv, StartsTight
<1>4. CASE InitTurn \/ RangeKept \/ StuckEnd
  BY <1>2, <1>4 DEF InitTurn, RangeKept, StuckEnd, StartPropagation
<1>5. CASE InitEnd \/ RangeChangedEnd \/ OtherPeak \/ Record \/ ResetEnd
  <2>1. pc \in {"InitLF", "RangeES", "Unstick", "ResetES"}
    BY <1>5 DEF InitEnd, RangeChangedEnd, OtherPeak, Record, ResetEnd
  <2>2. esLate = <<>>
    BY <2>1 DEF IInv, Control
  <2>3. pc' # "RebuildES" /\ esQueue' = esQueue
    BY <1>5 DEF InitEnd, RangeChangedEnd, OtherPeak, Record, ResetEnd,
                StartPropagation
  <2> QED
    BY <1>3, <2>2, <2>3
<1>6. CASE PropagationTurn
  <2>1. /\ Range(esQueue') = Range(esQueue) \cup Range(esLate)
        /\ pc' # "RebuildES"
    BY <1>6, JoinFacts DEF IInv, PropagationTurn
  <2> QED
    BY <1>1, <2>1 DEF IInv, StartsTight
<1>7. CASE RangeChanged
  <2>1. pc = "Iterate" /\ pc' = "RangeLF" /\ esQueue' = esQueue /\ esLate' = esLate
    BY <1>7 DEF RangeChanged, StartPropagation
  <2> QED
    BY <1>1, <2>1 DEF IInv, StartsTight
<1>8. CASE DeleteTurn \/ DeleteEnd \/ Discard \/ InsertTurn \/ InsertEnd
           \/ NothingInserted \/ TimeIsUp
  BY <1>2, <1>8 DEF DeleteTurn, DeleteEnd, Discard, InsertTurn, InsertEnd,
                    NothingInserted, TimeIsUp, EndIteration
<1>9. CASE UNCHANGED vars
  BY <1>2, <1>9 DEF vars
<1> QED
  BY <1>4, <1>5, <1>6, <1>7, <1>8, <1>9 DEF Quiet

LEMMA StartsTightStep ==
  ASSUME IInv, [Next]_vars
  PROVE  StartsTight'
<1>1. CASE PushES
  <2>1. PICK v : v = Last(esQueue)
    OBVIOUS
  <2>2. /\ inst' = inst /\ edges' = edges /\ active' = active /\ pc' = pc
        /\ pc \notin {"RebuildES", "RangeLF"}
    BY <1>1 DEF PushES
  <2>3. /\ Graph' = Graph
        /\ \A u \in Job : Duration(u)' = Duration(u)
        /\ \A e \in Graph : e = <<e[1], e[2]>> /\ e[1] \in Job /\ e[2] \in Job
    BY <2>2, TypeFacts DEF IInv, Graph, Duration
  <2>4. SUFFICES ASSUME NEW e \in Graph
                 PROVE  \/ es'[e[1]] + Duration(e[1]) <= es'[e[2]]
                        \/ e[1] \in Range(esQueue')
                        \/ e[1] \in Range(esLate') /\ es'[e[2]] > active[2]
    BY <2>2, <2>3 DEF StartsTight
  <2> DEFINE a == e[1]
             b == e[2]
  <2>5. /\ a \in Job /\ b \in Job /\ v \in Job /\ e = <<a, b>>
        /\ es[a] \in Nat /\ es[b] \in Nat /\ es[v] \in Nat
        /\ es'[a] \in Nat /\ es'[b] \in Nat
        /\ Duration(a) \in Nat /\ Duration(v) \in Nat /\ active[2] \in Nat
    BY <1>1, <2>1, <2>3, PushESFacts, TypeFacts DEF IInv
  <2>6. \A w \in Job :
          \/ /\ es'[w] = es[w]
             /\ <<v, w>> \in Graph => es[v] + Duration(v) <= es[w]
          \/ /\ <<v, w>> \in Graph /\ es[w] < es[v] + Duration(v)
             /\ es'[w] = es[v] + Duration(v)
             /\ \/ w \in Range(esQueue')
                \/ w \in Range(esLate') /\ es[w] > active[2]
    BY <1>1, <2>1, PushESFacts DEF IInv
  <2>7. /\ es'[v] = es[v]
        /\ \A w \in Range(esQueue) : w = v \/ w \in Range(esQueue')
        /\ \A w \in Range(esLate) : w \in Range(esLate')
    BY <1>1, <2>1, PushESFacts DEF IInv
  <2>8. es[b] <= es'[b]
    <3>1. \/ es'[b] = es[b]
          \/ es[b] < es[v] + Duration(v) /\ es'[b] = es[v] + Duration(v)
      BY <2>5, <2>6, Zenon
    <3> QED
      BY <2>5, <3>1
  <2>9. CASE a = v
    <3>1. es[v] + Duration(v) <= es'[b]
      BY <2>5, <2>6, <2>9
    <3> QED
      BY <2>7, <2>9, <3>1
  <2>10. CASE a # v
    <3>1. \/ es[a] + Duration(a) <= es[b]
          \/ a \in Range(esQueue')
          \/ a \in Range(esLate') /\ es[b] > active[2]
      BY <2>2, <2>7, <2>10 DEF IInv, StartsTight
    <3>2. CASE es'[a] = es[a]
      BY <2>5, <2>8, <3>1, <3>2
    <3>3. CASE a \in Range(esQueue')
      BY <3>3
    <3>4. CASE a \in Range(esLate') /\ es[a] > active[2]
      BY <2>5, <2>8, <3>1, <3>4
    <3> QED
      BY <2>5, <2>6, <3>2, <3>3, <3>4
  <2> QED
    BY <2>9, <2>10
<1>2. CASE RebuildES
  <2>1. PICK v : v = Last(esQueue)
    OBVIOUS
  <2>2. /\ inst' = inst /\ edges' = edges /\ pc' = pc /\ pc = "RebuildES"
        /\ esLate = <<>>
    BY <1>2 DEF RebuildES, IInv, Control
  <2>3. /\ Graph' = Graph
        /\ \A u \in Job : Duration(u)' = Duration(u)
        /\ \A e \in Graph : e = <<e[1], e[2]>> /\ e[1] \in Job /\ e[2] \in Job
    BY <2>2, TypeFacts DEF IInv, Graph, Duration
  <2>4. SUFFICES ASSUME NEW e \in Graph
                 PROVE  es'[e[1]] + Duration(e[1]) <= es'[e[2]]
    BY <2>2, <2>3 DEF StartsTight
  <2> DEFINE a == e[1]
             b == e[2]
  <2>5. /\ a \in Job /\ b \in Job /\ v \in Job /\ e = <<a, b>>
        /\ es[a] \in Nat /\ es[b] \in Nat /\ es[v] \in Nat
        /\ es'[a] \in Nat /\ es'[b] \in Nat /\ Duration(a) \in Nat
    BY <1>2, <2>1, <2>3, RebuildESFacts, TypeFacts DEF IInv
  <2>6. es[a] + Duration(a) <= es[b]
    BY <2>2, NothingIn DEF IInv, StartsTight
  <2>7. /\ \A w \in Job : w # v => es'[w] = es[w]
        /\ \/ es'[v] = es[v]
           \/ /\ es'[v] < es[v]
              /\ \A u \in Job :
                   <<u, v>> \in Graph => es[u] + Duration(u) <= es'[v]
    BY <1>2, <2>1, RebuildESFacts DEF IInv
  <2>8. <<v, v>> \in Graph => Duration(v) = 0
    BY <2>5, WindowFacts DEF IInv
  <2> QED
    BY <2>5, <2>6, <2>7, <2>8
<1>3. CASE Delete
  <2>1. /\ pc = "Unstuck" /\ pc' = "RebuildES" /\ inst' = inst /\ es' = es
        /\ esLate' = esLate /\ edges' \subseteq edges
    BY <1>3, DeleteFacts DEF Delete, IInv, windows
  <2>2. esQueue = <<>> /\ esLate = <<>>
    BY <2>1 DEF IInv, Control
  <2> QED
    BY <2>1, <2>2, StartsStay, NothingIn DEF IInv, StartsTight
<1>4. CASE Reset
  <2>1. /\ inst' = inst /\ edges' = {} /\ es' = baseES /\ pc = "Unstuck"
    BY <1>4 DEF Reset
  <2>2. \A e \in inst.lag : /\ baseES[e[1]] + Duration(e[1]) <= baseES[e[2]]
                            /\ e[1] \in Job
    BY <2>1, InstanceFacts DEF IInv, BaseOK, Starting, TypeOK
  <2>3. Graph' = inst.lag /\ \A v \in Job : Duration(v)' = Duration(v)
    BY <2>1 DEF Graph, Duration
  <2> QED
    BY <2>1, <2>2, <2>3 DEF StartsTight
<1>5. CASE Insert
  <2>1. PICK g \in candidates :
          /\ edges' = edges \cup {g}
          /\ g[1] \in Range(esQueue') /\ g[1] \in Job
          /\ Range(esLate) \subseteq Range(esQueue') \cup Range(esLate')
    BY <1>5, InsertFacts DEF IInv
  <2>2. /\ pc = "Candidate" /\ pc' = "InsertES" /\ inst' = inst /\ es' = es
        /\ active' = active /\ esQueue = <<>>
    BY <1>5 DEF Insert, windows, IInv, Control
  <2>3. /\ Graph' = Graph \cup {g}
        /\ \A v \in Job : Duration(v)' = Duration(v)
        /\ \A e \in Graph : e[1] \in Job
    BY <2>1, <2>2, StartsStay DEF Graph, IInv
  <2> QED
    BY <2>1, <2>2, <2>3, NothingIn DEF IInv, StartsTight
<1>6. CASE PushLF \/ RebuildLF
  <2>1. /\ inst' = inst /\ edges' = edges /\ es' = es /\ pc' = pc
        /\ esQueue' = esQueue /\ esLate' = esLate /\ active' = active
    BY <1>6 DEF PushLF, RebuildLF
  <2>2. Graph' = Graph
    BY <2>1 DEF Graph
  <2> QED
    BY <2>1, <2>2, StartsStay DEF IInv, StartsTight
<1>7. CASE Quiet
  BY <1>7, StartsTightQuiet
<1> QED
  BY <1>1, <1>2, <1>3, <1>4, <1>5, <1>6, <1>7, NextCases

LEMMA FinishsTightQuiet ==
  ASSUME IInv, Quiet
  PROVE  FinishsTight'
<1> USE DEF windows, queues, search, base, recorded
<1>1. /\ Graph' = Graph /\ lf' = lf
      /\ \A e \in Graph : e[1] \in Job /\ e[2] \in Job
      /\ \A v \in Job : Duration(v)' = Duration(v)
  BY QuietFacts, StartsStay DEF IInv, Graph
<1>2. ASSUME pc' \notin {"RebuildES", "RebuildLF"} \/ pc \in {"RebuildES", "RebuildLF"},
             lfQueue' = lfQueue, lfLate' = lfLate, active' = active
      PROVE  FinishsTight'
  BY <1>1, <1>2 DEF IInv, FinishsTight
<1>3. ASSUME pc' \notin {"RebuildES", "RebuildLF"}, lfLate = <<>>,
             lfQueue' = lfQueue
      PROVE  FinishsTight'
  BY <1>1, <1>3, NothingIn DEF IInv, FinishsTight
<1>4. ASSUME pc' \notin {"RebuildES", "RebuildLF"},
             lfQueue' = lfQueue \o lfLate
      PROVE  FinishsTight'
  <2>1. Range(lfQueue') = Range(lfQueue) \cup Range(lfLate)
    BY <1>4, JoinFacts DEF IInv
  <2> QED
    BY <1>1, <1>4, <2>1 DEF IInv, FinishsTight
<1>5. CASE InitTurn \/ StuckEnd \/ PropagationTurn
  BY <1>2, <1>5 DEF InitTurn, StuckEnd, PropagationTurn
<1>6. CASE InitEnd \/ OtherPeak \/ Record \/ ResetEnd
  <2>1. /\ pc \in {"InitLF", "Unstick", "ResetES"} /\ lfQueue' = lfQueue
        /\ pc' \notin {"RebuildES", "RebuildLF"}
    BY <1>6 DEF InitEnd, OtherPeak, Record, ResetEnd
  <2>2. lfLate = <<>>
    BY <2>1 DEF IInv, Control
  <2> QED
    BY <1>3, <2>1, <2>2
<1>7. CASE RangeChanged
  BY <1>4, <1>7 DEF RangeChanged, StartPropagation
<1>8. CASE RangeChangedEnd
  <2>1. CASE candidates' # {}
    BY <1>2, <1>8, <2>1 DEF RangeChangedEnd
  <2>2. CASE candidates' = {}
    BY <1>4, <1>8, <2>2 DEF RangeChangedEnd, StartPropagation
  <2> QED
    BY <2>1, <2>2
<1>9. CASE RangeKept
  <2>1. CASE candidates' # {}
    BY <1>2, <1>9, <2>1 DEF RangeKept
  <2>2. CASE candidates' = {}
    BY <1>4, <1>9, <2>2 DEF RangeKept, StartPropagation
  <2> QED
    BY <2>1, <2>2
<1>10. CASE DeleteTurn \/ DeleteEnd \/ Discard \/ InsertEnd \/ NothingInserted
            \/ TimeIsUp
  BY <1>2, <1>10 DEF DeleteTurn, DeleteEnd, Discard, InsertEnd,
                     NothingInserted, TimeIsUp, EndIteration
<1>11. CASE InsertTurn
  <2>1. CASE force
    BY <1>4, <1>11, <2>1 DEF InsertTurn
  <2>2. CASE ~force
    <3>1. lfQueue' = lfQueue
      BY <1>11, <2>2, ConcatEmptySeq, TypeFacts DEF InsertTurn, IInv
    <3> QED
      BY <1>2, <1>11, <2>2, <3>1 DEF InsertTurn
  <2> QED
    BY <2>1, <2>2
<1>12. CASE UNCHANGED vars
  BY <1>2, <1>12 DEF vars
<1> QED
  BY <1>5, <1>6, <1>7, <1>8, <1>9, <1>10, <1>11, <1>12 DEF Quiet

LEMMA FinishsTightStep ==
  ASSUME IInv, [Next]_vars
  PROVE  FinishsTight'
<1>1. CASE PushLF
  <2>1. PICK v : v = Last(lfQueue)
    OBVIOUS
  <2>2. /\ inst' = inst /\ edges' = edges /\ active' = active /\ pc' = pc
        /\ pc \notin {"RebuildES", "RebuildLF"}
    BY <1>1 DEF PushLF
  <2>3. /\ Graph' = Graph
        /\ \A u \in Job : Duration(u)' = Duration(u)
        /\ \A e \in Graph : e = <<e[1], e[2]>> /\ e[1] \in Job /\ e[2] \in Job
    BY <2>2, TypeFacts DEF IInv, Graph, Duration
  <2>4. SUFFICES ASSUME NEW e \in Graph
                 PROVE  \/ lf'[e[1]] + Duration(e[2]) <= lf'[e[2]]
                        \/ e[2] \in Range(lfQueue')
                        \/ e[2] \in Range(lfLate') /\ lf'[e[1]] < active[1]
    BY <2>2, <2>3 DEF FinishsTight
  <2> DEFINE a == e[1]
             b == e[2]
  <2>5. /\ a \in Job /\ b \in Job /\ v \in Job /\ e = <<a, b>>
        /\ lf[a] \in Nat /\ lf[b] \in Nat /\ lf[v] \in Nat
        /\ lf'[a] \in Nat /\ lf'[b] \in Nat
        /\ Duration(b) \in Nat /\ Duration(v) \in Nat /\ active[1] \in Nat
    BY <1>1, <2>1, <2>3, PushLFFacts, TypeFacts DEF IInv
  <2>6. \A u \in Job :
          \/ /\ lf'[u] = lf[u]
             /\ <<u, v>> \in Graph => lf[u] + Duration(v) <= lf[v]
          \/ /\ <<u, v>> \in Graph /\ lf[v] < lf[u] + Duration(v)
             /\ lf'[u] = lf[v] - Duration(v)
             /\ \/ u \in Range(lfQueue')
                \/ u \in Range(lfLate') /\ lf[u] < active[1]
    BY <1>1, <2>1, PushLFFacts DEF IInv
  <2>7. /\ lf'[v] = lf[v]
        /\ \A u \in Range(lfQueue) : u = v \/ u \in Range(lfQueue')
        /\ \A u \in Range(lfLate) : u \in Range(lfLate')
    BY <1>1, <2>1, PushLFFacts DEF IInv
  <2>8. lf'[a] <= lf[a]
    <3>1. \/ lf'[a] = lf[a]
          \/ lf[v] < lf[a] + Duration(v) /\ lf'[a] = lf[v] - Duration(v)
      BY <2>5, <2>6, Zenon
    <3> QED
      BY <2>5, <3>1
  <2>9. CASE b = v
    <3>1. \/ lf'[a] = lf[a] /\ lf[a] + Duration(v) <= lf[v]
          \/ lf'[a] = lf[v] - Duration(v)
      BY <2>5, <2>6, <2>9, Zenon
    <3> QED
      BY <2>5, <2>7, <2>9, <3>1
  <2>10. CASE b # v
    <3>1. \/ lf[a] + Duration(b) <= lf[b]
          \/ b \in Range(lfQueue')
          \/ b \in Range(lfLate') /\ lf[a] < active[1]
      BY <2>2, <2>7, <2>10 DEF IInv, FinishsTight
    <3>2. CASE lf'[b] = lf[b]
      BY <2>5, <2>8, <3>1, <3>2
    <3>3. CASE b \in Range(lfQueue')
      BY <3>3
    <3>4. CASE b \in Range(lfLate') /\ lf[b] < active[1]
      BY <2>5, <2>8, <3>1, <3>4
    <3> QED
      BY <2>5, <2>6, <3>2, <3>3, <3>4
  <2> QED
    BY <2>9, <2>10
<1>2. CASE RebuildLF
  <2>1. PICK v : v = Last(lfQueue)
    OBVIOUS
  <2>2. /\ inst' = inst /\ edges' = edges /\ pc' = pc /\ pc = "RebuildLF"
        /\ lfLate = <<>>
    BY <1>2 DEF RebuildLF, IInv, Control
  <2>3. /\ Graph' = Graph
        /\ \A u \in Job : Duration(u)' = Duration(u)
        /\ \A e \in Graph : e = <<e[1], e[2]>> /\ e[1] \in Job /\ e[2] \in Job
    BY <2>2, TypeFacts DEF IInv, Graph, Duration
  <2>4. SUFFICES ASSUME NEW e \in Graph
                 PROVE  lf'[e[1]] + Duration(e[2]) <= lf'[e[2]]
    BY <2>2, <2>3 DEF FinishsTight
  <2> DEFINE a == e[1]
             b == e[2]
  <2>5. /\ a \in Job /\ b \in Job /\ v \in Job /\ e = <<a, b>>
        /\ lf[a] \in Nat /\ lf[b] \in Nat /\ lf[v] \in Nat
        /\ lf'[a] \in Nat /\ lf'[b] \in Nat /\ Duration(b) \in Nat
    BY <1>2, <2>1, <2>3, RebuildLFFacts, TypeFacts DEF IInv
  <2>6. lf[a] + Duration(b) <= lf[b]
    BY <2>2, NothingIn DEF IInv, FinishsTight
  <2>7. /\ \A u \in Job : u # v => lf'[u] = lf[u]
        /\ \/ lf'[v] = lf[v]
           \/ /\ lf'[v] > lf[v]
              /\ \A w \in Job :
                   <<v, w>> \in Graph => lf'[v] + Duration(w) <= lf[w]
    BY <1>2, <2>1, RebuildLFFacts DEF IInv
  <2>8. <<v, v>> \in Graph => Duration(v) = 0
    BY <2>5, WindowFacts DEF IInv
  <2> QED
    BY <2>5, <2>6, <2>7, <2>8
<1>3. CASE Delete
  <2>1. /\ pc = "Unstuck" /\ pc' = "RebuildES" /\ inst' = inst /\ es' = es
        /\ lf' = lf /\ lfLate' = lfLate /\ edges' \subseteq edges
    BY <1>3, DeleteFacts DEF Delete, IInv, windows
  <2>2. lfQueue = <<>> /\ lfLate = <<>>
    BY <2>1 DEF IInv, Control
  <2> QED
    BY <2>1, <2>2, StartsStay, NothingIn DEF IInv, FinishsTight
<1>4. CASE Reset
  <2>1. /\ inst' = inst /\ edges' = {} /\ lf' = baseLF /\ pc = "Unstuck"
    BY <1>4 DEF Reset
  <2>2. \A e \in inst.lag : /\ baseLF[e[1]] + Duration(e[2]) <= baseLF[e[2]]
                            /\ e[2] \in Job
    BY <2>1, InstanceFacts DEF IInv, BaseOK, Starting, TypeOK
  <2>3. Graph' = inst.lag /\ \A v \in Job : Duration(v)' = Duration(v)
    BY <2>1 DEF Graph, Duration
  <2> QED
    BY <2>1, <2>2, <2>3 DEF FinishsTight
<1>5. CASE Insert
  <2>1. PICK g \in candidates :
          edges' = edges \cup {g} /\ g[2] \in Range(lfQueue') /\ g[2] \in Job
    BY <1>5, InsertFacts DEF IInv
  <2>2. /\ pc = "Candidate" /\ pc' = "InsertES" /\ inst' = inst /\ es' = es
        /\ lf' = lf /\ active' = active /\ lfQueue = <<>> /\ lfLate' = lfLate
    BY <1>5 DEF Insert, windows, IInv, Control
  <2>3. /\ Graph' = Graph \cup {g}
        /\ \A v \in Job : Duration(v)' = Duration(v)
        /\ \A e \in Graph : e[2] \in Job
    BY <2>1, <2>2, StartsStay DEF Graph, IInv
  <2> QED
    BY <2>1, <2>2, <2>3, NothingIn DEF IInv, FinishsTight
<1>6. CASE PushES \/ RebuildES
  <2>1. /\ inst' = inst /\ edges' = edges /\ lf' = lf /\ pc' = pc
        /\ lfQueue' = lfQueue /\ lfLate' = lfLate /\ active' = active
    BY <1>6 DEF PushES, RebuildES
  <2>2. /\ Graph' = Graph
        /\ \A v \in Job : Duration(v)' = Duration(v)
        /\ \A e \in Graph : e[2] \in Job
    BY <2>1, TypeFacts DEF Graph, Duration, IInv
  <2> QED
    BY <2>1, <2>2 DEF IInv, FinishsTight
<1>7. CASE Quiet
  BY <1>7, FinishsTightQuiet
<1> QED
  BY <1>1, <1>2, <1>3, <1>4, <1>5, <1>6, <1>7, NextCases

-----------------------------------------------------------------------------
(* Types and control                                                       *)

LEMMA MoveType ==
  ASSUME TypeOK, MoveJobs
  PROVE  pos' \in [Job -> Nat]
<1>1. es \in [Job -> Nat] /\ pos \in [Job -> Nat]
  BY DEF TypeOK
<1> QED
  BY <1>1 DEF MoveJobs

\* The count of iterations since the last complete push.
LEMMA CountType ==
  ASSUME TypeOK, Control
  PROVE  /\ pc = "Iterate" /\ CountIteration =>
              sincePush' \in -1 .. (ForceAfter + 1) /\ first' \in BOOLEAN
         /\ EndIteration => /\ sincePush' \in -1 .. (ForceAfter + 1)
                            /\ sincePush' <= ForceAfter
<1>1. sincePush \in -1 .. (ForceAfter + 1) /\ ForceAfter \in Nat
  BY ParametersAssumption DEF TypeOK
<1>2. ASSUME pc = "Iterate", CountIteration
      PROVE  sincePush' \in -1 .. (ForceAfter + 1) /\ first' \in BOOLEAN
  <2>1. sincePush <= ForceAfter
    BY <1>2 DEF Control, Starting
  <2>2. sincePush' = sincePush + 1 /\ first' = FALSE
    BY <1>2 DEF CountIteration
  <2>3. sincePush' \in -1 .. (ForceAfter + 1)
    BY <1>1, <2>1, <2>2
  <2> QED
    BY <2>2, <2>3
<1>3. ASSUME EndIteration
      PROVE  /\ sincePush' \in -1 .. (ForceAfter + 1)
             /\ sincePush' <= ForceAfter
  BY <1>1, <1>3 DEF EndIteration, Forced
<1> QED
  BY <1>2, <1>3

LEMMA StartPropagationType ==
  ASSUME TypeOK, NEW label, StartPropagation(label)
  PROVE  /\ lfQueue' \in Seq(Job) /\ lfLate' \in Seq(Job)
         /\ esQueue' \in Seq(Job) /\ esLate' \in Seq(Job)
         /\ force' \in BOOLEAN /\ changed' \subseteq Job /\ pc' = label
BY TypeFacts, JoinFacts, NothingIn DEF StartPropagation

LEMMA PropagationTypes ==
  ASSUME IInv, PushES \/ PushLF \/ RebuildES \/ RebuildLF
  PROVE  TypeOK'
<1>0. TypeOK /\ Control /\ Admits
  BY DEF IInv
<1>r. ASSUME RebuildES, NEW v, v = Last(esQueue)
      PROVE  /\ v \in Job /\ es' \in [Job -> Nat] /\ inst.release[v] <= es'[v]
             /\ \A w \in Job : w # v => es'[w] = es[w]
             /\ esQueue' \in Seq(Job) /\ changed' \subseteq Job
  BY <1>0, <1>r, RebuildESFacts
<1>l. ASSUME RebuildLF, NEW v, v = Last(lfQueue)
      PROVE  /\ v \in Job /\ lf' \in [Job -> Nat] /\ lf'[v] <= inst.deadline[v]
             /\ \A u \in Job : u # v => lf'[u] = lf[u]
             /\ lfQueue' \in Seq(Job)
  BY <1>0, <1>l, RebuildLFFacts
<1> USE DEF TypeOK, search, base, recorded
<1>1. CASE PushES
  <2>1. PICK v : v = Last(esQueue)
    OBVIOUS
  <2>2. /\ es' \in [Job -> Nat] /\ esQueue' \in Seq(Job) /\ esLate' \in Seq(Job)
        /\ changed' \subseteq Job
    BY <1>0, <1>1, <2>1, PushESFacts
  <2>3. ASSUME NEW w \in Job PROVE es'[w] >= inst.release[w]
    <3>1. \/ es'[w] = es[w]
          \/ es[w] < es[v] + Duration(v) /\ es'[w] = es[v] + Duration(v)
      BY <1>0, <1>1, <2>1, PushESFacts
    <3>2. v \in Job
      BY <1>0, <1>1, <2>1, PushESFacts
    <3>3. /\ es[w] \in Nat /\ es[v] \in Nat /\ Duration(v) \in Nat
          /\ inst.release[w] \in Nat /\ inst.release[w] <= es[w]
      BY <1>0, <3>2, TypeFacts, InstanceFacts
    <3> QED
      BY <3>1, <3>3
  <2> QED
    BY <1>0, <1>1, <2>2, <2>3 DEF PushES
<1>2. CASE PushLF
  <2>1. PICK v : v = Last(lfQueue)
    OBVIOUS
  <2>2. lf' \in [Job -> Nat] /\ lfQueue' \in Seq(Job) /\ lfLate' \in Seq(Job)
    BY <1>0, <1>2, <2>1, PushLFFacts
  <2>3. ASSUME NEW u \in Job PROVE lf'[u] <= inst.deadline[u]
    <3>1. \/ lf'[u] = lf[u]
          \/ lf[v] < lf[u] + Duration(v) /\ lf'[u] = lf[v] - Duration(v)
      BY <1>0, <1>2, <2>1, PushLFFacts
    <3>2. v \in Job
      BY <1>0, <1>2, <2>1, PushLFFacts
    <3>3. /\ lf[u] \in Nat /\ lf[v] \in Nat /\ Duration(v) \in Nat
          /\ inst.deadline[u] \in Nat /\ lf[u] <= inst.deadline[u]
      BY <1>0, <3>2, TypeFacts, InstanceFacts
    <3> QED
      BY <3>1, <3>3
  <2> QED
    BY <1>0, <1>2, <2>2, <2>3 DEF PushLF
<1>3. CASE RebuildES
  <2>1. PICK v : v = Last(esQueue)
    OBVIOUS
  <2>2. /\ es' \in [Job -> Nat] /\ esQueue' \in Seq(Job) /\ changed' \subseteq Job
        /\ \A w \in Job : es'[w] >= inst.release[w]
    <3>1. /\ v \in Job /\ es' \in [Job -> Nat] /\ inst.release[v] <= es'[v]
          /\ \A w \in Job : w # v => es'[w] = es[w]
          /\ esQueue' \in Seq(Job) /\ changed' \subseteq Job
      BY <1>r, <1>3, <2>1
    <3>2. \A w \in Job : inst.release[w] <= es[w] /\ inst.release[w] \in Nat
      BY <1>0, InstanceFacts
    <3> QED
      BY <3>1, <3>2
  <2> QED
    BY <1>0, <1>3, <2>2 DEF RebuildES
<1>4. CASE RebuildLF
  <2>1. PICK v : v = Last(lfQueue)
    OBVIOUS
  <2>2. /\ lf' \in [Job -> Nat] /\ lfQueue' \in Seq(Job)
        /\ \A u \in Job : lf'[u] <= inst.deadline[u]
    <3>1. /\ v \in Job /\ lf' \in [Job -> Nat] /\ lf'[v] <= inst.deadline[v]
          /\ \A u \in Job : u # v => lf'[u] = lf[u]
          /\ lfQueue' \in Seq(Job)
      BY <1>l, <1>4, <2>1
    <3>2. \A u \in Job : lf[u] <= inst.deadline[u]
      BY <1>0
    <3> QED
      BY <3>1, <3>2
  <2> QED
    BY <1>0, <1>4, <2>2 DEF RebuildLF
<1> QED
  BY <1>1, <1>2, <1>3, <1>4

LEMMA TypeStep ==
  ASSUME IInv, [Next]_vars
  PROVE  TypeOK'
<1> USE DEF TypeOK, Labels, windows, queues, search, base, recorded
<1>0. TypeOK /\ Control /\ inst \in Instances
  BY DEF IInv
<1>1. \A start \in [Job -> Nat] : PeakRanges(inst, start) \subseteq Nat \X Nat
  BY <1>0, PeakRangeType
<1>2. \A r : CandidateJobs(r) \subseteq Job /\ CandidateEdges(r) \subseteq Job \X Job
  BY RegenerateFacts
<1>3. CASE PushES \/ PushLF \/ RebuildES \/ RebuildLF
  BY <1>3, PropagationTypes
<1>4. CASE InitTurn
  BY <1>0, <1>4 DEF InitTurn
<1>5. CASE InitEnd
  BY <1>0, <1>1, <1>5 DEF InitEnd
<1>6. CASE PropagationTurn
  BY <1>0, <1>6, JoinFacts, NothingIn DEF PropagationTurn
<1>7. CASE RangeChanged
  <2>1. /\ pc = "Iterate" /\ CountIteration
        /\ active' \in PeakRanges(inst, pos)
        /\ StartPropagation("RangeLF")
    BY <1>7 DEF RangeChanged
  <2>2. active' \in Nat \X Nat
    BY <1>0, <1>1, <2>1
  <2> QED
    BY <1>0, <1>7, <2>1, <2>2, CountType, StartPropagationType DEF RangeChanged
<1>8. CASE RangeChangedEnd
  <2>1. jobs' \subseteq Job /\ candidates' \subseteq Job \X Job
    BY <1>2, <1>8 DEF RangeChangedEnd, Regenerate
  <2>2. pos' \in [Job -> Nat]
    BY <1>0, <1>8, MoveType DEF RangeChangedEnd
  <2>3. CASE candidates' # {}
    BY <1>0, <1>8, <2>1, <2>2, <2>3 DEF RangeChangedEnd
  <2>4. CASE StartPropagation("StuckLF")
    BY <1>0, <1>8, <2>1, <2>2, <2>4, StartPropagationType DEF RangeChangedEnd
  <2> QED
    BY <1>8, <2>3, <2>4 DEF RangeChangedEnd
<1>9. CASE RangeKept
  <2>1. jobs' \subseteq Job /\ candidates' \subseteq Job \X Job
    <3>1. Regenerate(active) \/ UNCHANGED <<jobs, candidates>>
      BY <1>9, Zenon DEF RangeKept
    <3> QED
      BY <1>0, <1>2, <3>1 DEF Regenerate
  <2>2. sincePush' \in -1 .. (ForceAfter + 1) /\ first' \in BOOLEAN
    BY <1>0, <1>9, CountType DEF RangeKept
  <2>3. CASE candidates' # {}
    BY <1>0, <1>9, <2>1, <2>2, <2>3 DEF RangeKept
  <2>4. CASE StartPropagation("StuckLF")
    BY <1>0, <1>9, <2>1, <2>2, <2>4, StartPropagationType DEF RangeKept
  <2> QED
    BY <1>9, <2>3, <2>4 DEF RangeKept
<1>10. CASE StuckEnd
  BY <1>0, <1>10, MoveType DEF StuckEnd
<1>11. CASE OtherPeak
  <2>1. PICK r \in PeakRanges(inst, pos) : active' = r /\ Regenerate(r)
    BY <1>11 DEF OtherPeak
  <2>2. active' \in Nat \X Nat
    BY <1>0, <1>1, <2>1
  <2> QED
    BY <1>0, <1>2, <1>11, <2>1, <2>2 DEF OtherPeak, Regenerate
<1>12. CASE Record
  <2>1. PICK r \in PeakRanges(inst, pos) :
          /\ active' = r
          /\ IF r = active THEN UNCHANGED <<jobs, candidates>> ELSE Regenerate(r)
    BY <1>12 DEF Record
  <2>2. active' \in Nat \X Nat
    BY <1>0, <1>1, <2>1
  <2>3. jobs' \subseteq Job /\ candidates' \subseteq Job \X Job
    BY <1>0, <1>2, <2>1 DEF Regenerate
  <2>4. best' \in [Job -> Nat]
    BY <1>0, <1>12 DEF Record
  <2> QED
    BY <1>0, <1>12, <2>2, <2>3, <2>4 DEF Record
<1>13. CASE Delete
  <2>1. /\ edges' \subseteq edges /\ candidates' \subseteq Job \X Job
        /\ esQueue' \in Seq(Job) /\ lfQueue' \in Seq(Job)
    BY <1>0, <1>13, DeleteFacts
  <2>2. remaining' \in 0 .. DeletionsBeforeReset
    BY <1>0, <1>13, ParametersAssumption DEF Delete
  <2> QED
    BY <1>0, <1>13, <2>1, <2>2 DEF Delete
<1>14. CASE DeleteTurn \/ TimeIsUp
  BY <1>0, <1>14 DEF DeleteTurn, TimeIsUp
<1>15. CASE DeleteEnd
  BY <1>0, <1>15, MoveType DEF DeleteEnd
<1>16. CASE Reset
  <2>1. /\ es' = baseES /\ lf' = baseLF /\ pos' = baseES /\ edges' = {}
        /\ active' \in PeakRanges(inst, baseES) /\ pc = "Unstuck"
        /\ StartPropagation("ResetLF")
        /\ UNCHANGED <<inst, jobs, candidates, remaining, sincePush, first,
                       baseES, baseLF, best, bestScore>>
    BY <1>16 DEF Reset
  <2>2. \A v \in Job : baseES[v] >= inst.release[v] /\ baseLF[v] <= inst.deadline[v]
    <3>1. \A v \in Job : /\ inst.release[v] <= baseES[v]
                         /\ baseLF[v] <= inst.deadline[v]
      BY <2>1 DEF IInv, BaseOK, Starting
    <3>2. \A v \in Job : baseES[v] \in Nat /\ inst.release[v] \in Nat
      BY <1>0, InstanceFacts
    <3> QED
      BY <3>1, <3>2
  <2>3. active' \in Nat \X Nat
    BY <1>0, <1>1, <2>1
  <2> QED
    BY <1>0, <2>1, <2>2, <2>3, StartPropagationType
<1>17. CASE ResetEnd
  <2>1. jobs' \subseteq Job /\ candidates' \subseteq Job \X Job
    BY <1>2, <1>17 DEF ResetEnd, Regenerate
  <2>2. pos' \in [Job -> Nat]
    BY <1>0, <1>17, MoveType DEF ResetEnd
  <2> QED
    BY <1>0, <1>17, <2>1, <2>2, ParametersAssumption DEF ResetEnd
<1>18. CASE Insert
  <2>1. PICK e \in candidates :
          /\ edges' = edges \cup {e} /\ candidates' \subseteq candidates
          /\ esQueue' \in Seq(Job) /\ lfQueue' \in Seq(Job)
          /\ esLate' \in Seq(Job)
    BY <1>0, <1>18, InsertFacts
  <2>2. Forced \in BOOLEAN
    BY DEF Forced
  <2> QED
    BY <1>0, <1>18, <2>1, <2>2 DEF Insert
<1>19. CASE Discard
  BY <1>0, <1>19 DEF Discard
<1>20. CASE InsertTurn
  <2>1. lfQueue' \in Seq(Job) /\ lfLate' \in Seq(Job)
    BY <1>0, <1>20, JoinFacts, NothingIn, ConcatEmptySeq DEF InsertTurn
  <2> QED
    BY <1>0, <1>20, <2>1 DEF InsertTurn
<1>21. CASE InsertEnd
  <2>1. sincePush' \in -1 .. (ForceAfter + 1) /\ pos' \in [Job -> Nat]
    BY <1>0, <1>21, CountType, MoveType DEF InsertEnd
  <2> QED
    BY <1>0, <1>21, <2>1 DEF InsertEnd, EndIteration
<1>22. CASE NothingInserted
  <2>1. sincePush' \in -1 .. (ForceAfter + 1)
    BY <1>0, <1>22, CountType DEF NothingInserted
  <2> QED
    BY <1>0, <1>22, <2>1 DEF NothingInserted, EndIteration
<1>23. CASE UNCHANGED vars
  BY <1>0, <1>23 DEF vars
<1> QED
  BY <1>3, <1>4, <1>5, <1>6, <1>7, <1>8, <1>9, <1>10, <1>11, <1>12, <1>13,
     <1>14, <1>15, <1>16, <1>17, <1>18, <1>19, <1>20, <1>21, <1>22, <1>23,
     NextCases DEF Quiet

LEMMA ControlPropagation ==
  ASSUME IInv, PushES \/ PushLF \/ RebuildES \/ RebuildLF
  PROVE  Control'
<1>0. TypeOK /\ Control /\ Admits
  BY DEF IInv
<1>e. PushES => (force => esLate' = esLate)
  BY <1>0, PushESFacts
<1>l. PushLF => (force => lfLate' = lfLate)
  BY <1>0, PushLFFacts
<1> USE DEF Control, Starting, search
<1>1. CASE PushES
  BY <1>0, <1>e, <1>1 DEF PushES
<1>2. CASE PushLF
  BY <1>0, <1>l, <1>2 DEF PushLF
<1>3. CASE RebuildES
  BY <1>0, <1>3 DEF RebuildES
<1>4. CASE RebuildLF
  BY <1>0, <1>4 DEF RebuildLF
<1> QED
  BY <1>1, <1>2, <1>3, <1>4

LEMMA ControlStep ==
  ASSUME IInv, [Next]_vars
  PROVE  Control'
<1>0. TypeOK /\ Control
  BY DEF IInv
<1>1. \A r : \A e \in CandidateEdges(r) : e[1] # e[2]
  BY RegenerateFacts
<1>2. CASE PushES \/ PushLF \/ RebuildES \/ RebuildLF
  BY <1>2, ControlPropagation
<1>3. CASE Delete
  <2>1. \A e \in candidates' : e[1] # e[2]
    BY <1>0, <1>3, DeleteFacts
  <2> QED
    BY <1>0, <1>3, <2>1 DEF Delete, Control, Starting
<1>4. CASE Insert
  <2>1. candidates' \subseteq candidates
    BY <1>0, <1>4, InsertFacts
  <2> QED
    BY <1>0, <1>4, <2>1 DEF Insert, Control, Starting
<1>5. CASE InsertEnd
  <2>1. sincePush' <= ForceAfter
    BY <1>0, <1>5, CountType DEF InsertEnd
  <2> QED
    BY <1>0, <1>5, <2>1 DEF InsertEnd, EndIteration, Control, Starting, queues
<1>6. CASE NothingInserted
  <2>1. sincePush' <= ForceAfter
    BY <1>0, <1>6, CountType DEF NothingInserted
  <2> QED
    BY <1>0, <1>6, <2>1
    DEF NothingInserted, EndIteration, Control, Starting, queues
<1>7. CASE RangeChangedEnd
  <2>1. \A e \in candidates' : e[1] # e[2]
    BY <1>1, <1>7 DEF RangeChangedEnd, Regenerate
  <2>2. \/ pc' = "Candidate" /\ UNCHANGED <<force, queues, changed>>
        \/ StartPropagation("StuckLF")
    BY <1>7 DEF RangeChangedEnd
  <2> QED
    BY <1>0, <1>7, <2>1, <2>2
    DEF RangeChangedEnd, StartPropagation, Control, Starting, queues
<1>8. CASE RangeKept
  <2>1. \A e \in candidates' : e[1] # e[2]
    <3>1. Regenerate(active) \/ UNCHANGED <<jobs, candidates>>
      BY <1>8, Zenon DEF RangeKept
    <3> QED
      BY <1>0, <1>1, <3>1 DEF Regenerate, Control
  <2>2. \/ pc' = "Candidate" /\ UNCHANGED <<force, queues, changed>>
        \/ StartPropagation("StuckLF")
    BY <1>8, Zenon DEF RangeKept
  <2> QED
    BY <1>0, <1>8, <2>1, <2>2
    DEF RangeKept, StartPropagation, Control, Starting, queues
<1>9. CASE OtherPeak
  <2>1. \A e \in candidates' : e[1] # e[2]
    BY <1>1, <1>9 DEF OtherPeak, Regenerate
  <2> QED
    BY <1>0, <1>9, <2>1 DEF OtherPeak, Control, Starting, queues
<1>10. CASE Record
  BY <1>0, <1>10 DEF Record, Control, Starting, queues
<1>11. CASE ResetEnd
  <2>1. \A e \in candidates' : e[1] # e[2]
    BY <1>1, <1>11 DEF ResetEnd, Regenerate
  <2> QED
    BY <1>0, <1>11, <2>1 DEF ResetEnd, Control, Starting, queues
<1> USE DEF Control, Starting, windows, queues, search, base, recorded
<1>12. CASE InitTurn \/ InitEnd \/ DeleteTurn \/ DeleteEnd
  BY <1>0, <1>12 DEF InitTurn, InitEnd, DeleteTurn, DeleteEnd
<1>13. CASE PropagationTurn \/ StuckEnd
  BY <1>0, <1>13 DEF PropagationTurn, StuckEnd
<1>14. CASE RangeChanged \/ Reset
  BY <1>0, <1>14 DEF RangeChanged, Reset, StartPropagation
<1>15. CASE Discard \/ InsertTurn \/ TimeIsUp
  BY <1>0, <1>15 DEF Discard, InsertTurn, TimeIsUp
<1>16. CASE UNCHANGED vars
  BY <1>0, <1>16 DEF vars
<1> QED
  BY <1>2, <1>3, <1>4, <1>5, <1>6, <1>7, <1>8, <1>9, <1>10, <1>11, <1>12,
     <1>13, <1>14, <1>15, <1>16, NextCases DEF Quiet

-----------------------------------------------------------------------------
(* The base, the sky line and the best schedule                            *)

\* The base and the best schedule are set at the end of the initialisation;
\* later only Record changes the latter.
LEMMA FrameFacts ==
  ASSUME [Next]_vars
  PROVE  /\ inst' = inst
         /\ \/ InitEnd
            \/ /\ UNCHANGED <<baseES, baseLF>>
               /\ pc' \in Starting <=> pc \in Starting
               /\ Record \/ UNCHANGED <<best, bestScore>>
<1> USE DEF Starting, base, recorded
<1>1. CASE PushES \/ PushLF \/ RebuildES \/ RebuildLF
  BY <1>1 DEF PushES, PushLF, RebuildES, RebuildLF
<1>2. CASE Delete \/ Reset \/ Insert
  BY <1>2 DEF Delete, Reset, StartPropagation, Insert
<1>3. CASE InitTurn \/ InitEnd \/ PropagationTurn \/ RangeChanged
  BY <1>3 DEF InitTurn, InitEnd, PropagationTurn, RangeChanged, StartPropagation
<1>4. CASE RangeChangedEnd \/ RangeKept
  <2>1. pc' = "Candidate" \/ pc' = "StuckLF"
    BY <1>4 DEF RangeChangedEnd, RangeKept, StartPropagation
  <2> QED
    BY <1>4, <2>1 DEF RangeChangedEnd, RangeKept
<1>5. CASE StuckEnd \/ OtherPeak \/ Record \/ DeleteTurn \/ DeleteEnd
  BY <1>5 DEF StuckEnd, OtherPeak, Record, DeleteTurn, DeleteEnd
<1>6. CASE ResetEnd \/ Discard \/ InsertTurn \/ InsertEnd
  BY <1>6 DEF ResetEnd, Discard, InsertTurn, InsertEnd, EndIteration
<1>7. CASE NothingInserted \/ TimeIsUp
  BY <1>7 DEF NothingInserted, TimeIsUp, EndIteration
<1>8. CASE UNCHANGED vars
  BY <1>8 DEF vars
<1> QED
  BY <1>1, <1>2, <1>3, <1>4, <1>5, <1>6, <1>7, <1>8, NextCases DEF Quiet

\* When no start waits to be propagated, the starts are a feasible schedule.
LEMMA FeasibleNow ==
  ASSUME IInv, esQueue = <<>>, esLate = <<>>
  PROVE  Feasible(inst, es)
<1>0. TypeOK /\ Admits /\ inst \in Instances
  BY DEF IInv, TypeOK
<1>1. \A e \in Graph : es[e[1]] + Duration(e[1]) <= es[e[2]]
  BY NothingIn DEF IInv, StartsTight
<1>2. ASSUME NEW v \in Job
      PROVE  inst.release[v] <= es[v] /\ es[v] + inst.duration[v] <= inst.deadline[v]
  <2>1. /\ es[v] \in Nat /\ lf[v] \in Nat /\ inst.duration[v] \in Nat
        /\ inst.release[v] \in Nat /\ inst.deadline[v] \in Nat
    BY <1>0, TypeFacts, InstanceFacts
  <2>2. es[v] >= inst.release[v] /\ lf[v] <= inst.deadline[v]
    BY <1>0 DEF TypeOK
  <2>3. es[v] + inst.duration[v] <= lf[v]
    BY <1>0, WindowFacts DEF Duration
  <2> QED
    BY <2>1, <2>2, <2>3
<1>3. \A e \in inst.lag : es[e[1]] + inst.duration[e[1]] <= es[e[2]]
  BY <1>1 DEF Graph, Duration
<1>4. es \in [Job -> Nat]
  BY <1>0, TypeFacts
<1> QED
  BY <1>2, <1>3, <1>4 DEF Feasible

LEMMA BestStep ==
  ASSUME IInv, [Next]_vars
  PROVE  BestFeasible'
<1>0. Control /\ BestFeasible /\ inst' = inst
  BY FrameFacts DEF IInv
<1>1. CASE InitEnd
  <2>1. esQueue = <<>> /\ esLate = <<>> /\ best' = es
    BY <1>0, <1>1 DEF InitEnd, Control
  <2>2. Feasible(inst, es)
    BY <2>1, FeasibleNow
  <2> QED
    BY <1>0, <2>1, <2>2 DEF BestFeasible, Feasible
<1>2. CASE Record
  <2>1. /\ pc = "Unstick" /\ esQueue = <<>> /\ esLate = <<>>
        /\ best' = es \/ best' = best
    BY <1>0, <1>2 DEF Record, Control, recorded
  <2>2. Feasible(inst, es) /\ Feasible(inst, best)
    BY <1>0, <2>1, FeasibleNow DEF BestFeasible
  <2> QED
    BY <1>0, <2>1, <2>2 DEF BestFeasible, Feasible
<1>3. CASE /\ pc' \in Starting <=> pc \in Starting
           /\ UNCHANGED <<best, bestScore>>
  BY <1>0, <1>3 DEF BestFeasible, Feasible, Starting
<1> QED
  BY <1>1, <1>2, <1>3, FrameFacts

LEMMA BaseStep ==
  ASSUME IInv, [Next]_vars
  PROVE  BaseOK'
<1>0. TypeOK /\ Control /\ Admits /\ inst' = inst
  BY FrameFacts DEF IInv
<1>1. CASE InitEnd
  <2>1. /\ esQueue = <<>> /\ esLate = <<>> /\ lfQueue = <<>> /\ lfLate = <<>>
        /\ edges = {} /\ baseES' = es /\ baseLF' = lf
    BY <1>0, <1>1 DEF InitEnd, Control, Starting
  <2>2. Graph = inst.lag
    BY <2>1 DEF Graph
  <2>3. \A e \in inst.lag : /\ es[e[1]] + Duration(e[1]) <= es[e[2]]
                            /\ lf[e[1]] + Duration(e[2]) <= lf[e[2]]
    BY <2>1, <2>2, NothingIn DEF IInv, StartsTight, FinishsTight
  <2>4. inst \in Instances /\ \A v \in Job : es[v] >= inst.release[v]
                                           /\ lf[v] <= inst.deadline[v]
    BY <1>0 DEF TypeOK
  <2>5. \A v \in Job : /\ inst.release[v] <= es[v]
                       /\ lf[v] <= inst.deadline[v]
                       /\ es[v] + Duration(v) <= lf[v]
    <3>1. \A v \in Job : es[v] \in Nat /\ inst.release[v] \in Nat
      BY <1>0, <2>4, TypeFacts, InstanceFacts
    <3>2. \A v \in Job : es[v] + Duration(v) <= lf[v]
      BY <1>0, WindowFacts
    <3> QED
      BY <2>4, <3>1, <3>2
  <2>6. \A v \in Job : Duration(v)' = Duration(v)
    BY <1>0 DEF Duration
  <2>7. inst.lag \subseteq Job \X Job
    BY <2>4, InstanceFacts
  <2> QED
    BY <1>0, <2>1, <2>3, <2>5, <2>6, <2>7 DEF BaseOK
<1>2. CASE /\ UNCHANGED <<baseES, baseLF>>
           /\ pc' \in Starting <=> pc \in Starting
  <2>1. \A v \in Job : Duration(v)' = Duration(v)
    BY <1>0 DEF Duration
  <2>2. inst.lag \subseteq Job \X Job
    BY <1>0, InstanceFacts DEF TypeOK
  <2> QED
    BY <1>0, <1>2, <2>1, <2>2 DEF BaseOK, IInv
<1> QED
  BY <1>1, <1>2, FrameFacts

\* A step that moves jobs in the sky line brings all of them where they are.
LEMMA MoveFacts ==
  ASSUME IInv, pc \notin Starting, MoveJobs, es' = es
  PROVE  \A v \in Job : pos'[v] = es'[v]
<1>1. \A v \in Job : pos[v] = es[v] \/ v \in changed
  BY DEF IInv, SkyLineFollows
<1> QED
  BY <1>1 DEF MoveJobs

LEMMA SkyStep ==
  ASSUME IInv, [Next]_vars
  PROVE  SkyLineFollows'
<1>0. TypeOK /\ Control /\ Admits /\ SkyLineFollows
  BY DEF IInv
<1>e. ASSUME PushES
      PROVE  \A w \in Job : es'[w] = es[w] \/ w \in changed'
  <2>1. PICK v : v = Last(esQueue)
    OBVIOUS
  <2> QED
    BY <1>0, <1>e, <2>1, PushESFacts
<1>r. ASSUME RebuildES
      PROVE  \A w \in Job : es'[w] = es[w] \/ w \in changed'
  <2>1. PICK v : v = Last(esQueue)
    OBVIOUS
  <2> QED
    BY <1>0, <1>r, <2>1, RebuildESFacts
<1> USE DEF windows, queues, search, base, recorded
<1> USE DEF Starting, Moving
<1>1. CASE PushES
  <2>1. pos' = pos /\ pc' = pc /\ changed \subseteq changed'
    BY <1>1 DEF PushES
  <2>2. pc \in Starting \cup Moving
    BY <1>1 DEF PushES
  <2> QED
    BY <1>0, <1>1, <1>e, <2>1, <2>2 DEF SkyLineFollows
<1>2. CASE RebuildES
  <2>1. pos' = pos /\ pc' = pc /\ pc = "RebuildES"
    BY <1>2 DEF RebuildES
  <2>2. changed \subseteq changed'
    BY <1>0, <1>2, RebuildESFacts
  <2> QED
    BY <1>0, <1>2, <1>r, <2>1, <2>2 DEF SkyLineFollows
<1>3. CASE PushLF \/ RebuildLF
  BY <1>0, <1>3 DEF PushLF, RebuildLF, SkyLineFollows
<1>4. CASE InitTurn \/ InitEnd
  BY <1>0, <1>4 DEF InitTurn, InitEnd, SkyLineFollows
<1>5. CASE RangeChangedEnd \/ StuckEnd \/ DeleteEnd \/ ResetEnd \/ InsertEnd
  <2>1. pc \notin Starting /\ MoveJobs /\ es' = es
    BY <1>5 DEF RangeChangedEnd, StuckEnd, DeleteEnd, ResetEnd, InsertEnd
  <2> QED
    BY <2>1, MoveFacts DEF SkyLineFollows
<1>6. CASE RangeChanged \/ RangeKept \/ Delete \/ Insert
  <2>1. /\ pc \in {"Iterate", "Unstuck", "Candidate"}
        /\ pos' = pos /\ es' = es
    BY <1>6 DEF RangeChanged, RangeKept, Delete, Insert
  <2> QED
    BY <1>0, <2>1 DEF SkyLineFollows
<1>7. CASE OtherPeak \/ Record \/ NothingInserted \/ Discard \/ TimeIsUp
  <2>1. /\ pc \in {"Iterate", "Unstick", "Candidate"}
        /\ pos' = pos /\ es' = es
    BY <1>7 DEF OtherPeak, Record, NothingInserted, Discard, TimeIsUp
  <2> QED
    BY <1>0, <2>1 DEF SkyLineFollows
<1>8. CASE Reset
  BY <1>8 DEF Reset, SkyLineFollows
<1>9. CASE PropagationTurn \/ DeleteTurn \/ InsertTurn
  <2>1. /\ pc \in Moving /\ pc' \in Moving
        /\ pos' = pos /\ es' = es /\ changed' = changed
    BY <1>9 DEF PropagationTurn, DeleteTurn, InsertTurn
  <2> QED
    BY <1>0, <2>1 DEF SkyLineFollows
<1>10. CASE UNCHANGED vars
  BY <1>0, <1>10 DEF vars, SkyLineFollows
<1> QED
  BY <1>1, <1>2, <1>3, <1>4, <1>5, <1>6, <1>7, <1>8, <1>9, <1>10, NextCases
  DEF Quiet

-----------------------------------------------------------------------------
(* The theorems                                                            *)

\* At the start every job waits in both stacks.
LEMMA InitIInv ==
  ASSUME Init
  PROVE  IInv
<1>1. inst \in Instances /\ edges = {} /\ Graph = inst.lag
  BY DEF Init, Graph
<1>2. [v \in Job |-> v] \in Seq(Job) /\ Range([v \in Job |-> v]) = Job
  <2>1. [v \in Job |-> v] \in [1 .. JobCount -> Job]
    BY DEF Job
  <2>2. [v \in Job |-> v] \in Seq(Job)
    BY <2>1, JobCountAssumption, SeqDef
  <2> QED
    BY <2>2 DEF Range
<1>3. TypeOK
  BY <1>1, <1>2, InstanceFacts, JobFacts, NothingIn, ParametersAssumption
  DEF Init, TypeOK, Labels
<1>4. Control
  BY ParametersAssumption DEF Init, Control, Starting
<1>5. Admits
  <2>1. PICK T : Feasible(inst, T)
    BY <1>1, InstanceFacts DEF Solvable
  <2>2. Within(T)
    BY <1>1, <2>1 DEF Init, Within, Feasible, Duration
  <2> QED
    BY <2>2 DEF Admits
<1>6. inst.lag \subseteq Job \X Job
  BY <1>1, InstanceFacts
<1>7. StartsTight /\ FinishsTight
  BY <1>1, <1>2, <1>6 DEF Init, StartsTight, FinishsTight
<1>8. BaseOK /\ BestFeasible /\ SkyLineFollows
  BY DEF Init, BaseOK, BestFeasible, SkyLineFollows, Starting
<1> QED
  BY <1>3, <1>4, <1>5, <1>7, <1>8 DEF IInv

LEMMA NextIInv ==
  ASSUME IInv, [Next]_vars
  PROVE  IInv'
<1>1. TypeOK' /\ Control' /\ Admits'
  BY TypeStep, ControlStep, AdmitsStep
<1>2. StartsTight' /\ FinishsTight' /\ BaseOK'
  BY StartsTightStep, FinishsTightStep, BaseStep
<1>3. BestFeasible' /\ SkyLineFollows'
  BY BestStep, SkyStep
<1> QED
  BY <1>1, <1>2, <1>3 DEF IInv

\* The invariant holds in every state of every search.
THEOREM Invariant == Spec => []IInv
<1>1. Init => IInv
  BY InitIInv
<1>2. IInv /\ [Next]_vars => IInv'
  BY NextIInv
<1> QED
  BY <1>1, <1>2, PTL DEF Spec

\* The members keep their types; in particular the windows stay between the
\* releases and the deadlines and no unsigned value wraps.
THEOREM TypesAreRight == Spec => []TypeOK
<1>1. IInv => TypeOK
  BY DEF IInv
<1> QED
  BY <1>1, Invariant, PTL

\* Whatever edges the search inserts and deletes, and however much of the
\* propagation it puts off: some schedule within the windows respects the graph.
THEOREM GraphStaysSolvable == Spec => []Admits
<1>1. IInv => Admits
  BY DEF IInv
<1> QED
  BY <1>1, Invariant, PTL

\* What get_solution() returns is feasible from the end of the initialisation
\* on, whenever the time is up.
THEOREM BestIsFeasible == Spec => []BestFeasible
<1>1. IInv => BestFeasible
  BY DEF IInv
<1> QED
  BY <1>1, Invariant, PTL

LEMMA IInvSkyLine ==
  ASSUME IInv
  PROVE  SkyLineCurrent
<1>1. pos \in [Job -> Nat] /\ es \in [Job -> Nat]
  BY DEF IInv, TypeOK
<1>2. ASSUME pc \in {"Iterate", "Unstick", "Unstuck", "Candidate", "Done"}
      PROVE  \A v \in Job : pos[v] = es[v]
  BY <1>2 DEF IInv, SkyLineFollows, Starting, Moving
<1> QED
  BY <1>1, <1>2 DEF SkyLineCurrent

\* Whenever the peak is read, every job that moved has been moved in the sky
\* line too.
THEOREM SkyLineIsCurrent == Spec => []SkyLineCurrent
<1>1. IInv => SkyLineCurrent
  BY IInvSkyLine
<1> QED
  BY <1>1, Invariant, PTL

\* No edge is inserted a second time, and none beside a permanent one: along an
\* edge whose jobs touch the active range the starts are consistent, so that
\* the jobs do not overlap.
THEOREM EdgesAreNew == Spec => NoParallelEdges
<1>1. ASSUME IInv, [Next]_vars, pc = "Candidate", pc' = "InsertES"
      PROVE  edges' # edges /\ \A e \in edges' \ edges : e \notin inst.lag
  <2>0. TypeOK /\ Control /\ StartsTight
    BY <1>1 DEF IInv
  <2>1. Insert
    <3>1. CASE PushES \/ PushLF \/ RebuildES \/ RebuildLF \/ Delete \/ Reset
      BY <1>1, <3>1 DEF PushES, PushLF, RebuildES, RebuildLF, Delete, Reset
    <3>2. CASE Quiet
      BY <1>1, <3>2
      DEF Quiet, InitTurn, InitEnd, PropagationTurn, RangeChanged,
          RangeChangedEnd, RangeKept, StuckEnd, OtherPeak, Record, DeleteTurn,
          DeleteEnd, ResetEnd, Discard, InsertTurn, InsertEnd,
          NothingInserted, EndIteration, TimeIsUp, vars
    <3> QED
      BY <1>1, <3>1, <3>2, NextCases
  <2>2. PICK e \in candidates :
          /\ Insertable(e[1], e[2]) /\ e[1] \in Job /\ e[2] \in Job
          /\ edges' = edges \cup {e}
    BY <2>0, <2>1, InsertFacts
  <2>3. es[e[2]] < es[e[1]] + Duration(e[1]) /\ es[e[2]] <= active[2]
    BY <2>2 DEF Insertable, Overlap, InRange
  <2>4. e \notin Graph
    <3>1. SUFFICES ASSUME e \in Graph PROVE FALSE
      OBVIOUS
    <3>2. /\ es[e[1]] \in Nat /\ es[e[2]] \in Nat /\ Duration(e[1]) \in Nat
          /\ active[2] \in Nat
      BY <2>0, <2>2, TypeFacts
    <3>3. esQueue = <<>>
      BY <1>1, <2>0 DEF Control
    <3>4. \/ es[e[1]] + Duration(e[1]) <= es[e[2]]
          \/ es[e[2]] > active[2]
      BY <1>1, <2>0, <3>1, <3>3, NothingIn DEF StartsTight
    <3> QED
      BY <2>3, <3>2, <3>4
  <2> QED
    BY <2>2, <2>4 DEF Graph
<1> QED
  BY <1>1, Invariant, PTL DEF Spec, NoParallelEdges

\* The solver implements the promise of an anytime solver: the solution is
\* feasible from the moment there is one, and it is only replaced by one with a
\* lower peak.
THEOREM Refinement == Spec => ImplementsAnytime
<1>1. ASSUME Init PROVE Promise!Init
  BY <1>1 DEF Init, Promise!Init, NoScore, Promise!NoScore
<1>2. ASSUME IInv, IInv', [Next]_vars PROVE [Promise!Next]_Promise!vars
  <2>0. BestFeasible /\ BestFeasible' /\ best # <<>> /\ inst' = inst
    BY <1>2, FrameFacts, JobFacts DEF IInv, TypeOK
  <2>1. CASE InitEnd
    <3>1. /\ pc = "InitLF" /\ pc' = "Iterate" /\ bestScore' = bestScore
      BY <2>1 DEF InitEnd
    <3>2. Feasible(inst, best')
      BY <2>0, <3>1 DEF BestFeasible
    <3>3. Promise!Start
      BY <2>0, <3>1, <3>2 DEF Promise!Start
    <3> QED
      BY <3>3 DEF Promise!Next
  <2>2. CASE Record
    <3>1. /\ pc = "Unstick" /\ pc' = "Unstuck"
          /\ \/ UNCHANGED <<best, bestScore>>
             \/ /\ best' = es /\ bestScore' = Peak(inst, pos)
                /\ bestScore = NoScore \/ Peak(inst, pos) < bestScore
      BY <2>2 DEF Record, recorded
    <3>2. CASE UNCHANGED <<best, bestScore>>
      BY <2>0, <3>1, <3>2 DEF Promise!vars
    <3>3. CASE /\ best' = es /\ bestScore' = Peak(inst, pos)
               /\ bestScore = NoScore \/ Peak(inst, pos) < bestScore
      <4>1. pos = es
        BY <1>2, <3>1, IInvSkyLine DEF SkyLineCurrent
      <4>2. Feasible(inst, best')
        BY <2>0, <3>1 DEF BestFeasible
      <4>3. Promise!Improve
        BY <2>0, <3>1, <3>3, <4>1, <4>2
        DEF Promise!Improve, NoScore, Promise!NoScore
      <4> QED
        BY <4>3 DEF Promise!Next
    <3> QED
      BY <3>1, <3>2, <3>3
  <2>3. CASE /\ pc' \in Starting <=> pc \in Starting
             /\ UNCHANGED <<best, bestScore>>
    BY <2>0, <2>3 DEF Promise!vars, Starting
  <2> QED
    BY <1>2, <2>1, <2>2, <2>3, FrameFacts
<1> QED
  BY <1>1, <1>2, Invariant, PTL DEF Spec, ImplementsAnytime, Promise!Spec

-----------------------------------------------------------------------------
(* Windows are held in their places                                        *)

\* A start that is later than the release is held there by a job before it, or
\* the job waits to be looked at after edges were deleted.
StartsSupported ==
  \A v \in Job :
    \/ es[v] <= inst.release[v]
    \/ \E u \in Job : <<u, v>> \in Graph /\ es[v] <= es[u] + Duration(u)
    \/ pc = "RebuildES" /\ v \in Range(esQueue)

\* The same for the finishs.
FinishsSupported ==
  \A v \in Job :
    \/ inst.deadline[v] <= lf[v]
    \/ \E w \in Job : <<v, w>> \in Graph /\ lf[w] <= lf[v] + Duration(w)
    \/ pc \in {"RebuildES", "RebuildLF"} /\ v \in Range(lfQueue)

\* The same for the windows of the lag graph alone.
BaseSupported ==
  pc \notin Starting =>
    \A v \in Job :
      /\ \/ baseES[v] <= inst.release[v]
         \/ \E u \in Job : <<u, v>> \in inst.lag /\ baseES[v] <= baseES[u] + Duration(u)
      /\ \/ inst.deadline[v] <= baseLF[v]
         \/ \E w \in Job : <<v, w>> \in inst.lag /\ baseLF[w] <= baseLF[v] + Duration(w)

\* Edges only narrow the windows.
InsideBase ==
  pc \notin Starting => \A v \in Job : baseES[v] <= es[v] /\ lf[v] <= baseLF[v]

HeldInv == StartsSupported /\ FinishsSupported /\ BaseSupported /\ InsideBase

\* What is left out of RebuildESFacts: who holds the start, and who waits.
LEMMA RebuildESHolds ==
  ASSUME TypeOK, RebuildES, NEW v, v = Last(esQueue)
  PROVE  /\ \A u \in Range(esQueue) : u = v \/ u \in Range(esQueue')
         /\ \/ /\ es'[v] = es[v]
               /\ \/ es[v] <= inst.release[v]
                  \/ \E u \in Job : <<u, v>> \in Graph /\ es[v] <= es[u] + Duration(u)
            \/ /\ es'[v] < es[v]
               /\ \/ es'[v] = inst.release[v]
                  \/ \E u \in Job : <<u, v>> \in Graph /\ es'[v] = es[u] + Duration(u)
               /\ \A w \in Job : <<v, w>> \in Graph => w \in Range(esQueue')
<1> DEFINE Bounds == {inst.release[v]} \cup {es[u] + Duration(u) : u \in Pred(v)}
<1>1. esQueue # <<>>
  BY DEF RebuildES
<1>2. /\ v \in Job /\ Front(esQueue) \in Seq(Job)
      /\ \A u \in Range(esQueue) : u = v \/ u \in Range(Front(esQueue))
  BY <1>1, TypeFacts, StackFacts
<1>3. PICK start \in Bounds :
        /\ \A b \in Bounds : b <= start
        /\ \/ LowerStart(v, start)
           \/ start >= es[v] /\ esQueue' = Front(esQueue)
                             /\ UNCHANGED <<es, changed>>
  BY DEF RebuildES
<1>4. \/ start = inst.release[v]
      \/ \E u \in Job : <<u, v>> \in Graph /\ start = es[u] + Duration(u)
  BY <1>3 DEF Pred
<1>5. CASE LowerStart(v, start)
  <2>1. /\ start < es[v] /\ es' = [es EXCEPT ![v] = start]
        /\ \E o \in Orders(Succ(v)) : esQueue' = Front(esQueue) \o o
    BY <1>5 DEF LowerStart
  <2>2. PICK o \in Orders(Succ(v)) : esQueue' = Front(esQueue) \o o
    BY <2>1
  <2>3. o \in Seq(Job) /\ Range(o) = Succ(v)
    BY OrderFacts DEF Succ
  <2>4. Range(esQueue') = Range(Front(esQueue)) \cup Succ(v)
    BY <1>2, <2>2, <2>3, PushFacts
  <2>5. es'[v] = start
    BY <1>2, <2>1, TypeFacts
  <2> QED
    BY <1>2, <1>4, <2>1, <2>4, <2>5 DEF Succ
<1>6. CASE start >= es[v] /\ esQueue' = Front(esQueue) /\ UNCHANGED <<es, changed>>
  <2>1. es[v] \in Nat /\ \A u \in Job : es[u] + Duration(u) \in Nat
    BY <1>2, TypeFacts
  <2>2. inst.release[v] \in Nat
    BY <1>2, InstanceFacts DEF TypeOK
  <2>3. \/ es[v] <= inst.release[v]
        \/ \E u \in Job : <<u, v>> \in Graph /\ es[v] <= es[u] + Duration(u)
    BY <1>4, <1>6, <2>1, <2>2
  <2> QED
    BY <1>2, <1>6, <2>3
<1> QED
  BY <1>3, <1>5, <1>6

LEMMA RebuildLFHolds ==
  ASSUME TypeOK, RebuildLF, Admits, NEW v, v = Last(lfQueue)
  PROVE  /\ \A u \in Range(lfQueue) : u = v \/ u \in Range(lfQueue')
         /\ \/ /\ lf'[v] = lf[v]
               /\ \/ inst.deadline[v] <= lf[v]
                  \/ \E w \in Job : <<v, w>> \in Graph /\ lf[w] <= lf[v] + Duration(w)
            \/ /\ lf'[v] > lf[v]
               /\ \/ lf'[v] = inst.deadline[v]
                  \/ \E w \in Job : <<v, w>> \in Graph /\ lf'[v] + Duration(w) = lf[w]
               /\ \A u \in Job : <<u, v>> \in Graph => u \in Range(lfQueue')
<1> DEFINE Bounds == {inst.deadline[v]} \cup {lf[w] - Duration(w) : w \in Succ(v)}
<1>1. lfQueue # <<>>
  BY DEF RebuildLF
<1>2. /\ v \in Job /\ Front(lfQueue) \in Seq(Job)
      /\ \A u \in Range(lfQueue) : u = v \/ u \in Range(Front(lfQueue))
  BY <1>1, TypeFacts, StackFacts
<1>3. PICK finish \in Bounds :
        /\ \A b \in Bounds : finish <= b
        /\ \/ /\ finish > lf[v]
              /\ lf' = [lf EXCEPT ![v] = finish]
              /\ \E o \in Orders(Pred(v)) : lfQueue' = Front(lfQueue) \o o
           \/ finish <= lf[v] /\ lfQueue' = Front(lfQueue) /\ UNCHANGED lf
  BY DEF RebuildLF
<1>4. /\ lf[v] \in Nat /\ inst.deadline[v] \in Nat
      /\ \A w \in Job : lf[w] \in Nat /\ Duration(w) \in Nat
  BY <1>2, TypeFacts, InstanceFacts DEF TypeOK
<1>5. \/ finish = inst.deadline[v]
      \/ \E w \in Job : <<v, w>> \in Graph /\ finish = lf[w] - Duration(w)
  BY <1>3 DEF Succ
<1>6. CASE /\ finish > lf[v]
           /\ lf' = [lf EXCEPT ![v] = finish]
           /\ \E o \in Orders(Pred(v)) : lfQueue' = Front(lfQueue) \o o
  <2>1. PICK o \in Orders(Pred(v)) : lfQueue' = Front(lfQueue) \o o
    BY <1>6
  <2>2. o \in Seq(Job) /\ Range(o) = Pred(v)
    BY OrderFacts DEF Pred
  <2>3. Range(lfQueue') = Range(Front(lfQueue)) \cup Pred(v)
    BY <1>2, <2>1, <2>2, PushFacts
  <2>4. lf'[v] = finish
    BY <1>2, <1>6, TypeFacts
  <2>5. \/ finish = inst.deadline[v]
        \/ \E w \in Job : <<v, w>> \in Graph /\ finish + Duration(w) = lf[w]
    BY <1>4, <1>5
  <2> QED
    BY <1>2, <1>6, <2>3, <2>4, <2>5 DEF Pred
<1>7. CASE finish <= lf[v] /\ lfQueue' = Front(lfQueue) /\ UNCHANGED lf
  <2>1. \/ inst.deadline[v] <= lf[v]
        \/ \E w \in Job : <<v, w>> \in Graph /\ lf[w] <= lf[v] + Duration(w)
    <3>1. CASE finish = inst.deadline[v]
      BY <1>7, <3>1
    <3>2. ASSUME NEW w \in Job, <<v, w>> \in Graph, finish = lf[w] - Duration(w)
          PROVE  lf[w] <= lf[v] + Duration(w)
      BY <1>4, <1>7, <3>2
    <3> QED
      BY <1>5, <3>1, <3>2
  <2> QED
    BY <1>2, <1>7, <2>1
<1> QED
  BY <1>3, <1>6, <1>7

\* The deletion for a pair: the edges that go, and who waits.
LEMMA DeleteHolds ==
  ASSUME TypeOK, Delete
  PROVE  \E s, t \in Job :
           /\ TrialSucceeds(s, t) /\ s # t
           /\ candidates' = {<<s, t>>}
           /\ edges' = edges \ (ForwardsEdges(t) \cup BackwardsEdges(s))
           /\ \A e \in ForwardsEdges(t) \cup BackwardsEdges(s) :
                e[2] \in Range(esQueue') /\ e[1] \in Range(lfQueue')
<1>1. PICK o \in Sortings, k \in Trials :
        Succeeds(k, o) /\ DeleteFor(Trial(k, o)[1], Trial(k, o)[2])
  BY DEF Delete
<1> DEFINE s == Trial(k, o)[1]
           t == Trial(k, o)[2]
           Deleted == ForwardsEdges(t) \cup BackwardsEdges(s)
<1>2. /\ edges' = edges \ Deleted
      /\ candidates' = {<<s, t>>}
      /\ \E p \in Orders(Deleted) :
           /\ esQueue' = [i \in DOMAIN p |-> p[i][2]]
           /\ lfQueue' = [i \in DOMAIN p |-> p[i][1]]
  BY <1>1 DEF DeleteFor
<1>3. TrialSucceeds(s, t) /\ s # t
  BY <1>1 DEF Succeeds, TrialSucceeds
<1>4. s \in Job /\ t \in Job
  <2>1. candidates' \subseteq Job \X Job
    BY DeleteFacts
  <2> QED
    BY <1>2, <2>1
<1>5. PICK p \in Orders(Deleted) :
        /\ esQueue' = [i \in DOMAIN p |-> p[i][2]]
        /\ lfQueue' = [i \in DOMAIN p |-> p[i][1]]
  BY <1>2
<1>6. ASSUME NEW e \in Deleted
      PROVE  e[2] \in Range(esQueue') /\ e[1] \in Range(lfQueue')
  <2> HIDE DEF Deleted
  <2>1. Range(p) = Deleted
    BY <1>5 DEF Orders
  <2>2. PICK i \in DOMAIN p : e = p[i]
    BY <2>1 DEF Range
  <2>3. /\ DOMAIN esQueue' = DOMAIN p /\ DOMAIN lfQueue' = DOMAIN p
        /\ esQueue'[i] = e[2] /\ lfQueue'[i] = e[1]
    BY <1>5, <2>2
  <2> QED
    BY <2>2, <2>3 DEF Range
<1> QED
  BY <1>2, <1>3, <1>4, <1>6

\* Every step leaves the starts held.
LEMMA StartsSupportedStep ==
  ASSUME IInv, StartsSupported, BaseSupported, [Next]_vars
  PROVE  StartsSupported'
<1>0. /\ TypeOK /\ Control /\ Admits /\ inst' = inst
      /\ \A v \in Job : /\ es[v] \in Nat /\ Duration(v) \in Nat /\ inst.release[v] \in Nat
                        /\ Duration(v)' = Duration(v)
      /\ Graph \subseteq Job \X Job
  BY FrameFacts, TypeFacts, InstanceFacts DEF IInv, Duration, TypeOK
<1>1. ASSUME es' = es, edges \subseteq edges', pc # "RebuildES" \/ esQueue = <<>> \/
             (pc' = pc /\ esQueue' = esQueue)
      PROVE  StartsSupported'
  <2>1. Graph \subseteq Graph'
    BY <1>0, <1>1 DEF Graph
  <2> QED
    BY <1>0, <1>1, <2>1, NothingIn DEF StartsSupported
<1>2. CASE PushES
  <2>1. PICK x : x = Last(esQueue)
    OBVIOUS
  <2>2. /\ x \in Job /\ es'[x] = es[x]
        /\ \A w \in Job : es'[w] = es[w] \/ /\ <<x, w>> \in Graph
                                            /\ es[w] < es[x] + Duration(x)
                                            /\ es'[w] = es[x] + Duration(x)
    BY <1>0, <1>2, <2>1, PushESFacts
  <2>3. Graph' = Graph /\ pc # "RebuildES"
    BY <1>2 DEF PushES, Graph
  <2>4. SUFFICES ASSUME NEW v \in Job
                 PROVE  \/ es'[v] <= inst.release[v]
                        \/ \E u \in Job : <<u, v>> \in Graph /\ es'[v] <= es'[u] + Duration(u)
    BY <1>0, <2>3 DEF StartsSupported
  <2>5. CASE es'[v] = es[v]
    <3>1. CASE es[v] <= inst.release[v]
      BY <2>5, <3>1
    <3>2. ASSUME NEW u \in Job, <<u, v>> \in Graph, es[v] <= es[u] + Duration(u)
          PROVE  es'[v] <= es'[u] + Duration(u)
      <4>1. \/ es'[u] = es[u]
            \/ es[u] < es[x] + Duration(x) /\ es'[u] = es[x] + Duration(x)
        BY <2>2, Zenon
      <4>2. es[u] <= es'[u] /\ es'[u] \in Nat
        BY <1>0, <2>2, <4>1
      <4> QED
        BY <1>0, <2>5, <3>2, <4>2
    <3> QED
      BY <2>3, <3>1, <3>2 DEF StartsSupported
  <2>6. CASE <<x, v>> \in Graph /\ es'[v] = es[x] + Duration(x)
    <3>1. es'[v] <= es'[x] + Duration(x)
      BY <1>0, <2>2, <2>6
    <3> QED
      BY <2>2, <2>6, <3>1
  <2> QED
    BY <2>2, <2>5, <2>6
<1>3. CASE RebuildES
  <2>1. PICK x : x = Last(esQueue)
    OBVIOUS
  <2>2. /\ x \in Job /\ es' \in [Job -> Nat]
        /\ \A w \in Job : w # x => es'[w] = es[w]
    BY <1>0, <1>3, <2>1, RebuildESFacts
  <2>3. /\ \A u \in Range(esQueue) : u = x \/ u \in Range(esQueue')
        /\ \/ /\ es'[x] = es[x]
              /\ \/ es[x] <= inst.release[x]
                 \/ \E u \in Job : <<u, x>> \in Graph /\ es[x] <= es[u] + Duration(u)
           \/ /\ es'[x] < es[x]
              /\ \/ es'[x] = inst.release[x]
                 \/ \E u \in Job : <<u, x>> \in Graph /\ es'[x] = es[u] + Duration(u)
              /\ \A w \in Job : <<x, w>> \in Graph => w \in Range(esQueue')
    BY <1>0, <1>3, <2>1, RebuildESHolds
  <2>4. Graph' = Graph /\ pc = "RebuildES" /\ pc' = pc
    BY <1>3 DEF RebuildES, Graph
  <2>5. SUFFICES ASSUME NEW v \in Job
                 PROVE  \/ es'[v] <= inst.release[v]
                        \/ \E u \in Job : <<u, v>> \in Graph /\ es'[v] <= es'[u] + Duration(u)
                        \/ v \in Range(esQueue')
    BY <1>0, <2>4 DEF StartsSupported
  <2>6. CASE es'[x] = es[x]
    <3>1. \A w \in Job : es'[w] = es[w]
      BY <2>2, <2>6
    <3>2. CASE v = x
      <4>1. ~ (es'[x] < es[x])
        BY <1>0, <2>2, <2>6
      <4> QED
        BY <2>3, <3>1, <3>2, <4>1
    <3>3. CASE v # x
      BY <2>3, <3>1, <3>3 DEF StartsSupported
    <3> QED
      BY <3>2, <3>3
  <2>7. CASE es'[x] < es[x]
    <3>1. CASE v = x
      <4>1. CASE es'[x] = inst.release[x]
        BY <1>0, <2>2, <3>1, <4>1
      <4>2. ASSUME NEW u \in Job, <<u, x>> \in Graph, es'[x] = es[u] + Duration(u)
            PROVE  es'[x] <= es'[u] + Duration(u)
        <5>1. u # x
          BY <1>0, <2>2, <2>7, <4>2
        <5> QED
          BY <1>0, <2>2, <4>2, <5>1
      <4>3. es'[x] = es[x] => FALSE
        BY <1>0, <2>2, <2>7
      <4> QED
        BY <2>3, <3>1, <4>1, <4>2, <4>3
    <3>2. CASE v # x
      <4>1. CASE es[v] <= inst.release[v]
        BY <2>2, <3>2, <4>1
      <4>2. ASSUME NEW u \in Job, <<u, v>> \in Graph, es[v] <= es[u] + Duration(u)
            PROVE  es'[v] <= es'[u] + Duration(u) \/ v \in Range(esQueue')
        <5>1. CASE u = x
          <6>1. es'[x] = es[x] => FALSE
            BY <1>0, <2>2, <2>7
          <6> QED
            BY <2>3, <4>2, <5>1, <6>1
        <5>2. CASE u # x
          BY <2>2, <3>2, <4>2, <5>2
        <5> QED
          BY <5>1, <5>2
      <4>3. CASE v \in Range(esQueue)
        BY <2>3, <3>2, <4>3
      <4> QED
        BY <4>1, <4>2, <4>3 DEF StartsSupported
    <3> QED
      BY <3>1, <3>2
  <2> QED
    BY <2>3, <2>6, <2>7
<1>4. CASE Delete
  <2>1. PICK s \in Job, t \in Job :
           /\ edges' = edges \ (ForwardsEdges(t) \cup BackwardsEdges(s))
           /\ \A e \in ForwardsEdges(t) \cup BackwardsEdges(s) :
                e[2] \in Range(esQueue') /\ e[1] \in Range(lfQueue')
    BY <1>0, <1>4, DeleteHolds
  <2>2. pc = "Unstuck" /\ pc' = "RebuildES" /\ es' = es
    BY <1>4 DEF Delete, windows
  <2>3. ASSUME NEW v \in Job, NEW u \in Job, <<u, v>> \in Graph
        PROVE  <<u, v>> \in Graph' \/ v \in Range(esQueue')
    BY <1>0, <2>1, <2>3 DEF Graph
  <2> QED
    BY <1>0, <2>2, <2>3 DEF StartsSupported
<1>5. CASE Reset
  <2>1. es' = baseES /\ edges' = {} /\ pc = "Unstuck"
    BY <1>5 DEF Reset
  <2>2. Graph' = inst.lag
    BY <1>0, <2>1 DEF Graph
  <2> QED
    BY <1>0, <2>1, <2>2 DEF BaseSupported, StartsSupported, Starting
<1>6. CASE Insert
  BY <1>1, <1>6 DEF Insert, windows
<1>7. CASE PushLF \/ RebuildLF
  BY <1>1, <1>7 DEF PushLF, RebuildLF
<1>8. CASE Quiet
  <2>1. es' = es /\ edges' = edges
    BY <1>8, QuietFacts
  <2>2. pc # "RebuildES" \/ esQueue = <<>> \/ (pc' = pc /\ esQueue' = esQueue)
    BY <1>8 DEF Quiet, InitTurn, InitEnd, PropagationTurn, RangeChanged, RangeChangedEnd,
       RangeKept, StuckEnd, OtherPeak, Record, DeleteTurn, DeleteEnd, ResetEnd, Discard,
       InsertTurn, InsertEnd, NothingInserted, TimeIsUp, vars
  <2> QED
    BY <1>1, <2>1, <2>2
<1> QED
  BY <1>2, <1>3, <1>4, <1>5, <1>6, <1>7, <1>8, NextCases

\* Every step leaves the finishs held.
LEMMA FinishsSupportedStep ==
  ASSUME IInv, FinishsSupported, BaseSupported, [Next]_vars
  PROVE  FinishsSupported'
<1>0. /\ TypeOK /\ Control /\ Admits /\ inst' = inst
      /\ \A v \in Job : /\ lf[v] \in Nat /\ Duration(v) \in Nat /\ inst.deadline[v] \in Nat
                        /\ Duration(v)' = Duration(v)
      /\ Graph \subseteq Job \X Job
  BY FrameFacts, TypeFacts, InstanceFacts DEF IInv, Duration, TypeOK
<1>1. ASSUME lf' = lf, edges \subseteq edges',
             \/ pc \notin {"RebuildES", "RebuildLF"} \/ lfQueue = <<>>
             \/ pc' \in {"RebuildES", "RebuildLF"} /\ lfQueue' = lfQueue
      PROVE  FinishsSupported'
  <2>1. Graph \subseteq Graph'
    BY <1>0, <1>1 DEF Graph
  <2> QED
    BY <1>0, <1>1, <2>1, NothingIn DEF FinishsSupported
<1>2. CASE PushLF
  <2>1. PICK x : x = Last(lfQueue)
    OBVIOUS
  <2>2. /\ x \in Job /\ lf'[x] = lf[x] /\ lf' \in [Job -> Nat]
        /\ \A u \in Job : lf'[u] = lf[u] \/ /\ <<u, x>> \in Graph
                                            /\ lf[x] < lf[u] + Duration(x)
                                            /\ lf'[u] = lf[x] - Duration(x)
    BY <1>0, <1>2, <2>1, PushLFFacts
  <2>3. Graph' = Graph /\ pc \notin {"RebuildES", "RebuildLF"}
    BY <1>2 DEF PushLF, Graph
  <2>4. SUFFICES ASSUME NEW v \in Job
                 PROVE  \/ inst.deadline[v] <= lf'[v]
                        \/ \E w \in Job : <<v, w>> \in Graph /\ lf'[w] <= lf'[v] + Duration(w)
    BY <1>0, <2>3 DEF FinishsSupported
  <2>5. CASE lf'[v] = lf[v]
    <3>1. CASE inst.deadline[v] <= lf[v]
      BY <2>5, <3>1
    <3>2. ASSUME NEW w \in Job, <<v, w>> \in Graph, lf[w] <= lf[v] + Duration(w)
          PROVE  lf'[w] <= lf'[v] + Duration(w)
      <4>1. \/ lf'[w] = lf[w]
            \/ lf[x] < lf[w] + Duration(x) /\ lf'[w] = lf[x] - Duration(x)
        BY <2>2, Zenon
      <4>2. lf'[w] <= lf[w] /\ lf'[w] \in Nat
        BY <1>0, <2>2, <4>1
      <4> QED
        BY <1>0, <2>5, <3>2, <4>2
    <3> QED
      BY <2>3, <3>1, <3>2 DEF FinishsSupported
  <2>6. CASE <<v, x>> \in Graph /\ lf'[v] = lf[x] - Duration(x)
    <3>1. lf'[x] <= lf'[v] + Duration(x)
      BY <1>0, <2>2, <2>6
    <3> QED
      BY <2>2, <2>6, <3>1
  <2> QED
    BY <2>2, <2>5, <2>6
<1>3. CASE RebuildLF
  <2>1. PICK x : x = Last(lfQueue)
    OBVIOUS
  <2>2. /\ x \in Job /\ lf' \in [Job -> Nat]
        /\ \A u \in Job : u # x => lf'[u] = lf[u]
    BY <1>0, <1>3, <2>1, RebuildLFFacts
  <2>3. /\ \A u \in Range(lfQueue) : u = x \/ u \in Range(lfQueue')
        /\ \/ /\ lf'[x] = lf[x]
              /\ \/ inst.deadline[x] <= lf[x]
                 \/ \E w \in Job : <<x, w>> \in Graph /\ lf[w] <= lf[x] + Duration(w)
           \/ /\ lf'[x] > lf[x]
              /\ \/ lf'[x] = inst.deadline[x]
                 \/ \E w \in Job : <<x, w>> \in Graph /\ lf'[x] + Duration(w) = lf[w]
              /\ \A u \in Job : <<u, x>> \in Graph => u \in Range(lfQueue')
    BY <1>0, <1>3, <2>1, RebuildLFHolds
  <2>4. Graph' = Graph /\ pc = "RebuildLF" /\ pc' = pc
    BY <1>3 DEF RebuildLF, Graph
  <2>5. SUFFICES ASSUME NEW v \in Job
                 PROVE  \/ inst.deadline[v] <= lf'[v]
                        \/ \E w \in Job : <<v, w>> \in Graph /\ lf'[w] <= lf'[v] + Duration(w)
                        \/ v \in Range(lfQueue')
    BY <1>0, <2>4 DEF FinishsSupported
  <2>6. CASE lf'[x] = lf[x]
    <3>1. \A w \in Job : lf'[w] = lf[w]
      BY <2>2, <2>6
    <3>2. CASE v = x
      <4>1. ~ (lf'[x] > lf[x])
        BY <1>0, <2>2, <2>6
      <4> QED
        BY <2>3, <3>1, <3>2, <4>1
    <3>3. CASE v # x
      BY <2>3, <3>1, <3>3 DEF FinishsSupported
    <3> QED
      BY <3>2, <3>3
  <2>7. CASE lf'[x] > lf[x]
    <3>1. CASE v = x
      <4>1. CASE lf'[x] = inst.deadline[x]
        BY <1>0, <2>2, <3>1, <4>1
      <4>2. ASSUME NEW w \in Job, <<x, w>> \in Graph, lf'[x] + Duration(w) = lf[w]
            PROVE  lf'[w] <= lf'[x] + Duration(w)
        <5>1. w # x
          BY <1>0, <2>2, <2>7, <4>2
        <5> QED
          BY <1>0, <2>2, <4>2, <5>1
      <4>3. lf'[x] = lf[x] => FALSE
        BY <1>0, <2>2, <2>7
      <4> QED
        BY <2>3, <3>1, <4>1, <4>2, <4>3
    <3>2. CASE v # x
      <4>1. CASE inst.deadline[v] <= lf[v]
        BY <2>2, <3>2, <4>1
      <4>2. ASSUME NEW w \in Job, <<v, w>> \in Graph, lf[w] <= lf[v] + Duration(w)
            PROVE  lf'[w] <= lf'[v] + Duration(w) \/ v \in Range(lfQueue')
        <5>1. CASE w = x
          <6>1. lf'[x] = lf[x] => FALSE
            BY <1>0, <2>2, <2>7
          <6> QED
            BY <2>3, <4>2, <5>1, <6>1
        <5>2. CASE w # x
          BY <2>2, <3>2, <4>2, <5>2
        <5> QED
          BY <5>1, <5>2
      <4>3. CASE v \in Range(lfQueue)
        BY <2>3, <3>2, <4>3
      <4> QED
        BY <4>1, <4>2, <4>3 DEF FinishsSupported
    <3> QED
      BY <3>1, <3>2
  <2> QED
    BY <2>3, <2>6, <2>7
<1>4. CASE Delete
  <2>1. PICK s \in Job, t \in Job :
           /\ edges' = edges \ (ForwardsEdges(t) \cup BackwardsEdges(s))
           /\ \A e \in ForwardsEdges(t) \cup BackwardsEdges(s) :
                e[2] \in Range(esQueue') /\ e[1] \in Range(lfQueue')
    BY <1>0, <1>4, DeleteHolds
  <2>2. pc = "Unstuck" /\ pc' = "RebuildES" /\ lf' = lf
    BY <1>4 DEF Delete, windows
  <2>3. ASSUME NEW v \in Job, NEW w \in Job, <<v, w>> \in Graph
        PROVE  <<v, w>> \in Graph' \/ v \in Range(lfQueue')
    BY <1>0, <2>1, <2>3 DEF Graph
  <2> QED
    BY <1>0, <2>2, <2>3 DEF FinishsSupported
<1>5. CASE Reset
  <2>1. lf' = baseLF /\ edges' = {} /\ pc = "Unstuck"
    BY <1>5 DEF Reset
  <2>2. Graph' = inst.lag
    BY <1>0, <2>1 DEF Graph
  <2> QED
    BY <1>0, <2>1, <2>2 DEF BaseSupported, FinishsSupported, Starting
<1>6. CASE Insert
  BY <1>1, <1>6 DEF Insert, windows
<1>7. CASE PushES \/ RebuildES
  BY <1>1, <1>7 DEF PushES, RebuildES
<1>8. CASE Quiet
  <2>1. lf' = lf /\ edges' = edges
    BY <1>8, QuietFacts
  <2>2. \/ pc \notin {"RebuildES", "RebuildLF"} \/ lfQueue = <<>>
        \/ pc' \in {"RebuildES", "RebuildLF"} /\ lfQueue' = lfQueue
    BY <1>8 DEF Quiet, InitTurn, InitEnd, PropagationTurn, RangeChanged, RangeChangedEnd,
       RangeKept, StuckEnd, OtherPeak, Record, DeleteTurn, DeleteEnd, ResetEnd, Discard,
       InsertTurn, InsertEnd, NothingInserted, TimeIsUp, vars, queues
  <2> QED
    BY <1>1, <2>1, <2>2
<1> QED
  BY <1>2, <1>3, <1>4, <1>5, <1>6, <1>7, <1>8, NextCases

\* The windows of the lag graph are held when they are recorded, and never change.
LEMMA BaseSupportedStep ==
  ASSUME IInv, HeldInv, [Next]_vars
  PROVE  BaseSupported'
<1>0. /\ Control /\ inst' = inst /\ \A v \in Job : Duration(v)' = Duration(v)
      /\ StartsSupported /\ FinishsSupported /\ BaseSupported
  BY FrameFacts DEF IInv, Duration, HeldInv
<1>1. CASE InitEnd
  <2>1. pc = "InitLF" /\ edges = {} /\ baseES' = es /\ baseLF' = lf
    BY <1>0, <1>1 DEF InitEnd, Control, Starting
  <2>2. Graph = inst.lag
    BY <2>1 DEF Graph
  <2> QED
    BY <1>0, <2>1, <2>2 DEF StartsSupported, FinishsSupported, BaseSupported
<1>2. CASE /\ UNCHANGED <<baseES, baseLF>>
           /\ pc' \in Starting <=> pc \in Starting
  BY <1>0, <1>2 DEF BaseSupported
<1> QED
  BY <1>1, <1>2, FrameFacts

\* No start falls below its base, and no finish rises above it.
LEMMA InsideBaseStep ==
  ASSUME IInv, HeldInv, [Next]_vars
  PROVE  InsideBase'
<1>0. /\ TypeOK /\ Control /\ Admits /\ inst' = inst /\ BaseSupported
      /\ \A v \in Job : /\ es[v] \in Nat /\ lf[v] \in Nat /\ Duration(v) \in Nat
                        /\ inst.release[v] \in Nat /\ inst.deadline[v] \in Nat
                        /\ baseES[v] \in Nat /\ baseLF[v] \in Nat
      /\ inst.lag \subseteq Graph
  BY FrameFacts, TypeFacts, InstanceFacts DEF IInv, HeldInv, TypeOK, Graph
<1> SUFFICES ASSUME pc' \notin Starting
             PROVE  \A v \in Job : baseES'[v] <= es'[v] /\ lf'[v] <= baseLF'[v]
  BY DEF InsideBase
<1>1. CASE InitEnd
  <2>1. baseES' = es /\ baseLF' = lf /\ es' = es /\ lf' = lf
    BY <1>1 DEF InitEnd, windows
  <2> QED
    BY <1>0, <2>1
<1>2. ASSUME ~InitEnd
      PROVE  /\ pc \notin Starting /\ baseES' = baseES /\ baseLF' = baseLF
             /\ \A v \in Job : baseES[v] <= es[v] /\ lf[v] <= baseLF[v]
  BY <1>2, FrameFacts DEF HeldInv, InsideBase
<1>3. CASE PushES
  <2>1. PICK x : x = Last(esQueue)
    OBVIOUS
  <2>2. x \in Job /\ \A w \in Job : \/ es'[w] = es[w]
                                    \/ es[w] < es[x] + Duration(x) /\ es'[w] = es[x] + Duration(x)
    BY <1>0, <1>3, <2>1, PushESFacts
  <2>3. ~InitEnd /\ lf' = lf
    BY <1>3 DEF PushES, InitEnd
  <2>4. ASSUME NEW v \in Job PROVE baseES[v] <= es'[v]
    <3>1. baseES[v] <= es[v]
      BY <1>2, <2>3
    <3>2. \/ es'[v] = es[v]
          \/ es[v] < es[x] + Duration(x) /\ es'[v] = es[x] + Duration(x)
      BY <2>2, Zenon
    <3> QED
      BY <1>0, <2>2, <3>1, <3>2
  <2> QED
    BY <1>2, <2>3, <2>4
<1>4. CASE PushLF
  <2>1. PICK x : x = Last(lfQueue)
    OBVIOUS
  <2>2. x \in Job /\ \A u \in Job : \/ lf'[u] = lf[u]
                                    \/ lf[x] < lf[u] + Duration(x) /\ lf'[u] = lf[x] - Duration(x)
    BY <1>0, <1>4, <2>1, PushLFFacts
  <2>3. ~InitEnd /\ es' = es
    BY <1>0, <1>4 DEF PushLF, InitEnd
  <2>4. ASSUME NEW v \in Job PROVE lf'[v] <= baseLF[v]
    <3>1. lf[v] <= baseLF[v]
      BY <1>2, <2>3
    <3>2. \/ lf'[v] = lf[v]
          \/ lf[x] < lf[v] + Duration(x) /\ lf'[v] = lf[x] - Duration(x)
      BY <2>2, Zenon
    <3> QED
      BY <1>0, <2>2, <3>1, <3>2
  <2> QED
    BY <1>2, <2>3, <2>4
<1>5. CASE RebuildES
  <2>1. PICK x : x = Last(esQueue)
    OBVIOUS
  <2>2. /\ x \in Job /\ es'[x] \in Nat /\ inst.release[x] <= es'[x]
        /\ \A w \in Job : w # x => es'[w] = es[w]
        /\ es'[x] = es[x] \/ \A u \in Job : <<u, x>> \in Graph => es[u] + Duration(u) <= es'[x]
    BY <1>0, <1>5, <2>1, RebuildESFacts
  <2>3. ~InitEnd /\ lf' = lf
    BY <1>5 DEF RebuildES, InitEnd
  <2>4. baseES[x] <= es'[x]
    <3>1. CASE es'[x] = es[x]
      BY <1>2, <2>2, <2>3, <3>1
    <3>2. CASE baseES[x] <= inst.release[x]
      BY <1>0, <2>2, <3>2
    <3>3. ASSUME NEW u \in Job, <<u, x>> \in inst.lag, baseES[x] <= baseES[u] + Duration(u),
                 es'[x] # es[x]
          PROVE  baseES[x] <= es'[x]
      <4>1. es[u] + Duration(u) <= es'[x] /\ baseES[u] <= es[u]
        BY <1>0, <1>2, <2>2, <2>3, <3>3
      <4> QED
        BY <1>0, <2>2, <3>3, <4>1
    <3> QED
      BY <1>0, <1>2, <2>2, <2>3, <3>1, <3>2, <3>3 DEF BaseSupported
  <2> QED
    BY <1>2, <2>2, <2>3, <2>4
<1>6. CASE RebuildLF
  <2>1. PICK x : x = Last(lfQueue)
    OBVIOUS
  <2>2. /\ x \in Job /\ lf' \in [Job -> Nat] /\ lf'[x] <= inst.deadline[x]
        /\ \A u \in Job : u # x => lf'[u] = lf[u]
        /\ lf'[x] = lf[x] \/ \A w \in Job : <<x, w>> \in Graph => lf'[x] + Duration(w) <= lf[w]
    BY <1>0, <1>6, <2>1, RebuildLFFacts
  <2>3. ~InitEnd /\ es' = es
    BY <1>6 DEF RebuildLF, InitEnd
  <2>4. lf'[x] <= baseLF[x]
    <3>1. CASE lf'[x] = lf[x]
      BY <1>2, <2>2, <2>3, <3>1
    <3>2. CASE inst.deadline[x] <= baseLF[x]
      BY <1>0, <2>2, <3>2
    <3>3. ASSUME NEW w \in Job, <<x, w>> \in inst.lag, baseLF[w] <= baseLF[x] + Duration(w),
                 lf'[x] # lf[x]
          PROVE  lf'[x] <= baseLF[x]
      <4>1. lf'[x] + Duration(w) <= lf[w] /\ lf[w] <= baseLF[w]
        BY <1>0, <1>2, <2>2, <2>3, <3>3
      <4> QED
        BY <1>0, <2>2, <3>3, <4>1
    <3> QED
      BY <1>0, <1>2, <2>2, <2>3, <3>1, <3>2, <3>3 DEF BaseSupported
  <2> QED
    BY <1>2, <2>2, <2>3, <2>4
<1>7. CASE Reset
  BY <1>0, <1>2, <1>7 DEF Reset, InitEnd
<1>8. CASE Delete \/ Insert
  BY <1>2, <1>8 DEF Delete, Insert, InitEnd, windows
<1>9. CASE Quiet
  BY <1>1, <1>2, <1>9, QuietFacts
<1> QED
  BY <1>3, <1>4, <1>5, <1>6, <1>7, <1>8, <1>9, NextCases

LEMMA HeldInvInit ==
  ASSUME Init
  PROVE  HeldInv
<1>1. \A v \in Job : inst.release[v] \in Nat /\ inst.deadline[v] \in Nat
  BY InstanceFacts DEF Init
<1> QED
  BY <1>1 DEF Init, HeldInv, StartsSupported, FinishsSupported, BaseSupported, InsideBase, Starting

\* Windows are held in their places throughout.
LEMMA Held == Spec => []HeldInv
<1>1. Init => HeldInv
  BY HeldInvInit
<1>2. IInv /\ HeldInv /\ [Next]_vars => HeldInv'
  BY StartsSupportedStep, FinishsSupportedStep, BaseSupportedStep, InsideBaseStep DEF HeldInv
<1> QED
  BY <1>1, <1>2, Invariant, PTL DEF Spec


-----------------------------------------------------------------------------
(* A deletion makes room                                                   *)

\* The start of s is at most x, or will be once s is looked at.
StartBelow(s, x) ==
  \/ es[s] <= x
  \/ /\ pc = "RebuildES" /\ s \in Range(esQueue)
     /\ baseES[s] <= x
     /\ \A u \in Job : <<u, s>> \in Graph => es[u] + Duration(u) <= x

\* The finish of t is at least y, or will be once t is looked at.
FinishAbove(t, y) ==
  \/ y <= lf[t]
  \/ /\ t \in Range(lfQueue) /\ y <= baseLF[t]
     /\ \A w \in Job : <<t, w>> \in Graph => y + Duration(w) <= lf[w]

\* While the windows are rebuilt, room for the pair is there or on its way.
RoomComing ==
  pc \in {"RebuildES", "RebuildLF"} =>
    \A e \in candidates : \E x, y \in Int :
      /\ x + Duration(e[1]) + Duration(e[2]) <= y
      /\ StartBelow(e[1], x) /\ FinishAbove(e[2], y)

\* By its amount the start of s can fall when the inserted edges into s go.
LEMMA BackwardsFacts ==
  ASSUME IInv, HeldInv, pc = "Unstuck", NEW s \in Job
  PROVE  /\ BackwardsAmount(s) \in Int
         /\ \/ es[s] <= es[s] - BackwardsAmount(s)
            \/ /\ BackwardsEdges(s) # {}
               /\ \A e \in edges : e[2] = s => e \in BackwardsEdges(s)
               /\ baseES[s] <= es[s] - BackwardsAmount(s)
               /\ \A u \in Job : <<u, s>> \in inst.lag =>
                    es[u] + Duration(u) <= es[s] - BackwardsAmount(s)
<1> DEFINE Into   == {x \in inst.lag : x[2] = s}
           Bounds == {es[s] - baseES[s]} \cup {es[s] - (es[e[1]] + Duration(e[1])) : e \in Into}
<1>0. /\ TypeOK /\ Control /\ StartsTight /\ StartsSupported /\ BaseOK /\ InsideBase
      /\ inst.lag \subseteq Job \X Job /\ edges \subseteq Job \X Job
      /\ \A v \in Job : /\ es[v] \in Nat /\ Duration(v) \in Nat /\ baseES[v] \in Nat
                        /\ inst.release[v] \in Nat
  BY TypeFacts, InstanceFacts DEF IInv, HeldInv, TypeOK
<1>1. /\ esQueue = <<>> /\ esLate = <<>> /\ pc \notin Starting
      /\ inst.release[s] <= baseES[s] /\ baseES[s] <= es[s]
  BY <1>0 DEF Control, Starting, BaseOK, InsideBase
<1>2. \A e \in Graph : es[e[1]] + Duration(e[1]) <= es[e[2]]
  BY <1>0, <1>1, NothingIn DEF StartsTight
<1>3. CASE es[s] = baseES[s]
  <2>1. BackwardsAmount(s) = 0
    BY <1>3 DEF BackwardsAmount
  <2> QED
    BY <1>0, <2>1
<1>4. CASE es[s] # baseES[s]
  <2>1. BackwardsAmount(s) = Min(Bounds) /\ BackwardsEdges(s) = {e \in edges : e[2] = s}
    BY <1>4 DEF BackwardsAmount, BackwardsEdges
  <2>2. \A e \in Into : e[1] \in Job /\ e = <<e[1], s>> /\ es[e[1]] + Duration(e[1]) <= es[s]
    BY <1>0, <1>2 DEF Graph
  <2>3. \A b \in Bounds : b \in Int /\ 0 <= b
    BY <1>0, <1>1, <2>2
  <2>4. Min(Bounds) \in Bounds /\ \A b \in Bounds : Min(Bounds) <= b
    <3> HIDE DEF Bounds
    <3>1. Bounds # {}
      BY DEF Bounds
    <3> QED
      BY <2>3, <3>1, MinBounded
  <2>5. PICK a : a = Min(Bounds)
    OBVIOUS
  <2>6. a \in Int /\ a <= es[s] - baseES[s]
    BY <2>3, <2>4, <2>5
  <2>7. ASSUME NEW u \in Job, <<u, s>> \in inst.lag
        PROVE  a <= es[s] - (es[u] + Duration(u))
    <3>1. <<u, s>> \in Into /\ <<u, s>>[1] = u
      BY <2>7
    <3>2. es[s] - (es[u] + Duration(u)) \in Bounds
      BY <3>1
    <3> QED
      BY <2>4, <2>5, <3>2
  <2> HIDE DEF Bounds, Into
  <2>8. CASE BackwardsEdges(s) # {}
    <3>1. \A u \in Job : <<u, s>> \in inst.lag => es[u] + Duration(u) <= es[s] - a
      <4>1. TAKE u \in Job
      <4>2. HAVE <<u, s>> \in inst.lag
      <4> QED
        BY <1>0, <2>6, <2>7, <4>2
    <3>2. baseES[s] <= es[s] - a
      BY <1>0, <2>6
    <3> QED
      BY <2>1, <2>5, <2>6, <2>8, <3>1, <3>2
  <2>9. CASE BackwardsEdges(s) = {}
    <3>1. ~ (es[s] <= inst.release[s])
      BY <1>0, <1>1, <1>4
    <3>2. PICK u \in Job : <<u, s>> \in Graph /\ es[s] <= es[u] + Duration(u)
      BY <1>0, <1>1, <3>1 DEF StartsSupported
    <3>3. <<u, s>> \in inst.lag
      BY <2>1, <2>9, <3>2 DEF Graph
    <3>4. es[s] <= es[s] - a
      BY <1>0, <2>6, <2>7, <3>2, <3>3
    <3> QED
      BY <2>1, <2>5, <2>6, <3>4
  <2> QED
    BY <2>8, <2>9
<1> QED
  BY <1>3, <1>4

\* The same for the finish of t.
LEMMA ForwardsFacts ==
  ASSUME IInv, HeldInv, pc = "Unstuck", NEW t \in Job
  PROVE  /\ ForwardsAmount(t) \in Int
         /\ \/ lf[t] + ForwardsAmount(t) <= lf[t]
            \/ /\ ForwardsEdges(t) # {}
               /\ \A e \in edges : e[1] = t => e \in ForwardsEdges(t)
               /\ lf[t] + ForwardsAmount(t) <= baseLF[t]
               /\ \A w \in Job : <<t, w>> \in inst.lag =>
                    lf[t] + ForwardsAmount(t) + Duration(w) <= lf[w]
<1> DEFINE From   == {x \in inst.lag : x[1] = t}
           Bounds == {baseLF[t] - lf[t]} \cup {(lf[e[2]] - Duration(e[2])) - lf[t] : e \in From}
<1>0. /\ TypeOK /\ Control /\ FinishsTight /\ FinishsSupported /\ BaseOK /\ InsideBase
      /\ inst.lag \subseteq Job \X Job /\ edges \subseteq Job \X Job
      /\ \A v \in Job : /\ lf[v] \in Nat /\ Duration(v) \in Nat /\ baseLF[v] \in Nat
                        /\ inst.deadline[v] \in Nat
  BY TypeFacts, InstanceFacts DEF IInv, HeldInv, TypeOK
<1>1. /\ lfQueue = <<>> /\ lfLate = <<>> /\ pc \notin Starting
      /\ baseLF[t] <= inst.deadline[t] /\ lf[t] <= baseLF[t]
  BY <1>0 DEF Control, Starting, BaseOK, InsideBase
<1>2. \A e \in Graph : lf[e[1]] + Duration(e[2]) <= lf[e[2]]
  BY <1>0, <1>1, NothingIn DEF FinishsTight
<1>3. CASE lf[t] = baseLF[t]
  <2>1. ForwardsAmount(t) = 0
    BY <1>3 DEF ForwardsAmount
  <2> QED
    BY <1>0, <2>1
<1>4. CASE lf[t] # baseLF[t]
  <2>1. ForwardsAmount(t) = Min(Bounds) /\ ForwardsEdges(t) = {e \in edges : e[1] = t}
    BY <1>4 DEF ForwardsAmount, ForwardsEdges
  <2>2. \A e \in From : e[2] \in Job /\ e = <<t, e[2]>> /\ lf[t] + Duration(e[2]) <= lf[e[2]]
    BY <1>0, <1>2 DEF Graph
  <2>3. \A b \in Bounds : b \in Int /\ 0 <= b
    BY <1>0, <1>1, <2>2
  <2>4. Min(Bounds) \in Bounds /\ \A b \in Bounds : Min(Bounds) <= b
    <3> HIDE DEF Bounds
    <3>1. Bounds # {}
      BY DEF Bounds
    <3> QED
      BY <2>3, <3>1, MinBounded
  <2>5. PICK a : a = Min(Bounds)
    OBVIOUS
  <2>6. a \in Int /\ a <= baseLF[t] - lf[t]
    BY <2>3, <2>4, <2>5
  <2>7. ASSUME NEW w \in Job, <<t, w>> \in inst.lag
        PROVE  a <= (lf[w] - Duration(w)) - lf[t]
    <3>1. <<t, w>> \in From /\ <<t, w>>[2] = w
      BY <2>7
    <3>2. (lf[w] - Duration(w)) - lf[t] \in Bounds
      BY <3>1
    <3> QED
      BY <2>4, <2>5, <3>2
  <2> HIDE DEF Bounds, From
  <2>8. CASE ForwardsEdges(t) # {}
    <3>1. \A w \in Job : <<t, w>> \in inst.lag => lf[t] + a + Duration(w) <= lf[w]
      <4>1. TAKE w \in Job
      <4>2. HAVE <<t, w>> \in inst.lag
      <4> QED
        BY <1>0, <2>6, <2>7, <4>2
    <3>2. lf[t] + a <= baseLF[t]
      BY <1>0, <2>6
    <3> QED
      BY <2>1, <2>5, <2>6, <2>8, <3>1, <3>2
  <2>9. CASE ForwardsEdges(t) = {}
    <3>1. ~ (inst.deadline[t] <= lf[t])
      BY <1>0, <1>1, <1>4
    <3>2. PICK w \in Job : <<t, w>> \in Graph /\ lf[w] <= lf[t] + Duration(w)
      BY <1>0, <1>1, <3>1 DEF FinishsSupported
    <3>3. <<t, w>> \in inst.lag
      BY <2>1, <2>9, <3>2 DEF Graph
    <3>4. lf[t] + a <= lf[t]
      BY <1>0, <2>6, <2>7, <3>2, <3>3
    <3> QED
      BY <2>1, <2>5, <2>6, <3>4
  <2> QED
    BY <2>8, <2>9
<1> QED
  BY <1>3, <1>4


\* A trial that succeeds promises room.
LEMMA DeleteRoom ==
  ASSUME IInv, HeldInv, Delete
  PROVE  RoomComing'
<1>0. /\ TypeOK /\ Admits /\ pc = "Unstuck" /\ pc' = "RebuildES" /\ inst' = inst
      /\ es' = es /\ lf' = lf /\ baseES' = baseES /\ baseLF' = baseLF
      /\ \A v \in Job : /\ es[v] \in Nat /\ lf[v] \in Nat /\ Duration(v) \in Nat
                        /\ Duration(v)' = Duration(v)
  BY TypeFacts DEF IInv, Delete, windows, base, Duration
<1>1. PICK s, t \in Job :
        /\ TrialSucceeds(s, t) /\ s # t
        /\ candidates' = {<<s, t>>}
        /\ edges' = edges \ (ForwardsEdges(t) \cup BackwardsEdges(s))
        /\ \A e \in ForwardsEdges(t) \cup BackwardsEdges(s) :
             e[2] \in Range(esQueue') /\ e[1] \in Range(lfQueue')
  BY <1>0, DeleteHolds
<1>2. PICK b, f : b = BackwardsAmount(s) /\ f = ForwardsAmount(t)
  OBVIOUS
<1>3. /\ b \in Int
      /\ \/ es[s] <= es[s] - b
         \/ /\ BackwardsEdges(s) # {}
            /\ \A e \in edges : e[2] = s => e \in BackwardsEdges(s)
            /\ baseES[s] <= es[s] - b
            /\ \A u \in Job : <<u, s>> \in inst.lag => es[u] + Duration(u) <= es[s] - b
  BY <1>0, <1>2, BackwardsFacts
<1>4. /\ f \in Int
      /\ \/ lf[t] + f <= lf[t]
         \/ /\ ForwardsEdges(t) # {}
            /\ \A e \in edges : e[1] = t => e \in ForwardsEdges(t)
            /\ lf[t] + f <= baseLF[t]
            /\ \A w \in Job : <<t, w>> \in inst.lag => lf[t] + f + Duration(w) <= lf[w]
  BY <1>0, <1>2, ForwardsFacts
<1>5. es[s] - b + Duration(s) + Duration(t) <= lf[t] + f
  <2>1. f >= (es[s] + Duration(s) - es[t]) - b
    BY <1>1, <1>2 DEF TrialSucceeds
  <2>2. es[t] + Duration(t) <= lf[t]
    BY <1>0, WindowFacts
  <2> QED
    BY <1>0, <1>3, <1>4, <2>1, <2>2
<1>6. Graph' = inst.lag \cup edges' /\ edges' \subseteq edges
  BY <1>0, <1>1 DEF Graph
<1>7. StartBelow(s, es[s] - b)'
  <2>1. CASE es[s] <= es[s] - b
    BY <1>0, <2>1 DEF StartBelow
  <2>2. CASE /\ BackwardsEdges(s) # {}
             /\ \A e \in edges : e[2] = s => e \in BackwardsEdges(s)
             /\ baseES[s] <= es[s] - b
             /\ \A u \in Job : <<u, s>> \in inst.lag => es[u] + Duration(u) <= es[s] - b
    <3>1. s \in Range(esQueue')
      BY <1>1, <2>2 DEF BackwardsEdges
    <3>2. \A u \in Job : <<u, s>> \in Graph' => <<u, s>> \in inst.lag
      <4>1. TAKE u \in Job
      <4>2. HAVE <<u, s>> \in Graph'
      <4>3. <<u, s>> \in edges' => FALSE
        <5>1. <<u, s>>[2] = s
          OBVIOUS
        <5> QED
          BY <1>1, <1>6, <2>2, <5>1
      <4> QED
        BY <1>6, <4>2, <4>3
    <3> QED
      BY <1>0, <2>2, <3>1, <3>2 DEF StartBelow
  <2> QED
    BY <1>3, <2>1, <2>2
<1>8. FinishAbove(t, lf[t] + f)'
  <2>1. CASE lf[t] + f <= lf[t]
    BY <1>0, <2>1 DEF FinishAbove
  <2>2. CASE /\ ForwardsEdges(t) # {}
             /\ \A e \in edges : e[1] = t => e \in ForwardsEdges(t)
             /\ lf[t] + f <= baseLF[t]
             /\ \A w \in Job : <<t, w>> \in inst.lag => lf[t] + f + Duration(w) <= lf[w]
    <3>1. t \in Range(lfQueue')
      BY <1>1, <2>2 DEF ForwardsEdges
    <3>2. \A w \in Job : <<t, w>> \in Graph' => <<t, w>> \in inst.lag
      <4>1. TAKE w \in Job
      <4>2. HAVE <<t, w>> \in Graph'
      <4>3. <<t, w>> \in edges' => FALSE
        <5>1. <<t, w>>[1] = t
          OBVIOUS
        <5> QED
          BY <1>1, <1>6, <2>2, <5>1
      <4> QED
        BY <1>6, <4>2, <4>3
    <3> QED
      BY <1>0, <2>2, <3>1, <3>2 DEF FinishAbove
  <2> QED
    BY <1>4, <2>1, <2>2
<1>9. es[s] - b \in Int /\ lf[t] + f \in Int
  BY <1>0, <1>3, <1>4
<1> QED
  BY <1>0, <1>1, <1>5, <1>7, <1>8, <1>9 DEF RoomComing

\* The room stays until it is looked at.
LEMMA RoomStep ==
  ASSUME IInv, HeldInv, RoomComing, [Next]_vars
  PROVE  RoomComing'
<1>0. /\ TypeOK /\ Control /\ Admits /\ BaseOK /\ inst' = inst
      /\ \A v \in Job : /\ es[v] \in Nat /\ lf[v] \in Nat /\ Duration(v) \in Nat
                        /\ inst.release[v] \in Nat /\ inst.deadline[v] \in Nat
                        /\ baseES[v] \in Nat /\ baseLF[v] \in Nat
                        /\ Duration(v)' = Duration(v)
      /\ candidates \subseteq Job \X Job
  BY FrameFacts, TypeFacts, InstanceFacts DEF IInv, Duration, TypeOK
<1>1. CASE RebuildES
  <2>1. PICK q : q = Last(esQueue)
    OBVIOUS
  <2>2. /\ pc = "RebuildES" /\ pc' = pc /\ Graph' = Graph /\ candidates' = candidates
        /\ lf' = lf /\ lfQueue' = lfQueue /\ baseES' = baseES /\ baseLF' = baseLF
    BY <1>0, <1>1 DEF RebuildES, Graph, search, base
  <2>3. \A v \in Job : inst.release[v] <= baseES[v]
    BY <1>0, <2>2 DEF BaseOK, Starting
  <2>4. /\ q \in Job /\ es' \in [Job -> Nat]
        /\ \A w \in Job : w # q => es'[w] = es[w]
    BY <1>0, <1>1, <2>1, RebuildESFacts
  <2>5. /\ \A u \in Range(esQueue) : u = q \/ u \in Range(esQueue')
        /\ \/ /\ es'[q] = es[q]
              /\ \/ es[q] <= inst.release[q]
                 \/ \E u \in Job : <<u, q>> \in Graph /\ es[q] <= es[u] + Duration(u)
           \/ /\ es'[q] < es[q]
              /\ \/ es'[q] = inst.release[q]
                 \/ \E u \in Job : <<u, q>> \in Graph /\ es'[q] = es[u] + Duration(u)
    BY <1>0, <1>1, <2>1, RebuildESHolds
  <2>6. \A w \in Job : es'[w] <= es[w] /\ es'[w] \in Nat
    <3>1. TAKE w \in Job
    <3>2. es'[w] \in Nat /\ es[w] \in Nat
      BY <1>0, <2>4
    <3>3. es'[w] = es[w] \/ es'[w] < es[w]
      BY <2>4, <2>5
    <3> QED
      BY <3>2, <3>3
  <2>7. ASSUME NEW s \in Job, NEW x \in Int, StartBelow(s, x)
        PROVE  StartBelow(s, x)'
    <3>1. CASE es[s] <= x
      <4>1. es'[s] <= x
        BY <1>0, <2>6, <3>1
      <4> QED
        BY <4>1 DEF StartBelow
    <3>2. CASE /\ s \in Range(esQueue) /\ baseES[s] <= x
               /\ \A u \in Job : <<u, s>> \in Graph => es[u] + Duration(u) <= x
      <4>1. CASE s = q
        <5>1. inst.release[s] <= x
          BY <1>0, <2>3, <3>2
        <5>2. es'[s] <= x
          <6>1. CASE es'[s] <= inst.release[s]
            BY <1>0, <2>6, <5>1, <6>1
          <6>2. ASSUME NEW u \in Job, <<u, s>> \in Graph, es'[s] <= es[u] + Duration(u)
                PROVE  es'[s] <= x
            <7>1. es[u] + Duration(u) <= x
              BY <3>2, <6>2
            <7> QED
              BY <1>0, <2>6, <6>2, <7>1
          <6>3. \/ es'[s] <= inst.release[s]
                \/ \E u \in Job : <<u, s>> \in Graph /\ es'[s] <= es[u] + Duration(u)
            <7>1. \A u \in Job : es[u] + Duration(u) \in Nat
              BY <1>0
            <7>2. es'[s] \in Nat
              BY <2>6
            <7>3. \A z \in Nat : es'[s] = z => es'[s] <= z
              BY <7>2
            <7> QED
              BY <1>0, <2>5, <4>1, <7>1, <7>3
          <6> QED
            BY <6>1, <6>2, <6>3
        <5> QED
          BY <5>2 DEF StartBelow
      <4>2. CASE s # q
        <5>1. s \in Range(esQueue')
          BY <2>5, <3>2, <4>2
        <5>2. \A u \in Job : <<u, s>> \in Graph' => es'[u] + Duration(u)' <= x
          <6>1. TAKE u \in Job
          <6>2. HAVE <<u, s>> \in Graph'
          <6>3. es[u] + Duration(u) <= x
            BY <2>2, <3>2, <6>2
          <6> QED
            BY <1>0, <2>6, <6>3
        <5> QED
          BY <2>2, <3>2, <5>1, <5>2 DEF StartBelow
      <4> QED
        BY <4>1, <4>2
    <3> QED
      BY <2>7, <3>1, <3>2 DEF StartBelow
  <2>8. ASSUME NEW t \in Job, NEW y \in Int, FinishAbove(t, y)
        PROVE  FinishAbove(t, y)'
    BY <1>0, <2>2, <2>8 DEF FinishAbove
  <2>9. \A e \in candidates : e[1] \in Job /\ e[2] \in Job
    BY <1>0
  <2> QED
    BY <1>0, <2>2, <2>7, <2>8, <2>9 DEF RoomComing
<1>2. CASE DeleteTurn
  <2>1. /\ pc = "RebuildES" /\ esQueue = <<>> /\ Graph' = Graph /\ candidates' = candidates
        /\ es' = es /\ lf' = lf /\ lfQueue' = lfQueue /\ baseLF' = baseLF
    BY <1>0, <1>2 DEF DeleteTurn, Graph, search, base, windows, queues
  <2>2. \A s \in Job : \A x \in Int : StartBelow(s, x) => StartBelow(s, x)'
    BY <2>1, NothingIn DEF StartBelow
  <2>3. \A t \in Job : \A y \in Int : FinishAbove(t, y) => FinishAbove(t, y)'
    BY <1>0, <2>1 DEF FinishAbove
  <2>4. \A e \in candidates : e[1] \in Job /\ e[2] \in Job
    BY <1>0
  <2> QED
    BY <1>0, <2>1, <2>2, <2>3, <2>4 DEF RoomComing
<1>3. CASE RebuildLF
  <2>1. PICK q : q = Last(lfQueue)
    OBVIOUS
  <2>2. /\ pc = "RebuildLF" /\ pc' = pc /\ Graph' = Graph /\ candidates' = candidates
        /\ es' = es /\ esQueue' = esQueue /\ baseES' = baseES /\ baseLF' = baseLF
    BY <1>0, <1>3 DEF RebuildLF, Graph, search, base
  <2>3. \A v \in Job : baseLF[v] <= inst.deadline[v]
    BY <1>0, <2>2 DEF BaseOK, Starting
  <2>4. /\ q \in Job /\ lf' \in [Job -> Nat]
        /\ \A u \in Job : u # q => lf'[u] = lf[u]
    BY <1>0, <1>3, <2>1, RebuildLFFacts
  <2>5. /\ \A u \in Range(lfQueue) : u = q \/ u \in Range(lfQueue')
        /\ \/ /\ lf'[q] = lf[q]
              /\ \/ inst.deadline[q] <= lf[q]
                 \/ \E w \in Job : <<q, w>> \in Graph /\ lf[w] <= lf[q] + Duration(w)
           \/ /\ lf'[q] > lf[q]
              /\ \/ lf'[q] = inst.deadline[q]
                 \/ \E w \in Job : <<q, w>> \in Graph /\ lf'[q] + Duration(w) = lf[w]
    BY <1>0, <1>3, <2>1, RebuildLFHolds
  <2>6. \A w \in Job : lf[w] <= lf'[w] /\ lf'[w] \in Nat
    <3>1. TAKE w \in Job
    <3>2. lf'[w] \in Nat /\ lf[w] \in Nat
      BY <1>0, <2>4
    <3>3. lf'[w] = lf[w] \/ lf'[w] > lf[w]
      BY <2>4, <2>5
    <3> QED
      BY <3>2, <3>3
  <2>7. ASSUME NEW t \in Job, NEW y \in Int, FinishAbove(t, y)
        PROVE  FinishAbove(t, y)'
    <3>1. CASE y <= lf[t]
      <4>1. y <= lf'[t]
        BY <1>0, <2>6, <3>1
      <4> QED
        BY <4>1 DEF FinishAbove
    <3>2. CASE /\ t \in Range(lfQueue) /\ y <= baseLF[t]
               /\ \A w \in Job : <<t, w>> \in Graph => y + Duration(w) <= lf[w]
      <4>1. CASE t = q
        <5>1. y <= inst.deadline[t]
          BY <1>0, <2>3, <3>2
        <5>2. y <= lf'[t]
          <6>1. CASE inst.deadline[t] <= lf'[t]
            BY <1>0, <2>6, <5>1, <6>1
          <6>2. ASSUME NEW w \in Job, <<t, w>> \in Graph, lf[w] <= lf'[t] + Duration(w)
                PROVE  y <= lf'[t]
            <7>1. y + Duration(w) <= lf[w]
              BY <3>2, <6>2
            <7> QED
              BY <1>0, <2>6, <6>2, <7>1
          <6>3. \/ inst.deadline[t] <= lf'[t]
                \/ \E w \in Job : <<t, w>> \in Graph /\ lf[w] <= lf'[t] + Duration(w)
            <7>1. \A w \in Job : lf'[t] + Duration(w) \in Nat
              BY <1>0, <2>6
            <7>2. lf'[t] \in Nat
              BY <2>6
            <7>3. \A z \in Nat : z <= z
              OBVIOUS
            <7> QED
              BY <1>0, <2>5, <4>1, <7>1, <7>2, <7>3
          <6> QED
            BY <6>1, <6>2, <6>3
        <5> QED
          BY <5>2 DEF FinishAbove
      <4>2. CASE t # q
        <5>1. t \in Range(lfQueue')
          BY <2>5, <3>2, <4>2
        <5>2. \A w \in Job : <<t, w>> \in Graph' => y + Duration(w)' <= lf'[w]
          <6>1. TAKE w \in Job
          <6>2. HAVE <<t, w>> \in Graph'
          <6>3. y + Duration(w) <= lf[w]
            BY <2>2, <3>2, <6>2
          <6> QED
            BY <1>0, <2>6, <6>3
        <5> QED
          BY <2>2, <3>2, <5>1, <5>2 DEF FinishAbove
      <4> QED
        BY <4>1, <4>2
    <3> QED
      BY <2>7, <3>1, <3>2 DEF FinishAbove
  <2>8. ASSUME NEW s \in Job, NEW x \in Int, StartBelow(s, x)
        PROVE  StartBelow(s, x)'
    BY <1>0, <2>2, <2>8 DEF StartBelow
  <2>9. \A e \in candidates : e[1] \in Job /\ e[2] \in Job
    BY <1>0
  <2> QED
    BY <1>0, <2>2, <2>7, <2>8, <2>9 DEF RoomComing
<1>4. CASE Delete
  BY <1>4, DeleteRoom
<1>5. CASE UNCHANGED vars
  <2>1. /\ pc' = pc /\ es' = es /\ lf' = lf /\ esQueue' = esQueue /\ lfQueue' = lfQueue
        /\ candidates' = candidates /\ edges' = edges /\ baseES' = baseES /\ baseLF' = baseLF
    BY <1>5 DEF vars
  <2>2. Graph' = Graph
    BY <1>0, <2>1 DEF Graph
  <2>3. \A s \in Job : \A x \in Int : StartBelow(s, x) => StartBelow(s, x)'
    BY <1>0, <2>1, <2>2 DEF StartBelow
  <2>4. \A t \in Job : \A y \in Int : FinishAbove(t, y) => FinishAbove(t, y)'
    BY <1>0, <2>1, <2>2 DEF FinishAbove
  <2>5. \A e \in candidates : e[1] \in Job /\ e[2] \in Job
    BY <1>0
  <2> QED
    BY <1>0, <2>1, <2>3, <2>4, <2>5 DEF RoomComing
<1>6. CASE pc' \notin {"RebuildES", "RebuildLF"}
  BY <1>6 DEF RoomComing
<1>7. \/ RebuildES \/ DeleteTurn \/ RebuildLF \/ Delete \/ UNCHANGED vars
      \/ pc' \notin {"RebuildES", "RebuildLF"}
  <2>1. CASE PushES \/ PushLF \/ Reset \/ Insert
    BY <2>1 DEF PushES, PushLF, Reset, StartPropagation, Insert
  <2>2. CASE Quiet
    BY <2>2 DEF Quiet, InitTurn, InitEnd, PropagationTurn, RangeChanged, RangeChangedEnd,
       RangeKept, StuckEnd, OtherPeak, Record, DeleteEnd, ResetEnd, Discard, StartPropagation,
       InsertTurn, InsertEnd, NothingInserted, TimeIsUp, EndIteration
  <2> QED
    BY <2>1, <2>2, NextCases
<1> QED
  BY <1>1, <1>2, <1>3, <1>4, <1>5, <1>6, <1>7

\* When a deletion's windows are rebuilt, the pair for which it was made fits.
THEOREM DeletionsMakeRoom == Spec => []DeletionMakesRoom
<1>1. Init => RoomComing
  BY DEF Init, RoomComing
<1>2. IInv /\ HeldInv /\ RoomComing /\ [Next]_vars => RoomComing'
  BY RoomStep
<1>3. ASSUME IInv, RoomComing PROVE DeletionMakesRoom
  <2>1. SUFFICES ASSUME pc = "RebuildLF", lfQueue = <<>>, NEW e \in candidates
                 PROVE  Fits(e[1], e[2])
    BY DEF DeletionMakesRoom
  <2>2. e[1] \in Job /\ e[2] \in Job
    BY <1>3 DEF IInv, TypeOK
  <2>3. PICK x, y \in Int : /\ x + Duration(e[1]) + Duration(e[2]) <= y
                            /\ StartBelow(e[1], x) /\ FinishAbove(e[2], y)
    BY <1>3, <2>1 DEF RoomComing
  <2>4. es[e[1]] <= x /\ y <= lf[e[2]]
    BY <2>1, <2>3, NothingIn DEF StartBelow, FinishAbove
  <2>5. /\ es[e[1]] \in Nat /\ lf[e[2]] \in Nat
        /\ Duration(e[1]) \in Nat /\ Duration(e[2]) \in Nat
    BY <1>3, <2>2, TypeFacts DEF IInv
  <2>6. es[e[1]] + Duration(e[1]) + Duration(e[2]) <= lf[e[2]]
    BY <2>3, <2>4, <2>5
  <2> QED
    BY <2>6 DEF Fits
<1> QED
  BY <1>1, <1>2, <1>3, Invariant, Held, PTL DEF Spec


-----------------------------------------------------------------------------
(* The values of complete propagation                                      *)

Durations == [v \in Job |-> Duration(v)]

\* The graph seen from the ends, and times that run backwards.
Turned == {e \in Job \X Job : <<e[2], e[1]>> \in Graph}

LEMMA DurationFacts ==
  ASSUME TypeOK
  PROVE  Durations \in [Job -> Nat] /\ \A v \in Job : Durations[v] = Duration(v)
BY TypeFacts DEF Durations

\* One round of the propagation: the greatest of the values that push a job on.
IsPushed(top, x, d, v, U) ==
  /\ top = Max({x[v]} \cup {x[u] + d[u] : u \in U})
  /\ x[v] <= top
  /\ \A u \in U : x[u] + d[u] <= top
  /\ top = x[v] \/ \E u \in U : top = x[u] + d[u]

LEMMA Pushed ==
  ASSUME NEW x \in [Job -> Int], NEW d \in [Job -> Nat], NEW v \in Job,
         NEW U, U \subseteq Job
  PROVE  \E top \in Int : IsPushed(top, x, d, v, U)
<1> DEFINE values == {x[v]} \cup {x[u] + d[u] : u \in U}
           ends   == [u \in Job |-> x[u] + d[u]]
<1>1. ends \in [Job -> Int] /\ \A u \in Job : ends[u] = x[u] + d[u]
  OBVIOUS
<1> HIDE DEF ends
<1>2. PICK high \in Int : \A u \in Job : ends[u] <= high
  BY <1>1, JobsBounded
<1>3. \A y \in values : y \in Int /\ y <= high
  <2>1. \A u \in Job : x[u] + d[u] \in Int /\ x[u] + d[u] <= high
    BY <1>1, <1>2
  <2>2. x[v] \in Int /\ x[v] <= high
    BY <2>1
  <2> QED
    BY <2>1, <2>2
<1>4. values # {}
  OBVIOUS
<1>5. Max(values) \in values /\ \A y \in values : Max(values) >= y
  <2> HIDE DEF values
  <2> QED
    BY <1>3, <1>4, MaxBounded
<1>6. \A u \in U : x[u] + d[u] \in values
  OBVIOUS
<1>7. x[v] \in values
  OBVIOUS
<1>8. Max(values) = x[v] \/ \E u \in U : Max(values) = x[u] + d[u]
  BY <1>5
<1>9. \A y \in values : y <= Max(values)
  BY <1>3, <1>5
<1>10. Max(values) \in Int
  BY <1>3, <1>5
<1> QED
  BY <1>6, <1>7, <1>8, <1>9, <1>10 DEF IsPushed

\* ExactES is what as many rounds as there are jobs make of the base.
LEMMA StartRounds ==
  ASSUME TypeOK
  PROVE  \E f : /\ Rounds(f, Durations, Graph) /\ f[0] = baseES
                /\ ExactES = f[JobCount]
<1> DEFINE Push(x) == [v \in Job |-> Max({x[v]} \cup {x[u] + Duration(u) : u \in Pred(v)})]
           f == CHOOSE f : f = [n \in 0 .. JobCount |->
                  IF n = 0 THEN baseES
                  ELSE [v \in Job |-> Max({f[n - 1][v]} \cup
                               {f[n - 1][u] + Duration(u) : u \in Pred(v)})]]
           step == [x \in [Job -> Int] |-> Push(x)]
<1>0. /\ Durations \in [Job -> Nat] /\ \A v \in Job : Durations[v] = Duration(v)
      /\ baseES \in [Job -> Int] /\ JobCount \in Nat
      /\ \A n \in 0 .. JobCount : n # 0 => n - 1 \in 0 .. JobCount
      /\ \A u, v \in Job : u \in Pred(v) <=> <<u, v>> \in Graph
      /\ \A v \in Job : Pred(v) \subseteq Job
  <2>1. baseES \in [Job -> Int]
    BY DEF TypeOK
  <2>2. JobCount \in Nat /\ \A n \in 0 .. JobCount : n # 0 => n - 1 \in 0 .. JobCount
    BY JobCountAssumption
  <2> QED
    BY <2>1, <2>2, DurationFacts DEF Pred
<1> HIDE DEF f, step
<1>1. ASSUME NEW x \in [Job -> Int], NEW v \in Job
      PROVE  /\ Push(x)[v] \in Int /\ x[v] <= Push(x)[v]
             /\ \A u \in Pred(v) : x[u] + Duration(u) <= Push(x)[v]
             /\ Push(x)[v] = x[v] \/ \E u \in Pred(v) : Push(x)[v] = x[u] + Duration(u)
  <2>1. {x[u] + Duration(u) : u \in Pred(v)} = {x[u] + Durations[u] : u \in Pred(v)}
    BY <1>0
  <2>2. Push(x)[v] = Max({x[v]} \cup {x[u] + Durations[u] : u \in Pred(v)})
    BY <2>1
  <2>3. PICK U : U = Pred(v)
    OBVIOUS
  <2>4. U \subseteq Job
    BY <1>0, <2>3
  <2>5. PICK top \in Int : IsPushed(top, x, Durations, v, U)
    BY <1>0, <2>4, Pushed
  <2>6. Push(x)[v] = top
    BY <2>2, <2>3, <2>5 DEF IsPushed
  <2>7. \A u \in U : Durations[u] = Duration(u)
    BY <1>0, <2>4
  <2> HIDE DEF Push
  <2> QED
    BY <2>3, <2>5, <2>6, <2>7 DEF IsPushed
<1>2. step \in [[Job -> Int] -> [Job -> Int]]
  <2>1. ASSUME NEW x \in [Job -> Int] PROVE Push(x) \in [Job -> Int]
    BY <1>1
  <2> HIDE DEF Push
  <2> QED
    BY <2>1 DEF step
<1>3. PICK g \in [0 .. JobCount -> [Job -> Int]] :
        g = [n \in 0 .. JobCount |-> IF n = 0 THEN baseES ELSE step[g[n - 1]]]
  <2>1. PICK S : S = [Job -> Int]
    OBVIOUS
  <2>2. baseES \in S /\ step \in [S -> S] /\ JobCount \in Nat
    BY <1>0, <1>2, <2>1
  <2>3. \E g \in [0 .. JobCount -> S] : Repeats(g, baseES, step, JobCount)
    BY <2>2, Iterates
  <2> QED
    BY <2>1, <2>3 DEF Repeats
<1>4. g = [n \in 0 .. JobCount |-> IF n = 0 THEN baseES ELSE Push(g[n - 1])]
  <2>1. ASSUME NEW n \in 0 .. JobCount, n # 0 PROVE step[g[n - 1]] = Push(g[n - 1])
    <3>1. g[n - 1] \in [Job -> Int]
      BY <1>0, <2>1
    <3> HIDE DEF Push
    <3> QED
      BY <3>1 DEF step
  <2> HIDE DEF Push
  <2> QED
    BY <1>3, <2>1
<1>5. f = [n \in 0 .. JobCount |-> IF n = 0 THEN baseES ELSE Push(f[n - 1])]
  BY <1>4 DEF f
<1>6. ExactES = f[JobCount]
  BY DEF ExactES, f
<1>7. f[0] = baseES
  BY <1>0, <1>5
<1>8. \A n \in 1 .. JobCount : f[n] = Push(f[n - 1])
  <2> HIDE DEF Push
  <2> QED
    BY <1>0, <1>5
<1>9. f \in [0 .. JobCount -> [Job -> Int]]
  <2> DEFINE H == {n \in 0 .. JobCount : f[n] \in [Job -> Int]}
  <2>1. 0 \in H
    BY <1>0, <1>7
  <2>2. ASSUME NEW n \in 1 .. JobCount, n - 1 \in H PROVE n \in H
    <3>1. f[n - 1] \in [Job -> Int]
      BY <2>2
    <3>2. Push(f[n - 1]) \in [Job -> Int]
      BY <1>1, <3>1
    <3> HIDE DEF Push
    <3> QED
      BY <1>8, <3>2
  <2>3. \A n \in 0 .. JobCount : n \in H
    <3> HIDE DEF H
    <3> QED
      BY <1>0, <2>1, <2>2, Induction
  <2>4. DOMAIN f = 0 .. JobCount /\ f = [n \in DOMAIN f |-> f[n]]
    <3> HIDE DEF Push
    <3> QED
      BY <1>5
  <2> QED
    BY <2>3, <2>4
<1>10. ASSUME NEW n \in 1 .. JobCount, NEW v \in Job
       PROVE  /\ f[n - 1][v] <= f[n][v]
              /\ \A u \in Job : <<u, v>> \in Graph => f[n - 1][u] + Durations[u] <= f[n][v]
              /\ \/ f[n][v] = f[n - 1][v]
                 \/ \E u \in Job : <<u, v>> \in Graph /\ f[n][v] = f[n - 1][u] + Durations[u]
  <2>1. PICK x : x = f[n - 1]
    OBVIOUS
  <2> HIDE DEF Push
  <2>2. x \in [Job -> Int] /\ f[n] = Push(x)
    <3>1. n - 1 \in 0 .. JobCount
      BY <1>0
    <3> QED
      BY <1>8, <1>9, <2>1, <3>1
  <2>3. /\ x[v] <= f[n][v]
        /\ \A u \in Pred(v) : x[u] + Duration(u) <= f[n][v]
        /\ f[n][v] = x[v] \/ \E u \in Pred(v) : f[n][v] = x[u] + Duration(u)
    BY <1>1, <2>2
  <2> QED
    BY <1>0, <2>1, <2>3
<1>11. Rounds(f, Durations, Graph)
  BY <1>9, <1>10 DEF Rounds
<1> QED
  BY <1>6, <1>7, <1>11


\* The same for times that run backwards.
IsPulled(low, x, d, v, U) ==
  /\ low = Min({x[v]} \cup {x[u] - d[u] : u \in U})
  /\ low <= x[v]
  /\ \A u \in U : low <= x[u] - d[u]
  /\ low = x[v] \/ \E u \in U : low = x[u] - d[u]

LEMMA Pulled ==
  ASSUME NEW x \in [Job -> Int], NEW d \in [Job -> Nat], NEW v \in Job,
         NEW U, U \subseteq Job
  PROVE  \E low \in Int : IsPulled(low, x, d, v, U)
<1> DEFINE values  == {x[v]} \cup {x[u] - d[u] : u \in U}
           heights == [u \in Job |-> 0 - (x[u] - d[u])]
<1>1. heights \in [Job -> Int] /\ \A u \in Job : heights[u] = 0 - (x[u] - d[u])
  OBVIOUS
<1> HIDE DEF heights
<1>2. PICK high \in Int : \A u \in Job : heights[u] <= high
  BY <1>1, JobsBounded
<1>3. \A y \in values : y \in Int /\ 0 - high <= y
  <2>1. \A u \in Job : x[u] - d[u] \in Int /\ 0 - high <= x[u] - d[u]
    BY <1>1, <1>2
  <2>2. x[v] \in Int /\ 0 - high <= x[v]
    BY <2>1
  <2> QED
    BY <2>1, <2>2
<1>4. values # {} /\ 0 - high \in Int
  OBVIOUS
<1>5. Min(values) \in values /\ \A y \in values : Min(values) <= y
  <2> HIDE DEF values
  <2> QED
    BY <1>3, <1>4, MinBounded
<1>6. \A u \in U : x[u] - d[u] \in values
  OBVIOUS
<1>7. x[v] \in values
  OBVIOUS
<1>8. Min(values) = x[v] \/ \E u \in U : Min(values) = x[u] - d[u]
  BY <1>5
<1>9. Min(values) \in Int
  BY <1>3, <1>5
<1> QED
  BY <1>5, <1>6, <1>7, <1>8, <1>9 DEF IsPulled

\* ExactLF is the same for times that run backwards.
LEMMA FinishRounds ==
  ASSUME TypeOK
  PROVE  \E f : /\ Rounds(f, Durations, Turned)
                /\ f[0] = [v \in Job |-> 0 - baseLF[v]]
                /\ f[JobCount] = [v \in Job |-> 0 - ExactLF[v]]
                /\ ExactLF \in [Job -> Int]
<1> DEFINE Pull(x) == [v \in Job |-> Min({x[v]} \cup {x[u] - Duration(u) : u \in Succ(v)})]
           f == CHOOSE f : f = [n \in 0 .. JobCount |->
                  IF n = 0 THEN baseLF
                  ELSE [v \in Job |-> Min({f[n - 1][v]} \cup
                               {f[n - 1][u] - Duration(u) : u \in Succ(v)})]]
           step == [x \in [Job -> Int] |-> Pull(x)]
<1>0. /\ Durations \in [Job -> Nat] /\ \A v \in Job : Durations[v] = Duration(v)
      /\ baseLF \in [Job -> Int] /\ JobCount \in Nat
      /\ \A n \in 0 .. JobCount : n # 0 => n - 1 \in 0 .. JobCount
      /\ \A u, v \in Job : u \in Succ(v) <=> <<v, u>> \in Graph
      /\ \A v \in Job : Succ(v) \subseteq Job
  <2>1. baseLF \in [Job -> Int]
    BY DEF TypeOK
  <2>2. JobCount \in Nat /\ \A n \in 0 .. JobCount : n # 0 => n - 1 \in 0 .. JobCount
    BY JobCountAssumption
  <2> QED
    BY <2>1, <2>2, DurationFacts DEF Succ
<1> HIDE DEF f, step
<1>1. ASSUME NEW x \in [Job -> Int], NEW v \in Job
      PROVE  /\ Pull(x)[v] \in Int /\ Pull(x)[v] <= x[v]
             /\ \A u \in Succ(v) : Pull(x)[v] <= x[u] - Duration(u)
             /\ Pull(x)[v] = x[v] \/ \E u \in Succ(v) : Pull(x)[v] = x[u] - Duration(u)
  <2>1. {x[u] - Duration(u) : u \in Succ(v)} = {x[u] - Durations[u] : u \in Succ(v)}
    BY <1>0
  <2>2. Pull(x)[v] = Min({x[v]} \cup {x[u] - Durations[u] : u \in Succ(v)})
    BY <2>1
  <2>3. PICK U : U = Succ(v)
    OBVIOUS
  <2>4. U \subseteq Job
    BY <1>0, <2>3
  <2>5. PICK low \in Int : IsPulled(low, x, Durations, v, U)
    BY <1>0, <2>4, Pulled
  <2>6. Pull(x)[v] = low
    BY <2>2, <2>3, <2>5 DEF IsPulled
  <2>7. \A u \in U : Durations[u] = Duration(u)
    BY <1>0, <2>4
  <2> HIDE DEF Pull
  <2> QED
    BY <2>3, <2>5, <2>6, <2>7 DEF IsPulled
<1>2. step \in [[Job -> Int] -> [Job -> Int]]
  <2>1. ASSUME NEW x \in [Job -> Int] PROVE Pull(x) \in [Job -> Int]
    BY <1>1
  <2> HIDE DEF Pull
  <2> QED
    BY <2>1 DEF step
<1>3. PICK h \in [0 .. JobCount -> [Job -> Int]] :
        h = [n \in 0 .. JobCount |-> IF n = 0 THEN baseLF ELSE step[h[n - 1]]]
  <2>1. PICK S : S = [Job -> Int]
    OBVIOUS
  <2>2. baseLF \in S /\ step \in [S -> S] /\ JobCount \in Nat
    BY <1>0, <1>2, <2>1
  <2>3. \E g \in [0 .. JobCount -> S] : Repeats(g, baseLF, step, JobCount)
    BY <2>2, Iterates
  <2> QED
    BY <2>1, <2>3 DEF Repeats
<1>4. h = [n \in 0 .. JobCount |-> IF n = 0 THEN baseLF ELSE Pull(h[n - 1])]
  <2>1. ASSUME NEW n \in 0 .. JobCount, n # 0 PROVE step[h[n - 1]] = Pull(h[n - 1])
    <3>1. h[n - 1] \in [Job -> Int]
      BY <1>0, <2>1
    <3> HIDE DEF Pull
    <3> QED
      BY <3>1 DEF step
  <2> HIDE DEF Pull
  <2> QED
    BY <1>3, <2>1
<1>5. f = [n \in 0 .. JobCount |-> IF n = 0 THEN baseLF ELSE Pull(f[n - 1])]
  BY <1>4 DEF f
<1>6. ExactLF = f[JobCount]
  BY DEF ExactLF, f
<1>7. f[0] = baseLF
  BY <1>0, <1>5
<1>8. \A n \in 1 .. JobCount : f[n] = Pull(f[n - 1])
  <2> HIDE DEF Pull
  <2> QED
    BY <1>0, <1>5
<1>9. f \in [0 .. JobCount -> [Job -> Int]]
  <2> DEFINE H == {n \in 0 .. JobCount : f[n] \in [Job -> Int]}
  <2>1. 0 \in H
    BY <1>0, <1>7
  <2>2. ASSUME NEW n \in 1 .. JobCount, n - 1 \in H PROVE n \in H
    <3>1. f[n - 1] \in [Job -> Int]
      BY <2>2
    <3>2. Pull(f[n - 1]) \in [Job -> Int]
      BY <1>1, <3>1
    <3> HIDE DEF Pull
    <3> QED
      BY <1>8, <3>2
  <2>3. \A n \in 0 .. JobCount : n \in H
    <3> HIDE DEF H
    <3> QED
      BY <1>0, <2>1, <2>2, Induction
  <2>4. DOMAIN f = 0 .. JobCount /\ f = [n \in DOMAIN f |-> f[n]]
    <3> HIDE DEF Pull
    <3> QED
      BY <1>5
  <2> QED
    BY <2>3, <2>4
<1> DEFINE g == [n \in 0 .. JobCount |-> [v \in Job |-> 0 - f[n][v]]]
<1>10. /\ g \in [0 .. JobCount -> [Job -> Int]]
       /\ \A n \in 0 .. JobCount : \A v \in Job : g[n][v] = 0 - f[n][v] /\ f[n][v] \in Int
  BY <1>9
<1>11. ASSUME NEW n \in 1 .. JobCount, NEW v \in Job
       PROVE  /\ g[n - 1][v] <= g[n][v]
              /\ \A u \in Job : <<u, v>> \in Turned => g[n - 1][u] + Durations[u] <= g[n][v]
              /\ \/ g[n][v] = g[n - 1][v]
                 \/ \E u \in Job : <<u, v>> \in Turned /\ g[n][v] = g[n - 1][u] + Durations[u]
  <2>0. n \in 0 .. JobCount /\ n - 1 \in 0 .. JobCount
    BY <1>0
  <2>1. PICK x : x = f[n - 1]
    OBVIOUS
  <2> HIDE DEF Pull, g
  <2>2. x \in [Job -> Int] /\ f[n] = Pull(x)
    BY <1>8, <1>9, <2>0, <2>1
  <2>3. /\ f[n][v] <= x[v] /\ f[n][v] \in Int
        /\ \A u \in Succ(v) : f[n][v] <= x[u] - Duration(u)
        /\ f[n][v] = x[v] \/ \E u \in Succ(v) : f[n][v] = x[u] - Duration(u)
    BY <1>1, <2>2
  <2>4. /\ g[n][v] = 0 - f[n][v] /\ g[n - 1][v] = 0 - x[v] /\ x[v] \in Int
        /\ \A u \in Job : /\ g[n - 1][u] = 0 - x[u] /\ x[u] \in Int
                          /\ Durations[u] = Duration(u) /\ Durations[u] \in Int
    BY <1>0, <1>10, <2>0, <2>1
  <2>5. \A u \in Job : <<u, v>> \in Turned <=> u \in Succ(v)
    BY <1>0 DEF Turned
  <2>6. g[n - 1][v] <= g[n][v]
    BY <2>3, <2>4
  <2>7. ASSUME NEW u \in Job, <<u, v>> \in Turned
        PROVE  g[n - 1][u] + Durations[u] <= g[n][v]
    <3>1. f[n][v] <= x[u] - Duration(u)
      BY <2>3, <2>5, <2>7
    <3> QED
      BY <2>3, <2>4, <3>1
  <2>8. CASE f[n][v] = x[v]
    BY <2>4, <2>6, <2>7, <2>8
  <2>9. ASSUME NEW u \in Succ(v), f[n][v] = x[u] - Duration(u)
        PROVE  \E w \in Job : <<w, v>> \in Turned /\ g[n][v] = g[n - 1][w] + Durations[w]
    <3>1. u \in Job
      BY <1>0
    <3>2. g[n][v] = g[n - 1][u] + Durations[u]
      BY <2>3, <2>4, <2>9, <3>1
    <3> QED
      BY <2>5, <2>9, <3>1, <3>2
  <2> QED
    BY <2>3, <2>6, <2>7, <2>8, <2>9
<1>12. Rounds(g, Durations, Turned)
  <2> HIDE DEF g
  <2> QED
    BY <1>10, <1>11 DEF Rounds
<1>13. /\ g[0] = [v \in Job |-> 0 - baseLF[v]]
       /\ g[JobCount] = [v \in Job |-> 0 - ExactLF[v]]
       /\ ExactLF \in [Job -> Int]
  BY <1>0, <1>6, <1>7, <1>9
<1> QED
  BY <1>12, <1>13


\* A schedule within the windows solves the graph, forwards and backwards.
LEMMA WithinSolves ==
  ASSUME TypeOK, InsideBase, pc \notin Starting, NEW T, Within(T)
  PROVE  /\ Solves(T, baseES, Durations, Graph)
         /\ Solves([v \in Job |-> 0 - (T[v] + Duration(v))],
                   [v \in Job |-> 0 - baseLF[v]], Durations, Turned)
<1>1. /\ \A v \in Job : /\ T[v] \in Nat /\ Duration(v) \in Nat /\ Durations[v] = Duration(v)
                        /\ es[v] \in Nat /\ lf[v] \in Nat
                        /\ baseES[v] \in Nat /\ baseLF[v] \in Nat
                        /\ baseES[v] <= es[v] /\ lf[v] <= baseLF[v]
                        /\ es[v] <= T[v] /\ T[v] + Duration(v) <= lf[v]
      /\ T \in [Job -> Int]
      /\ Graph \subseteq Job \X Job
  <2>1. /\ \A v \in Job : T[v] \in Nat /\ es[v] <= T[v] /\ T[v] + Duration(v) <= lf[v]
        /\ T \in [Job -> Int]
    BY DEF Within
  <2>2. \A v \in Job : /\ baseES[v] \in Nat /\ baseLF[v] \in Nat
                      /\ baseES[v] <= es[v] /\ lf[v] <= baseLF[v]
    BY DEF TypeOK, InsideBase
  <2> QED
    BY <2>1, <2>2, TypeFacts, DurationFacts
<1>2. \A u, v \in Job : <<u, v>> \in Graph => T[u] + Duration(u) <= T[v]
  <2>1. TAKE u, v \in Job
  <2>2. HAVE <<u, v>> \in Graph
  <2>3. <<u, v>>[1] = u /\ <<u, v>>[2] = v
    OBVIOUS
  <2> QED
    BY <2>2, <2>3 DEF Within
<1>3. Solves(T, baseES, Durations, Graph)
  <2>1. \A v \in Job : baseES[v] <= T[v]
    BY <1>1
  <2> QED
    BY <1>1, <1>2, <2>1 DEF Solves
<1> DEFINE E == [v \in Job |-> 0 - (T[v] + Duration(v))]
           L == [v \in Job |-> 0 - baseLF[v]]
<1>4. E \in [Job -> Int] /\ \A v \in Job : L[v] <= E[v]
  BY <1>1
<1>5. \A u, v \in Job : <<u, v>> \in Turned => E[u] + Durations[u] <= E[v]
  <2>1. TAKE u, v \in Job
  <2>2. HAVE <<u, v>> \in Turned
  <2>3. T[v] + Duration(v) <= T[u]
    BY <1>2, <2>2 DEF Turned
  <2> QED
    BY <1>1, <2>3
<1> QED
  BY <1>3, <1>4, <1>5 DEF Solves

\* The values of complete propagation are the least starts, and the greatest
\* finishs, that respect the graph.
LEMMA ExactIsLeast ==
  ASSUME IInv, InsideBase, pc \notin Starting
  PROVE  /\ IsLeast(ExactES, baseES, Durations, Graph)
         /\ IsLeast([v \in Job |-> 0 - ExactLF[v]], [v \in Job |-> 0 - baseLF[v]],
                    Durations, Turned)
         /\ ExactLF \in [Job -> Int]
<1>0. TypeOK /\ Durations \in [Job -> Nat]
  BY DurationFacts DEF IInv
<1>1. PICK T : Within(T)
  BY DEF IInv, Admits
<1>2. PICK f : Rounds(f, Durations, Graph) /\ f[0] = baseES /\ ExactES = f[JobCount]
  BY <1>0, StartRounds
<1>3. PICK g : /\ Rounds(g, Durations, Turned)
               /\ g[0] = [v \in Job |-> 0 - baseLF[v]]
               /\ g[JobCount] = [v \in Job |-> 0 - ExactLF[v]]
               /\ ExactLF \in [Job -> Int]
  BY <1>0, FinishRounds
<1>4. Solves(T, f[0], Durations, Graph)
  BY <1>0, <1>1, <1>2, WithinSolves
<1>5. PICK E : Solves(E, g[0], Durations, Turned)
  BY <1>0, <1>1, <1>3, WithinSolves
<1>6. IsLeast(f[JobCount], f[0], Durations, Graph)
  BY <1>0, <1>2, <1>4, LeastIsReached
<1>7. IsLeast(g[JobCount], g[0], Durations, Turned)
  BY <1>0, <1>3, <1>5, LeastIsReached
<1> QED
  BY <1>2, <1>3, <1>6, <1>7

LEMMA ExactIsFeasible ==
  ASSUME IInv, InsideBase
  PROVE  GraphSolvable
<1>1. SUFFICES ASSUME pc \notin Starting PROVE Feasible([inst EXCEPT !.lag = Graph], ExactES)
  BY DEF GraphSolvable, Starting
<1>2. IsLeast(ExactES, baseES, Durations, Graph)
  BY <1>1, ExactIsLeast
<1>3. PICK T : Within(T)
  BY DEF IInv, Admits
<1>4. Solves(T, baseES, Durations, Graph)
  BY <1>1, <1>3, WithinSolves DEF IInv
<1>5. /\ TypeOK /\ inst \in Instance /\ Graph \subseteq Job \X Job
      /\ \A v \in Job : /\ T[v] \in Nat /\ Duration(v) \in Nat /\ Durations[v] = Duration(v)
                        /\ lf[v] \in Nat /\ baseES[v] \in Nat
                        /\ inst.release[v] \in Nat /\ inst.deadline[v] \in Nat
                        /\ lf[v] <= inst.deadline[v] /\ inst.release[v] <= baseES[v]
                        /\ T[v] + Duration(v) <= lf[v]
  <2>1. TypeOK /\ BaseOK
    BY DEF IInv
  <2>2. inst \in Instance
    BY <2>1, InstancesAssumption DEF TypeOK
  <2> QED
    BY <1>1, <1>3, <2>1, <2>2, TypeFacts, DurationFacts, InstanceFacts DEF Within, TypeOK, BaseOK
<1>6. /\ ExactES \in [Job -> Int]
      /\ \A v \in Job : baseES[v] <= ExactES[v] /\ ExactES[v] <= T[v]
      /\ \A u, v \in Job : <<u, v>> \in Graph => ExactES[u] + Duration(u) <= ExactES[v]
  BY <1>2, <1>4, <1>5 DEF IsLeast, Solves
<1>7. \A v \in Job : /\ ExactES[v] \in Nat
                     /\ inst.release[v] <= ExactES[v]
                     /\ ExactES[v] + inst.duration[v] <= inst.deadline[v]
  <2>1. TAKE v \in Job
  <2>2. ExactES[v] \in Int /\ baseES[v] <= ExactES[v] /\ ExactES[v] <= T[v]
    BY <1>6
  <2>3. inst.duration[v] = Duration(v)
    BY DEF Duration
  <2> QED
    BY <1>5, <2>2, <2>3
<1>8. \A e \in Graph : ExactES[e[1]] + inst.duration[e[1]] <= ExactES[e[2]]
  BY <1>5, <1>6 DEF Duration
<1>9. ExactES \in [Job -> Nat]
  BY <1>6, <1>7
<1> DEFINE i == [inst EXCEPT !.lag = Graph]
<1>10. /\ i.lag = Graph /\ i.release = inst.release /\ i.deadline = inst.deadline
       /\ i.duration = inst.duration
  BY <1>5 DEF Instance
<1> HIDE DEF i
<1>11. Feasible(i, ExactES)
  BY <1>7, <1>8, <1>9, <1>10 DEF Feasible
<1> QED
  BY <1>11 DEF i

\* No insertion makes the graph infeasible: the values that complete propagation
\* computes are a feasible schedule that respects every edge of it.
THEOREM GraphIsSolvable == Spec => []GraphSolvable
<1>1. IInv /\ HeldInv => GraphSolvable
  BY ExactIsFeasible DEF HeldInv
<1> QED
  BY <1>1, Invariant, Held, PTL

-----------------------------------------------------------------------------
(* The windows in the active range are exact                               *)

\* The lags have no cycle.  In an instance that can be solved at all only jobs
\* that take no time could form one.
LagsOrdered(i) == Numbered(i.lag)

\* An edge between jobs that both take no time is never inserted: they do not
\* overlap.
LEMMA GroundedStep ==
  ASSUME IInv, IInv', Grounded(inst.lag), Grounded(Graph), [Next]_vars
  PROVE  Grounded(Graph)'
<1>0. inst' = inst /\ TypeOK /\ Control
  BY FrameFacts DEF IInv
<1>1. CASE Insert
  <2>1. PICK e \in candidates :
          /\ Insertable(e[1], e[2]) /\ e = <<e[1], e[2]>>
          /\ e[1] \in Job /\ e[2] \in Job
          /\ edges' = edges \cup {e}
    BY <1>0, <1>1, InsertFacts
  <2>2. PICK T : Within(T)'
    BY DEF IInv, Admits
  <2>3. /\ T \in [Job -> Nat] /\ Durations \in [Job -> Nat]
        /\ \A v \in Job : Durations[v] = Duration(v) /\ Duration(v)' = Duration(v)
    BY <1>0, <2>2, DurationFacts DEF Within, Duration
  <2>4. \A u, v \in Job : <<u, v>> \in Graph' => T[u] + Durations[u] <= T[v]
    <3>1. TAKE u, v \in Job
    <3>2. HAVE <<u, v>> \in Graph'
    <3>3. <<u, v>>[1] = u /\ <<u, v>>[2] = v
      OBVIOUS
    <3>4. T[u] + Duration(u)' <= T[v]
      BY <2>2, <3>2, <3>3 DEF Within
    <3> QED
      BY <2>3, <3>4
  <2>5. \A u, v \in Job : <<u, v>> \in Graph' /\ Durations[u] = 0 /\ Durations[v] = 0
                            => <<u, v>> \in Graph
    <3>1. TAKE u, v \in Job
    <3>2. HAVE <<u, v>> \in Graph' /\ Durations[u] = 0 /\ Durations[v] = 0
    <3>3. CASE <<u, v>> = e
      <4>1. Overlap(u, v) /\ Duration(u) = 0 /\ Duration(v) = 0
        BY <2>1, <2>3, <3>2, <3>3 DEF Insertable
      <4>2. es[u] \in Nat /\ es[v] \in Nat
        BY <1>0, TypeFacts
      <4> QED
        BY <4>1, <4>2 DEF Overlap
    <3>4. CASE <<u, v>> # e
      BY <1>0, <2>1, <3>2, <3>4 DEF Graph
    <3> QED
      BY <3>3, <3>4
  <2> QED
    BY <2>3, <2>4, <2>5, TimeGoesOn
<1>2. CASE edges' \subseteq edges
  <2>1. Graph' \subseteq Graph
    BY <1>0, <1>2 DEF Graph
  <2> QED
    BY <2>1, GroundedSubset
<1>3. \/ Insert \/ edges' \subseteq edges
  <2>1. CASE PushES \/ PushLF \/ RebuildES \/ RebuildLF \/ Reset
    BY <2>1 DEF PushES, PushLF, RebuildES, RebuildLF, Reset
  <2>2. CASE Delete
    BY <1>0, <2>2, DeleteFacts
  <2>3. CASE Quiet
    BY <2>3, QuietFacts
  <2> QED
    BY <2>1, <2>2, <2>3, NextCases
<1> QED
  BY <1>1, <1>2, <1>3

\* In the active range the starts are the least ones: no start is behind them,
\* because all are held, and none is before them, because the starts in the range
\* and any schedule beyond it can be joined.
LEMMA StartsExact ==
  ASSUME IInv, HeldInv, Grounded(Graph), pc \in {"Iterate", "Candidate"},
         NEW v \in Job, es[v] <= active[2]
  PROVE  es[v] = ExactES[v]
<1>0. /\ TypeOK /\ Control /\ StartsTight /\ StartsSupported /\ InsideBase /\ BaseOK
      /\ pc \notin Starting /\ pc # "RebuildES" /\ pc # "RangeLF"
      /\ es \in [Job -> Int] /\ baseES \in [Job -> Int] /\ Durations \in [Job -> Nat]
      /\ Graph \subseteq Job \X Job
      /\ active[2] \in Nat
      /\ \A w \in Job : /\ es[w] \in Nat /\ baseES[w] \in Nat /\ inst.release[w] \in Nat
                        /\ Duration(w) \in Nat /\ Durations[w] = Duration(w)
                        /\ inst.release[w] <= baseES[w] /\ baseES[w] <= es[w]
  <2>1. TypeOK /\ Control /\ StartsTight /\ StartsSupported /\ InsideBase /\ BaseOK
    BY DEF IInv, HeldInv
  <2>2. pc \notin Starting
    BY DEF Starting
  <2>3. es \in [Job -> Int] /\ baseES \in [Job -> Int] /\ \A w \in Job : baseES[w] \in Nat
    BY <2>1 DEF TypeOK
  <2>4. \A w \in Job : inst.release[w] <= baseES[w] /\ baseES[w] <= es[w]
    BY <2>1, <2>2 DEF BaseOK, InsideBase
  <2>5. \A w \in Job : inst.release[w] \in Nat
    BY <2>1, InstanceFacts DEF TypeOK
  <2> QED
    BY <2>1, <2>2, <2>3, <2>4, <2>5, TypeFacts, DurationFacts
<1>1. IsLeast(ExactES, baseES, Durations, Graph)
  BY <1>0, ExactIsLeast
<1>2. esQueue = <<>>
  BY <1>0 DEF Control
<1>3. \A w \in Job : es[w] <= ExactES[w]
  <2>1. \A w \in Job : \/ es[w] <= baseES[w]
                       \/ \E u \in Job : <<u, w>> \in Graph /\ es[w] <= es[u] + Durations[u]
    <3>1. TAKE w \in Job
    <3>2. CASE es[w] <= inst.release[w]
      BY <1>0, <3>2
    <3>3. CASE ~ (es[w] <= inst.release[w])
      BY <1>0, <3>3 DEF StartsSupported
    <3> QED
      BY <3>2, <3>3
  <2>2. Solves(ExactES, baseES, Durations, Graph)
    BY <1>1 DEF IsLeast
  <2>3. \A G \in SUBSET Job : G # {} => \E w \in G : \A u \in G : <<u, w>> \notin Graph
    BY DEF Grounded
  <2> QED
    BY <1>0, <2>1, <2>2, <2>3, HeldIsLeast
<1>4. PICK T : Within(T)
  BY DEF IInv, Admits
<1>5. /\ Solves(T, baseES, Durations, Graph)
      /\ \A w \in Job : T[w] \in Nat /\ es[w] <= T[w]
  BY <1>0, <1>4, WithinSolves DEF Within
<1> DEFINE J == [w \in Job |-> IF es[w] <= active[2] THEN es[w] ELSE T[w]]
<1>6. J \in [Job -> Int] /\ \A w \in Job : baseES[w] <= J[w]
  BY <1>0, <1>5
<1>7. \A u, w \in Job : <<u, w>> \in Graph => J[u] + Durations[u] <= J[w]
  <2>1. TAKE u, w \in Job
  <2>2. HAVE <<u, w>> \in Graph
  <2>3. CASE es[w] <= active[2]
    <3>1. es[u] + Duration(u) <= es[w]
      <4>1. \/ es[u] + Duration(u) <= es[w]
            \/ es[w] > active[2]
        <5>1. <<u, w>>[1] = u /\ <<u, w>>[2] = w
          OBVIOUS
        <5> QED
          BY <1>0, <1>2, <2>2, <5>1, NothingIn DEF StartsTight
      <4> QED
        BY <1>0, <2>3, <4>1
    <3>2. es[u] <= active[2]
      BY <1>0, <2>3, <3>1
    <3> QED
      BY <1>0, <2>3, <3>1, <3>2
  <2>4. CASE ~ (es[w] <= active[2])
    <3>1. T[u] + Durations[u] <= T[w]
      BY <1>5, <2>2 DEF Solves
    <3> QED
      BY <1>0, <1>5, <2>4, <3>1
  <2> QED
    BY <2>3, <2>4
<1>8. Solves(J, baseES, Durations, Graph)
  <2> HIDE DEF J
  <2> QED
    BY <1>6, <1>7 DEF Solves
<1>9. ExactES[v] <= J[v] /\ ExactES[v] \in Int
  BY <1>1, <1>8 DEF IsLeast, Solves
<1> QED
  BY <1>0, <1>3, <1>9

\* In the active range the finishs are the greatest ones.
LEMMA FinishsExact ==
  ASSUME IInv, HeldInv, Grounded(Graph), pc \in {"Iterate", "Candidate"},
         NEW v \in Job, lf[v] >= active[1]
  PROVE  lf[v] = ExactLF[v]
<1> DEFINE X == [w \in Job |-> 0 - lf[w]]
           B == [w \in Job |-> 0 - baseLF[w]]
           E == [w \in Job |-> 0 - ExactLF[w]]
<1>0. /\ TypeOK /\ Control /\ FinishsTight /\ FinishsSupported /\ InsideBase /\ BaseOK
      /\ pc \notin Starting /\ pc \notin {"RebuildES", "RebuildLF"}
      /\ Durations \in [Job -> Nat]
      /\ Graph \subseteq Job \X Job
      /\ active[1] \in Nat
      /\ \A w \in Job : /\ lf[w] \in Nat /\ baseLF[w] \in Nat /\ inst.deadline[w] \in Nat
                        /\ Duration(w) \in Nat /\ Durations[w] = Duration(w)
                        /\ baseLF[w] <= inst.deadline[w] /\ lf[w] <= baseLF[w]
  BY TypeFacts, DurationFacts, InstanceFacts
  DEF IInv, HeldInv, TypeOK, Starting, BaseOK, InsideBase
<1>1. IsLeast(E, B, Durations, Turned) /\ ExactLF \in [Job -> Int]
  BY <1>0, ExactIsLeast
<1>2. lfQueue = <<>>
  BY <1>0 DEF Control
<1>3. /\ X \in [Job -> Int] /\ B \in [Job -> Int]
      /\ \A w \in Job : X[w] = 0 - lf[w] /\ B[w] = 0 - baseLF[w] /\ E[w] = 0 - ExactLF[w]
      /\ \A u, w \in Job : <<u, w>> \in Turned <=> <<w, u>> \in Graph
  BY <1>0 DEF Turned
<1> HIDE DEF X, B, E
<1>4. \A w \in Job : X[w] <= E[w]
  <2>1. \A w \in Job : \/ X[w] <= B[w]
                       \/ \E u \in Job : <<u, w>> \in Turned /\ X[w] <= X[u] + Durations[u]
    <3>1. TAKE w \in Job
    <3>2. ASSUME inst.deadline[w] <= lf[w] PROVE X[w] <= B[w]
      BY <1>0, <1>3, <3>2
    <3>3. ASSUME NEW u \in Job, <<w, u>> \in Graph, lf[u] <= lf[w] + Duration(u)
          PROVE  <<u, w>> \in Turned /\ X[w] <= X[u] + Durations[u]
      BY <1>0, <1>3, <3>3
    <3> QED
      BY <1>0, <3>2, <3>3 DEF FinishsSupported
  <2>2. Solves(E, B, Durations, Turned)
    BY <1>1 DEF IsLeast
  <2>3. \A G \in SUBSET Job : G # {} => \E w \in G : \A u \in G : <<u, w>> \notin Turned
    <3>1. TAKE G \in SUBSET Job
    <3>2. HAVE G # {}
    <3>3. PICK w \in G : \A u \in G : <<w, u>> \notin Graph
      BY <3>2 DEF Grounded
    <3> QED
      BY <1>3, <3>3
  <2> QED
    BY <1>0, <1>3, <2>1, <2>2, <2>3, HeldIsLeast
<1>5. PICK T : Within(T)
  BY DEF IInv, Admits
<1>6. PICK F : F = [w \in Job |-> 0 - (T[w] + Duration(w))]
  OBVIOUS
<1>7. /\ Solves(F, B, Durations, Turned)
      /\ F \in [Job -> Int] /\ \A w \in Job : X[w] <= F[w]
  <2>1. Solves(F, B, Durations, Turned)
    BY <1>0, <1>5, <1>6, WithinSolves DEF B
  <2>2. \A w \in Job : T[w] \in Nat /\ T[w] + Duration(w) <= lf[w]
    BY <1>5 DEF Within
  <2> QED
    BY <1>0, <1>3, <1>6, <2>1, <2>2
<1> DEFINE J == [w \in Job |-> IF lf[w] >= active[1] THEN X[w] ELSE F[w]]
<1>8. J \in [Job -> Int] /\ \A w \in Job : B[w] <= J[w]
  <2>1. \A w \in Job : B[w] <= X[w]
    BY <1>0, <1>3
  <2>2. \A w \in Job : B[w] <= F[w]
    BY <1>7 DEF Solves
  <2> QED
    BY <1>3, <1>7, <2>1, <2>2
<1>9. \A u, w \in Job : <<u, w>> \in Turned => J[u] + Durations[u] <= J[w]
  <2>1. TAKE u, w \in Job
  <2>2. HAVE <<u, w>> \in Turned
  <2>3. CASE lf[w] >= active[1]
    <3>1. lf[w] + Duration(u) <= lf[u]
      <4>1. \/ lf[w] + Duration(u) <= lf[u]
            \/ lf[w] < active[1]
        <5>1. <<w, u>> \in Graph /\ <<w, u>>[1] = w /\ <<w, u>>[2] = u
          BY <1>3, <2>2
        <5> QED
          BY <1>0, <1>2, <5>1, NothingIn DEF FinishsTight
      <4> QED
        BY <1>0, <2>3, <4>1
    <3>2. lf[u] >= active[1]
      BY <1>0, <2>3, <3>1
    <3>3. J[u] = 0 - lf[u] /\ J[w] = 0 - lf[w]
      BY <1>3, <2>3, <3>2
    <3> QED
      BY <1>0, <3>1, <3>3
  <2>4. CASE ~ (lf[w] >= active[1])
    <3>1. F[u] + Durations[u] <= F[w]
      BY <1>7, <2>2 DEF Solves
    <3>2. J[w] = F[w] /\ J[u] <= F[u] /\ J[u] \in Int
      BY <1>7, <1>8, <2>4
    <3>3. F[u] \in Int /\ F[w] \in Int /\ Durations[u] \in Int
      BY <1>0, <1>7
    <3> HIDE DEF J
    <3> QED
      BY <3>1, <3>2, <3>3
  <2> QED
    BY <2>3, <2>4
<1>10. Solves(J, B, Durations, Turned)
  <2> HIDE DEF J
  <2> QED
    BY <1>8, <1>9 DEF Solves
<1>11. E[v] <= X[v]
  <2>1. E[v] <= J[v]
    BY <1>1, <1>10 DEF IsLeast
  <2> QED
    BY <2>1
<1> QED
  BY <1>0, <1>1, <1>3, <1>4, <1>11

\* Where the next edge is chosen, the windows that lie in the active range are
\* exact, although the propagation beyond it was put off: for instances whose lags
\* have no cycle.
THEOREM WindowsAreExact ==
  ASSUME \A i \in Instances : LagsOrdered(i)
  PROVE  Spec => []WindowsExact
<1>1. ASSUME inst \in Instances PROVE Grounded(inst.lag)
  BY <1>1, NumberedIsGrounded DEF LagsOrdered
<1>2. Init => Grounded(Graph)
  <2>1. ASSUME Init PROVE inst \in Instances /\ Graph = inst.lag
    BY <2>1 DEF Init, Graph
  <2> QED
    BY <1>1, <2>1
<1>3. IInv /\ IInv' /\ Grounded(Graph) /\ [Next]_vars => Grounded(Graph)'
  <2>1. ASSUME IInv PROVE Grounded(inst.lag)
    BY <1>1, <2>1 DEF IInv, TypeOK
  <2> QED
    BY <2>1, GroundedStep
<1>4. IInv /\ HeldInv /\ Grounded(Graph) => WindowsExact
  BY StartsExact, FinishsExact DEF WindowsExact
<1> QED
  BY <1>2, <1>3, <1>4, Invariant, Held, PTL DEF Spec

=============================================================================
