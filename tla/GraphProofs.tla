---------------------------- MODULE GraphProofs ----------------------------
(***************************************************************************)
(* Proofs about the graphs of the system.                                  *)
(*                                                                         *)
(* The SWAG solver's graph: in the middle of bulk_delete() the stored      *)
(* indices are wrong; what holds all the time is that the index an entry   *)
(* will have once the pending changes are applied is right, for every      *)
(* entry that is not to be deleted.                                        *)
(*                                                                         *)
(* The lag graph of an instance: the topological sort gives every job one  *)
(* index, larger than that of the jobs before it, as long as the edges     *)
(* have no cycle; the sweeps along this order are exact for the part of    *)
(* the order they have passed; the traits follow from where they end.      *)
(***************************************************************************)
EXTENDS SwagGraph, Traits, ScheduleProofs, SequenceTheorems, FiniteSetTheorems, TLAPS

-----------------------------------------------------------------------------
(***************************************************************************)
(* Pending changes                                                         *)
(***************************************************************************)

\* Entry k, which has index stored now, has index n once the changes are
\* applied in their order: the last one to k decides.
Points(list, k, stored, n) ==
  \/ \E j \in DOMAIN list : /\ list[j] = <<k, n>>
                            /\ \A m \in DOMAIN list : m > j => list[m][1] # k
  \/ stored = n /\ \A m \in DOMAIN list : list[m][1] # k

LEMMA PointsNothing ==
  ASSUME NEW k, NEW stored, NEW n
  PROVE  Points(<<>>, k, stored, n) <=> stored = n
  BY DEF Points

LEMMA PointsOnce ==
  ASSUME NEW list \in Seq(Change), NEW k, NEW stored, NEW n, NEW o,
         Points(list, k, stored, n), Points(list, k, stored, o)
  PROVE  n = o
  <1>1. \A i, j \in DOMAIN list : i < j \/ j < i \/ i = j
    OBVIOUS
  <1> QED
    BY <1>1 DEF Points, Change

LEMMA PointsAppended ==
  ASSUME NEW list \in Seq(Change), NEW c \in Change, NEW stored, NEW n
  PROVE  /\ Points(Append(list, c), c[1], stored, c[2])
         /\ \A k : k # c[1] =>
              (Points(list, k, stored, n) => Points(Append(list, c), k, stored, n))
  <1> DEFINE new == Append(list, c)
  <1>1. /\ new \in Seq(Change)
        /\ Len(new) = Len(list) + 1
        /\ \A i \in 1 .. Len(list) : new[i] = list[i]
        /\ new[Len(new)] = c
    BY AppendProperties
  <1>2. DOMAIN list = 1 .. Len(list) /\ DOMAIN new = 1 .. Len(new) /\ Len(list) \in Nat
    BY <1>1
  <1>3. c = <<c[1], c[2]>>
    BY DEF Change
  <1> HIDE DEF new
  <1>4. Points(new, c[1], stored, c[2])
    <2>1. Len(new) \in DOMAIN new /\ new[Len(new)] = <<c[1], c[2]>>
      BY <1>1, <1>2, <1>3
    <2>2. \A m \in DOMAIN new : ~(m > Len(new))
      BY <1>2, <1>1
    <2> QED
      BY <2>1, <2>2 DEF Points
  <1>5. ASSUME NEW k, k # c[1], Points(list, k, stored, n)
        PROVE  Points(new, k, stored, n)
    <2>1. \A m \in DOMAIN new : (m \in DOMAIN list /\ new[m] = list[m]) \/ new[m][1] # k
      <3>1. \A m \in DOMAIN new : m \in 1 .. Len(list) \/ m = Len(new)
        BY <1>1, <1>2
      <3> QED
        BY <3>1, <1>1, <1>2, <1>5
    <2>2. CASE \E j \in DOMAIN list :
                 /\ list[j] = <<k, n>>
                 /\ \A m \in DOMAIN list : m > j => list[m][1] # k
      <3>1. PICK j \in DOMAIN list :
                 /\ list[j] = <<k, n>>
                 /\ \A m \in DOMAIN list : m > j => list[m][1] # k
        BY <2>2
      <3>2. j \in DOMAIN new /\ new[j] = <<k, n>>
        BY <3>1, <1>1, <1>2
      <3>3. \A m \in DOMAIN new : m > j => new[m][1] # k
        BY <2>1, <3>1
      <3> QED
        BY <3>2, <3>3 DEF Points
    <2>3. CASE stored = n /\ \A m \in DOMAIN list : list[m][1] # k
      BY <2>1, <2>3 DEF Points
    <2> QED
      BY <1>5, <2>2, <2>3 DEF Points
  <1> QED
    BY <1>4, <1>5 DEF new

\* Applying the first change leaves every entry with the index it would have
\* had in the end.
LEMMA PointsApplied ==
  ASSUME NEW list \in Seq(Change), list # <<>>, NEW k, NEW stored, NEW n,
         Points(list, k, stored, n)
  PROVE  Points(Tail(list), k, IF k = Head(list)[1] THEN Head(list)[2] ELSE stored, n)
  <1> DEFINE rest == Tail(list)
             now == IF k = list[1][1] THEN list[1][2] ELSE stored
  <1>1. /\ rest \in Seq(Change)
        /\ Len(rest) = Len(list) - 1
        /\ \A i \in 1 .. Len(rest) : rest[i] = list[i + 1]
        /\ Head(list) = list[1]
        /\ Len(list) \in Nat \ {0}
    BY HeadTailProperties, LenProperties, EmptySeq
  <1>2. DOMAIN list = 1 .. Len(list) /\ DOMAIN rest = 1 .. Len(rest)
    BY <1>1
  <1>3. \A m \in DOMAIN rest : m + 1 \in DOMAIN list /\ rest[m] = list[m + 1]
    BY <1>1, <1>2
  <1> HIDE DEF rest
  <1>4. CASE \E j \in DOMAIN list : /\ list[j] = <<k, n>>
                                    /\ \A m \in DOMAIN list : m > j => list[m][1] # k
    <2>1. PICK j \in DOMAIN list : /\ list[j] = <<k, n>>
                                   /\ \A m \in DOMAIN list : m > j => list[m][1] # k
      BY <1>4
    <2>2. CASE j = 1
      <3>1. \A m \in DOMAIN rest : rest[m][1] # k
        <4>1. \A m \in DOMAIN rest : m + 1 > 1
          BY <1>2, <1>1
        <4> QED
          BY <4>1, <1>3, <2>1, <2>2
      <3>2. now = n
        BY <2>1, <2>2
      <3> QED
        BY <3>1, <3>2, <1>1 DEF Points, rest
    <2>3. CASE j # 1
      <3>1. j - 1 \in DOMAIN rest /\ rest[j - 1] = <<k, n>>
        BY <2>1, <2>3, <1>1, <1>2
      <3>2. \A m \in DOMAIN rest : m > j - 1 => rest[m][1] # k
        <4>1. \A m \in DOMAIN rest : m > j - 1 => m + 1 > j
          BY <1>1, <1>2, <2>1
        <4> QED
          BY <4>1, <1>3, <2>1
      <3> QED
        BY <3>1, <3>2 DEF Points, rest
    <2> QED
      BY <2>2, <2>3
  <1>5. CASE stored = n /\ \A m \in DOMAIN list : list[m][1] # k
    <2>1. 1 \in DOMAIN list
      BY <1>1, <1>2
    <2>2. now = n
      BY <2>1, <1>5
    <2>3. \A m \in DOMAIN rest : rest[m][1] # k
      BY <1>3, <1>5
    <2> QED
      BY <2>2, <2>3, <1>1 DEF Points, rest
  <1> QED
    BY <1>4, <1>5 DEF Points

LEMMA Gap ==
  ASSUME NEW S, NEW list \in Seq(S), NEW k \in DOMAIN list
  PROVE  /\ CloseGap(list, k) \in Seq(S)
         /\ DOMAIN CloseGap(list, k) = 1 .. Len(list) - 1
         /\ Len(CloseGap(list, k)) = Len(list) - 1
         /\ \A i \in 1 .. Len(list) - 1 :
              CloseGap(list, k)[i] = IF i = k THEN list[Len(list)] ELSE list[i]
  <1>1. Len(list) \in Nat /\ DOMAIN list = 1 .. Len(list) /\ Len(list) # 0
    BY LenProperties
  <1>2. \A i \in 1 .. Len(list) : list[i] \in S
    BY ElementOfSeq
  <1>3. Len(list) - 1 \in Nat
    BY <1>1
  <1>4. CloseGap(list, k) \in [1 .. Len(list) - 1 -> S]
    BY <1>1, <1>2 DEF CloseGap
  <1> QED
    BY <1>3, <1>4, <1>1, SeqDef, LenProperties DEF CloseGap

-----------------------------------------------------------------------------
(***************************************************************************)
(* The inductive invariant                                                 *)
(***************************************************************************)

Kept(s) == DOMAIN adjacency_list[s] \ forward_deletion_buckets[s]
KeptIn(t) == DOMAIN rev_adjacency_list[t] \ reverse_deletion_buckets[t]

\* Entry i of the list of s and entry r of the list of t stay, and will lead
\* to each other when all changes have been applied.
Linked(s, i, t, r) ==
  /\ i \in Kept(s)
  /\ r \in KeptIn(t)
  /\ adjacency_list[s][i].t = t
  /\ rev_adjacency_list[t][r].s = s
  /\ Points(forward_pointers_changed[s], i, adjacency_list[s][i].rev_index, r)
  /\ Points(reverse_pointers_changed[t], r, rev_adjacency_list[t][r].forward_index, i)

OutLinked ==
  \A s \in GraphJob : \A i \in Kept(s) :
    \E r \in KeptIn(adjacency_list[s][i].t) :
      Linked(s, i, adjacency_list[s][i].t, r)

InLinked ==
  \A t \in GraphJob : \A r \in KeptIn(t) :
    \E i \in Kept(rev_adjacency_list[t][r].s) :
      Linked(rev_adjacency_list[t][r].s, i, t, r)

\* The entries that stay are the edges.
Listed ==
  \A s, t \in GraphJob : \A permanent \in BOOLEAN :
    <<s, t, permanent>> \in graphEdges <=>
      \E i \in Kept(s) : /\ adjacency_list[s][i].t = t
                         /\ adjacency_list[s][i].permanent = permanent

ListedOnce ==
  \A s \in GraphJob : \A i, j \in Kept(s) :
    adjacency_list[s][i].t = adjacency_list[s][j].t => i = j

BucketsInRange ==
  \A j \in GraphJob :
    /\ forward_deletion_buckets[j] \subseteq DOMAIN adjacency_list[j]
    /\ reverse_deletion_buckets[j] \subseteq DOMAIN rev_adjacency_list[j]

\* What the passes have finished with.
Passes ==
  /\ graphPass \in {"initialize", "search", "reverse", "repoint"} =>
       forward_deletion_buckets = Nowhere
  /\ graphPass \in {"initialize", "search", "repoint"} =>
       reverse_deletion_buckets = Nowhere /\ reverse_pointers_changed = Nothing
  /\ graphPass \in {"initialize", "search", "forward"} =>
       forward_pointers_changed = Nothing
  /\ graphPass \in {"forward", "reverse", "repoint"} => graphRow \in GraphJob
  /\ graphPass = "forward" =>
       \A s \in 1 .. graphRow - 1 : forward_deletion_buckets[s] = {}
  /\ graphPass = "reverse" =>
       \A t \in 1 .. graphRow - 1 : /\ reverse_deletion_buckets[t] = {}
                                    /\ reverse_pointers_changed[t] = <<>>
  /\ graphPass = "repoint" =>
       \A s \in 1 .. graphRow - 1 : forward_pointers_changed[s] = <<>>

\* The lists the solver falls back on are those of the permanent edges.
Base ==
  /\ graphPass = "initialize" =>
       graphEdges = {<<GraphLags[j][1], GraphLags[j][2], TRUE>> :
                       j \in {n \in DOMAIN GraphLags : n < graphRow}}
  /\ graphPass # "initialize" =>
       /\ Mutual(base_adjacency_list, base_rev_adjacency_list)
       /\ Hold(base_adjacency_list, {e \in graphEdges : e[3] = TRUE})

GraphInv ==
  /\ GraphTypeOK
  /\ OutLinked
  /\ InLinked
  /\ Listed
  /\ ListedOnce
  /\ BucketsInRange
  /\ Passes
  /\ Base

LEMMA Places ==
  ASSUME GraphTypeOK, NEW j \in GraphJob
  PROVE  /\ adjacency_list[j] \in Seq(Out)
         /\ Len(adjacency_list[j]) \in Nat
         /\ DOMAIN adjacency_list[j] = 1 .. Len(adjacency_list[j])
         /\ \A i \in DOMAIN adjacency_list[j] :
              /\ adjacency_list[j][i] \in Out
              /\ adjacency_list[j][i].t \in GraphJob
              /\ adjacency_list[j][i].rev_index \in Nat \ {0}
              /\ adjacency_list[j][i].permanent \in BOOLEAN
         /\ rev_adjacency_list[j] \in Seq(In)
         /\ Len(rev_adjacency_list[j]) \in Nat
         /\ DOMAIN rev_adjacency_list[j] = 1 .. Len(rev_adjacency_list[j])
         /\ \A r \in DOMAIN rev_adjacency_list[j] :
              /\ rev_adjacency_list[j][r] \in In
              /\ rev_adjacency_list[j][r].s \in GraphJob
              /\ rev_adjacency_list[j][r].forward_index \in Nat \ {0}
         /\ forward_deletion_buckets[j] \subseteq Nat \ {0}
         /\ reverse_deletion_buckets[j] \subseteq Nat \ {0}
         /\ forward_pointers_changed[j] \in Seq(Change)
         /\ reverse_pointers_changed[j] \in Seq(Change)
  <1>1. /\ adjacency_list[j] \in Seq(Out)
        /\ rev_adjacency_list[j] \in Seq(In)
    BY DEF GraphTypeOK
  <1>2. /\ Len(adjacency_list[j]) \in Nat
        /\ DOMAIN adjacency_list[j] = 1 .. Len(adjacency_list[j])
        /\ Len(rev_adjacency_list[j]) \in Nat
        /\ DOMAIN rev_adjacency_list[j] = 1 .. Len(rev_adjacency_list[j])
    BY <1>1, LenProperties
  <1>3. \A i \in DOMAIN adjacency_list[j] : adjacency_list[j][i] \in Out
    BY <1>1, <1>2, ElementOfSeq
  <1>4. \A r \in DOMAIN rev_adjacency_list[j] : rev_adjacency_list[j][r] \in In
    BY <1>1, <1>2, ElementOfSeq
  <1>5. \A e \in Out : e.t \in GraphJob /\ e.rev_index \in Nat \ {0} /\ e.permanent \in BOOLEAN
    BY DEF Out
  <1>6. \A e \in In : e.s \in GraphJob /\ e.forward_index \in Nat \ {0}
    BY DEF In
  <1>7. /\ forward_deletion_buckets[j] \subseteq Nat \ {0}
        /\ reverse_deletion_buckets[j] \subseteq Nat \ {0}
        /\ forward_pointers_changed[j] \in Seq(Change)
        /\ reverse_pointers_changed[j] \in Seq(Change)
    BY DEF GraphTypeOK
  <1> QED
    BY <1>1, <1>2, <1>3, <1>4, <1>5, <1>6, <1>7

\* Two entries that will lead to the same place are one entry.
LEMMA LinkedOnce ==
  ASSUME GraphTypeOK,
         NEW s \in GraphJob, NEW t \in GraphJob, NEW i, NEW j, NEW r, NEW q
  PROVE  /\ Linked(s, i, t, r) /\ Linked(s, j, t, r) => i = j
         /\ Linked(s, i, t, r) /\ Linked(s, i, t, q) => r = q
  BY Places, PointsOnce DEF Linked

-----------------------------------------------------------------------------
(***************************************************************************)
(* Pass 1 keeps the invariant                                              *)
(***************************************************************************)

LEMMA DeleteForwardKeeps ==
  ASSUME GraphInv, graphPass = "forward",
         NEW k \in forward_deletion_buckets[graphRow], DeleteForward(k)
  PROVE  GraphInv'
  <1> DEFINE s0 == graphRow
             list == adjacency_list[s0]
             n == Len(list)
             e == list[n]
             old(s, i) == IF s = s0 /\ i = k THEN n ELSE i
  <1>1. /\ s0 \in GraphJob
        /\ list \in Seq(Out)
        /\ n \in Nat
        /\ DOMAIN list = 1 .. n
        /\ k \in 1 .. n
        /\ forward_deletion_buckets[s0] \subseteq 1 .. n
        /\ \A j \in forward_deletion_buckets[s0] : j <= k
        /\ e \in Out /\ e.t \in GraphJob /\ e.rev_index \in Nat \ {0}
    <2>1. s0 \in GraphJob
      BY DEF GraphInv, Passes
    <2>2. forward_deletion_buckets[s0] \subseteq DOMAIN list
      BY <2>1 DEF GraphInv, BucketsInRange
    <2>3. list \in Seq(Out) /\ n \in Nat /\ DOMAIN list = 1 .. n
      BY <2>1, Places DEF GraphInv
    <2>4. k \in 1 .. n /\ n \in DOMAIN list
      BY <2>2, <2>3
    <2>5. e \in Out /\ e.t \in GraphJob /\ e.rev_index \in Nat \ {0}
      BY <2>1, <2>4, Places DEF GraphInv
    <2> QED
      BY <2>1, <2>2, <2>3, <2>4, <2>5 DEF DeleteForward, Rightmost
  <1>2. /\ adjacency_list' \in [GraphJob -> Seq(Out)]
        /\ DOMAIN adjacency_list'[s0] = 1 .. n - 1
        /\ \A i \in 1 .. n - 1 : adjacency_list'[s0][i] = list[old(s0, i)]
        /\ \A s \in GraphJob \ {s0} : adjacency_list'[s] = adjacency_list[s]
    <2>1. adjacency_list' = [adjacency_list EXCEPT ![s0] = CloseGap(list, k)]
      BY DEF DeleteForward
    <2>2. adjacency_list \in [GraphJob -> Seq(Out)]
      BY DEF GraphInv, GraphTypeOK
    <2>3. /\ CloseGap(list, k) \in Seq(Out)
          /\ DOMAIN CloseGap(list, k) = 1 .. n - 1
          /\ \A i \in 1 .. n - 1 :
               CloseGap(list, k)[i] = IF i = k THEN list[n] ELSE list[i]
      <3>1. k \in DOMAIN list
        BY <1>1
      <3> HIDE DEF list
      <3> QED
        BY <3>1, <1>1, Gap
    <2> HIDE DEF list, n
    <2> QED
      BY <1>1, <2>1, <2>2, <2>3
  <1>3. /\ forward_deletion_buckets' \in [GraphJob -> SUBSET (Nat \ {0})]
        /\ forward_deletion_buckets'[s0] = forward_deletion_buckets[s0] \ {k}
        /\ \A s \in GraphJob \ {s0} :
             forward_deletion_buckets'[s] = forward_deletion_buckets[s]
    BY <1>1 DEF DeleteForward, GraphInv, GraphTypeOK
  <1>4. /\ reverse_pointers_changed' \in [GraphJob -> Seq(Change)]
        /\ k # n => reverse_pointers_changed'[e.t] =
                      Append(reverse_pointers_changed[e.t], <<e.rev_index, k>>)
        /\ \A t \in GraphJob : t # e.t \/ k = n =>
             reverse_pointers_changed'[t] = reverse_pointers_changed[t]
        /\ <<e.rev_index, k>> \in Change
    <2>1. reverse_pointers_changed \in [GraphJob -> Seq(Change)]
      BY DEF GraphInv, GraphTypeOK
    <2>2. reverse_pointers_changed' =
             IF k = n THEN reverse_pointers_changed
             ELSE [reverse_pointers_changed EXCEPT ![e.t] =
                     Append(@, <<e.rev_index, k>>)]
      BY DEF DeleteForward
    <2>3. <<e.rev_index, k>> \in Change
      BY <1>1 DEF Change
    <2>4. Append(reverse_pointers_changed[e.t], <<e.rev_index, k>>) \in Seq(Change)
      BY <2>1, <2>3, <1>1, AppendProperties
    <2> HIDE DEF e, n
    <2> QED
      BY <2>1, <2>2, <2>3, <2>4, <1>1
  <1>5. UNCHANGED <<rev_adjacency_list, baseLists, reverse_deletion_buckets,
                    forward_pointers_changed, graphPass, graphRow, graphEdges>>
    BY DEF DeleteForward
  <1>6. \A s \in GraphJob : \A i \in Kept(s)' :
          /\ old(s, i) \in Kept(s)
          /\ adjacency_list'[s][i] = adjacency_list[s][old(s, i)]
    BY <1>1, <1>2, <1>3 DEF Kept
  <1>7. \A s \in GraphJob : \A i \in Kept(s) : \E j \in Kept(s)' : old(s, j) = i
    <2> SUFFICES ASSUME NEW s \in GraphJob, NEW i \in Kept(s)
                 PROVE  \E j \in Kept(s)' : old(s, j) = i
      OBVIOUS
    <2>1. CASE s # s0
      BY <2>1, <1>2, <1>3 DEF Kept
    <2>2. CASE s = s0 /\ i # n
      <3>1. i # k
        BY <2>2 DEF Kept
      <3>2. i \in Kept(s)'
        BY <2>2, <1>1, <1>2, <1>3 DEF Kept
      <3> QED
        BY <3>1, <3>2
    <2>3. CASE s = s0 /\ i = n
      <3>1. k # n
        BY <2>3 DEF Kept
      <3>2. k \in Kept(s)'
        BY <2>3, <3>1, <1>1, <1>2, <1>3 DEF Kept
      <3> QED
        BY <3>2, <2>3
    <2> QED
      BY <2>1, <2>2, <2>3
  <1>8. \A s \in GraphJob : \A i, j \in Kept(s)' : old(s, i) = old(s, j) => i = j
    BY <1>1, <1>2 DEF Kept
  <1>9. \A t \in GraphJob : KeptIn(t)' = KeptIn(t)
    BY <1>5 DEF KeptIn
  <1>10. ASSUME NEW s \in GraphJob, NEW t \in GraphJob, NEW i \in Kept(s)', NEW r,
                Linked(s, old(s, i), t, r)
         PROVE  Linked(s, i, t, r)'
    <2>1. /\ i \in Kept(s)'
          /\ r \in KeptIn(t)'
          /\ adjacency_list'[s][i].t = t
          /\ rev_adjacency_list'[t][r].s = s
      BY <1>5, <1>6, <1>9, <1>10 DEF Linked
    <2>2. adjacency_list'[s][i].rev_index = r
      <3>1. forward_pointers_changed[s] = <<>>
        BY DEF GraphInv, Passes, Nothing
      <3> QED
        BY <3>1, <1>6, <1>10, PointsNothing DEF Linked
    <2>3. forward_pointers_changed'[s] = <<>>
      BY <1>5 DEF GraphInv, Passes, Nothing
    <2>4. reverse_pointers_changed[t] \in Seq(Change)
      BY DEF GraphInv, GraphTypeOK
    <2>5. CASE s = s0 /\ i = k
      <3>1. k # n
        BY <2>1, <2>5, <1>1, <1>2 DEF Kept
      <3>2. e.t = t /\ e.rev_index = r
        BY <2>1, <2>2, <2>5, <1>6
      <3>3. reverse_pointers_changed'[t] =
              Append(reverse_pointers_changed[t], <<r, k>>)
        BY <3>1, <3>2, <1>4
      <3>4. <<r, k>> \in Change
        BY <3>2, <1>4
      <3>5. Points(reverse_pointers_changed'[t], r,
                   rev_adjacency_list'[t][r].forward_index, i)
        BY <3>3, <3>4, <2>4, <2>5, PointsAppended
      <3> QED
        BY <3>5, <2>1, <2>2, <2>3, PointsNothing DEF Linked
    <2>6. CASE ~(s = s0 /\ i = k)
      <3>1. Points(reverse_pointers_changed[t], r,
                   rev_adjacency_list'[t][r].forward_index, i)
        BY <2>6, <1>5, <1>10 DEF Linked
      <3>2. CASE t # e.t \/ k = n
        <4>1. reverse_pointers_changed'[t] = reverse_pointers_changed[t]
          BY <3>2, <1>4
        <4> QED
          BY <4>1, <3>1, <2>1, <2>2, <2>3, PointsNothing DEF Linked
      <3>3. CASE t = e.t /\ k # n
        <4>1. e.rev_index # r
          <5> SUFFICES ASSUME e.rev_index = r
                       PROVE  FALSE
            OBVIOUS
          <5>1. n \in Kept(s0)
            BY <3>3, <1>1 DEF Kept
          <5>2. PICK q \in KeptIn(t) : Linked(s0, n, t, q)
            BY <5>1, <1>1, <3>3 DEF GraphInv, OutLinked
          <5>3. q = r
            <6>1. forward_pointers_changed[s0] = <<>>
              BY <1>1 DEF GraphInv, Passes, Nothing
            <6> QED
              BY <6>1, <5>2, PointsNothing DEF Linked
          <5>4. s = s0
            BY <5>2, <5>3, <1>10 DEF Linked
          <5>5. i = n
            <6>1. Linked(s0, i, t, r) /\ Linked(s0, n, t, r)
              BY <5>2, <5>3, <5>4, <1>10, <2>6
            <6> QED
              BY <6>1, <1>1, LinkedOnce DEF GraphInv
          <5> QED
            BY <5>4, <5>5, <1>1, <1>2 DEF Kept
        <4>2. Points(reverse_pointers_changed'[t], r,
                     rev_adjacency_list'[t][r].forward_index, i)
          <5>1. <<e.rev_index, k>>[1] = e.rev_index
            OBVIOUS
          <5> QED
            BY <4>1, <3>1, <3>3, <1>4, <2>4, <5>1, PointsAppended
        <4> QED
          BY <4>2, <2>1, <2>2, <2>3, PointsNothing DEF Linked
      <3> QED
        BY <3>2, <3>3
    <2> QED
      BY <2>5, <2>6
  <1>11. GraphTypeOK'
    BY <1>2, <1>3, <1>4, <1>5 DEF GraphInv, GraphTypeOK, baseLists
  <1>12. OutLinked'
    <2> SUFFICES ASSUME NEW s \in GraphJob, NEW i \in Kept(s)'
                 PROVE  (\E r \in KeptIn(adjacency_list[s][i].t) :
                           Linked(s, i, adjacency_list[s][i].t, r))'
      BY DEF OutLinked
    <2>1. PICK r \in KeptIn(adjacency_list[s][old(s, i)].t) :
            Linked(s, old(s, i), adjacency_list[s][old(s, i)].t, r)
      BY <1>6 DEF GraphInv, OutLinked
    <2>2. adjacency_list[s][old(s, i)].t \in GraphJob
      BY <1>6, Places DEF GraphInv, Kept
    <2>3. adjacency_list[s][old(s, i)].t = adjacency_list'[s][i].t
      BY <1>6
    <2> QED
      BY <2>1, <2>2, <2>3, <1>9, <1>10
  <1>13. InLinked'
    <2> SUFFICES ASSUME NEW t \in GraphJob, NEW r \in KeptIn(t)'
                 PROVE  (\E i \in Kept(rev_adjacency_list[t][r].s) :
                           Linked(rev_adjacency_list[t][r].s, i, t, r))'
      BY DEF InLinked
    <2>0. r \in KeptIn(t) /\ rev_adjacency_list[t][r].s \in GraphJob
      BY <1>9, Places DEF GraphInv, KeptIn
    <2>2. PICK s \in GraphJob : s = rev_adjacency_list[t][r].s
      BY <2>0
    <2>1. r \in KeptIn(t) /\ rev_adjacency_list'[t][r].s = s
      BY <1>5, <2>0, <2>2
    <2>3. PICK i \in Kept(s) : Linked(s, i, t, r)
      BY <2>1, <2>2 DEF GraphInv, InLinked
    <2>4. PICK j \in Kept(s)' : old(s, j) = i
      BY <2>2, <2>3, <1>7
    <2> QED
      BY <2>1, <2>2, <2>3, <2>4, <1>10
  <1>14. Listed'
    <2> SUFFICES ASSUME NEW s \in GraphJob, NEW t \in GraphJob, NEW permanent \in BOOLEAN
                 PROVE  (<<s, t, permanent>> \in graphEdges <=>
                           \E i \in Kept(s) :
                             /\ adjacency_list[s][i].t = t
                             /\ adjacency_list[s][i].permanent = permanent)'
      BY DEF Listed
    <2>1. <<s, t, permanent>> \in graphEdges <=>
            \E i \in Kept(s) : /\ adjacency_list[s][i].t = t
                               /\ adjacency_list[s][i].permanent = permanent
      BY DEF GraphInv, Listed
    <2> QED
      BY <2>1, <1>5, <1>6, <1>7
  <1>15. ListedOnce'
    <2>1. \A s \in GraphJob : \A i, j \in Kept(s) :
            adjacency_list[s][i].t = adjacency_list[s][j].t => i = j
      BY DEF GraphInv, ListedOnce
    <2> QED
      BY <2>1, <1>6, <1>8 DEF ListedOnce
  <1>16. BucketsInRange'
    <2>1. ASSUME NEW j \in GraphJob
          PROVE  /\ forward_deletion_buckets'[j] \subseteq DOMAIN adjacency_list'[j]
                 /\ reverse_deletion_buckets'[j] \subseteq DOMAIN rev_adjacency_list'[j]
      <3>1. /\ forward_deletion_buckets[j] \subseteq DOMAIN adjacency_list[j]
            /\ reverse_deletion_buckets[j] \subseteq DOMAIN rev_adjacency_list[j]
        BY DEF GraphInv, BucketsInRange
      <3>2. CASE j = s0
        BY <3>1, <3>2, <1>1, <1>2, <1>3, <1>5
      <3> QED
        BY <3>1, <3>2, <1>2, <1>3, <1>5
    <2> QED
      BY <2>1 DEF BucketsInRange
  <1>17. Passes'
    <2>1. graphPass' = "forward" /\ graphRow' = s0
      BY <1>5
    <2>2. forward_pointers_changed' = Nothing
      BY <1>5 DEF GraphInv, Passes
    <2>3. \A s \in 1 .. s0 - 1 : forward_deletion_buckets'[s] = {}
      <3>1. \A s \in 1 .. s0 - 1 : s \in GraphJob \ {s0}
        BY <1>1, GraphAssumption DEF GraphJob
      <3> QED
        BY <3>1, <1>3 DEF GraphInv, Passes
    <2> QED
      BY <2>1, <2>2, <2>3, <1>1 DEF Passes
  <1>18. Base'
    BY <1>5 DEF GraphInv, Base, baseLists
  <1> QED
    BY <1>11, <1>12, <1>13, <1>14, <1>15, <1>16, <1>17, <1>18 DEF GraphInv

-----------------------------------------------------------------------------
(***************************************************************************)
(* Pass 2 keeps the invariant                                              *)
(***************************************************************************)

LEMMA DeleteReverseKeeps ==
  ASSUME GraphInv, graphPass = "reverse",
         NEW k \in reverse_deletion_buckets[graphRow], DeleteReverse(k)
  PROVE  GraphInv'
  <1> DEFINE t0 == graphRow
             list == rev_adjacency_list[t0]
             n == Len(list)
             e == list[n]
             old(t, r) == IF t = t0 /\ r = k THEN n ELSE r
  <1>1. /\ t0 \in GraphJob
        /\ list \in Seq(In)
        /\ n \in Nat
        /\ DOMAIN list = 1 .. n
        /\ k \in 1 .. n
        /\ reverse_deletion_buckets[t0] \subseteq 1 .. n
        /\ \A j \in reverse_deletion_buckets[t0] : j <= k
        /\ e \in In /\ e.s \in GraphJob /\ e.forward_index \in Nat \ {0}
        /\ reverse_pointers_changed[t0] = <<>>
    <2>1. t0 \in GraphJob
      BY DEF GraphInv, Passes
    <2>2. reverse_deletion_buckets[t0] \subseteq DOMAIN list
      BY <2>1 DEF GraphInv, BucketsInRange
    <2>3. list \in Seq(In) /\ n \in Nat /\ DOMAIN list = 1 .. n
      BY <2>1, Places DEF GraphInv
    <2>4. k \in 1 .. n /\ n \in DOMAIN list
      BY <2>2, <2>3
    <2>5. e \in In /\ e.s \in GraphJob /\ e.forward_index \in Nat \ {0}
      BY <2>1, <2>4, Places DEF GraphInv
    <2> QED
      BY <2>1, <2>2, <2>3, <2>4, <2>5 DEF DeleteReverse, Rightmost
  <1>2. /\ rev_adjacency_list' \in [GraphJob -> Seq(In)]
        /\ DOMAIN rev_adjacency_list'[t0] = 1 .. n - 1
        /\ \A r \in 1 .. n - 1 : rev_adjacency_list'[t0][r] = list[old(t0, r)]
        /\ \A t \in GraphJob \ {t0} : rev_adjacency_list'[t] = rev_adjacency_list[t]
    <2>1. rev_adjacency_list' = [rev_adjacency_list EXCEPT ![t0] = CloseGap(list, k)]
      BY DEF DeleteReverse
    <2>2. rev_adjacency_list \in [GraphJob -> Seq(In)]
      BY DEF GraphInv, GraphTypeOK
    <2>3. /\ CloseGap(list, k) \in Seq(In)
          /\ DOMAIN CloseGap(list, k) = 1 .. n - 1
          /\ \A r \in 1 .. n - 1 :
               CloseGap(list, k)[r] = IF r = k THEN list[n] ELSE list[r]
      <3>1. k \in DOMAIN list
        BY <1>1
      <3> HIDE DEF list
      <3> QED
        BY <3>1, <1>1, Gap
    <2> HIDE DEF list, n
    <2> QED
      BY <1>1, <2>1, <2>2, <2>3
  <1>3. /\ reverse_deletion_buckets' \in [GraphJob -> SUBSET (Nat \ {0})]
        /\ reverse_deletion_buckets'[t0] = reverse_deletion_buckets[t0] \ {k}
        /\ \A t \in GraphJob \ {t0} :
             reverse_deletion_buckets'[t] = reverse_deletion_buckets[t]
    BY <1>1 DEF DeleteReverse, GraphInv, GraphTypeOK
  <1>4. /\ forward_pointers_changed' \in [GraphJob -> Seq(Change)]
        /\ k # n => forward_pointers_changed'[e.s] =
                      Append(forward_pointers_changed[e.s], <<e.forward_index, k>>)
        /\ \A s \in GraphJob : s # e.s \/ k = n =>
             forward_pointers_changed'[s] = forward_pointers_changed[s]
        /\ <<e.forward_index, k>> \in Change
    <2>1. forward_pointers_changed \in [GraphJob -> Seq(Change)]
      BY DEF GraphInv, GraphTypeOK
    <2>2. forward_pointers_changed' =
             IF k = n THEN forward_pointers_changed
             ELSE [forward_pointers_changed EXCEPT ![e.s] =
                     Append(@, <<e.forward_index, k>>)]
      BY DEF DeleteReverse
    <2>3. <<e.forward_index, k>> \in Change
      BY <1>1 DEF Change
    <2>4. Append(forward_pointers_changed[e.s], <<e.forward_index, k>>) \in Seq(Change)
      BY <2>1, <2>3, <1>1, AppendProperties
    <2> HIDE DEF e, n
    <2> QED
      BY <2>1, <2>2, <2>3, <2>4, <1>1
  <1>5. UNCHANGED <<adjacency_list, baseLists, forward_deletion_buckets,
                    reverse_pointers_changed, graphPass, graphRow, graphEdges>>
    BY DEF DeleteReverse
  <1>6. \A t \in GraphJob : \A r \in KeptIn(t)' :
          /\ old(t, r) \in KeptIn(t)
          /\ rev_adjacency_list'[t][r] = rev_adjacency_list[t][old(t, r)]
    BY <1>1, <1>2, <1>3 DEF KeptIn
  <1>7. \A t \in GraphJob : \A r \in KeptIn(t) : \E j \in KeptIn(t)' : old(t, j) = r
    <2> SUFFICES ASSUME NEW t \in GraphJob, NEW r \in KeptIn(t)
                 PROVE  \E j \in KeptIn(t)' : old(t, j) = r
      OBVIOUS
    <2>1. CASE t # t0
      BY <2>1, <1>2, <1>3 DEF KeptIn
    <2>2. CASE t = t0 /\ r # n
      <3>1. r # k
        BY <2>2 DEF KeptIn
      <3>2. r \in KeptIn(t)'
        BY <2>2, <1>1, <1>2, <1>3 DEF KeptIn
      <3> QED
        BY <3>1, <3>2
    <2>3. CASE t = t0 /\ r = n
      <3>1. k # n
        BY <2>3 DEF KeptIn
      <3>2. k \in KeptIn(t)'
        BY <2>3, <3>1, <1>1, <1>2, <1>3 DEF KeptIn
      <3> QED
        BY <3>2, <2>3
    <2> QED
      BY <2>1, <2>2, <2>3
  <1>9. \A s \in GraphJob : Kept(s)' = Kept(s)
    BY <1>5 DEF Kept
  <1>10. ASSUME NEW s \in GraphJob, NEW t \in GraphJob, NEW i, NEW r \in KeptIn(t)',
                Linked(s, i, t, old(t, r))
         PROVE  Linked(s, i, t, r)'
    <2>1. /\ i \in Kept(s)'
          /\ r \in KeptIn(t)'
          /\ adjacency_list'[s][i].t = t
          /\ rev_adjacency_list'[t][r].s = s
      BY <1>5, <1>6, <1>9, <1>10 DEF Linked
    <2>2. Points(reverse_pointers_changed'[t], r,
                 rev_adjacency_list'[t][r].forward_index, i)
      <3>1. CASE t = t0
        <4>1. reverse_pointers_changed'[t] = <<>>
          BY <3>1, <1>1, <1>5
        <4>2. rev_adjacency_list'[t][r].forward_index = i
          BY <3>1, <1>1, <1>6, <1>10, PointsNothing DEF Linked
        <4> QED
          BY <4>1, <4>2, PointsNothing
      <3>2. CASE t # t0
        BY <3>2, <1>2, <1>5, <1>10 DEF Linked
      <3> QED
        BY <3>1, <3>2
    <2>4. forward_pointers_changed[s] \in Seq(Change)
      BY DEF GraphInv, GraphTypeOK
    <2>5. CASE t = t0 /\ r = k
      <3>1. k # n
        BY <2>1, <2>5, <1>1, <1>2 DEF KeptIn
      <3>2. e.s = s
        BY <2>1, <2>5, <1>6
      <3>6. e.forward_index = i
        BY <2>5, <1>1, <1>10, PointsNothing DEF Linked
      <3>3. forward_pointers_changed'[s] =
              Append(forward_pointers_changed[s], <<i, k>>)
        BY <3>1, <3>2, <3>6, <1>4
      <3>4. <<i, k>> \in Change
        BY <3>6, <1>4
      <3>5. Points(forward_pointers_changed'[s], i,
                   adjacency_list'[s][i].rev_index, r)
        BY <3>3, <3>4, <2>4, <2>5, PointsAppended
      <3> QED
        BY <3>5, <2>1, <2>2 DEF Linked
    <2>6. CASE ~(t = t0 /\ r = k)
      <3>1. Points(forward_pointers_changed[s], i,
                   adjacency_list'[s][i].rev_index, r)
        BY <2>6, <1>5, <1>10 DEF Linked
      <3>2. CASE s # e.s \/ k = n
        <4>1. forward_pointers_changed'[s] = forward_pointers_changed[s]
          BY <3>2, <1>4
        <4> QED
          BY <4>1, <3>1, <2>1, <2>2 DEF Linked
      <3>3. CASE s = e.s /\ k # n
        <4>1. e.forward_index # i
          <5> SUFFICES ASSUME e.forward_index = i
                       PROVE  FALSE
            OBVIOUS
          <5>1. n \in KeptIn(t0)
            BY <3>3, <1>1 DEF KeptIn
          <5>2. PICK q \in Kept(s) : Linked(s, q, t0, n)
            BY <5>1, <1>1, <3>3 DEF GraphInv, InLinked
          <5>3. q = i
            BY <1>1, <5>2, PointsNothing DEF Linked
          <5>4. t = t0
            BY <5>2, <5>3, <1>10 DEF Linked
          <5>5. r = n
            <6>1. Linked(s, i, t, r) /\ Linked(s, i, t, n)
              BY <5>2, <5>3, <5>4, <1>10, <2>6
            <6> QED
              BY <6>1, <1>1, LinkedOnce DEF GraphInv
          <5> QED
            BY <5>4, <5>5, <1>1, <1>2 DEF KeptIn
        <4>2. Points(forward_pointers_changed'[s], i,
                     adjacency_list'[s][i].rev_index, r)
          <5>1. <<e.forward_index, k>>[1] = e.forward_index
            OBVIOUS
          <5> QED
            BY <4>1, <3>1, <3>3, <1>4, <2>4, <5>1, PointsAppended
        <4> QED
          BY <4>2, <2>1, <2>2 DEF Linked
      <3> QED
        BY <3>2, <3>3
    <2> QED
      BY <2>5, <2>6
  <1>11. GraphTypeOK'
    BY <1>2, <1>3, <1>4, <1>5 DEF GraphInv, GraphTypeOK, baseLists
  <1>12. OutLinked'
    <2> SUFFICES ASSUME NEW s \in GraphJob, NEW i \in Kept(s)'
                 PROVE  (\E r \in KeptIn(adjacency_list[s][i].t) :
                           Linked(s, i, adjacency_list[s][i].t, r))'
      BY DEF OutLinked
    <2>0. i \in Kept(s) /\ adjacency_list[s][i].t \in GraphJob
      BY <1>9, Places DEF GraphInv, Kept
    <2>1. PICK t \in GraphJob : t = adjacency_list[s][i].t
      BY <2>0
    <2>2. PICK r \in KeptIn(t) : Linked(s, i, t, r)
      BY <2>0, <2>1 DEF GraphInv, OutLinked
    <2>3. PICK q \in KeptIn(t)' : old(t, q) = r
      BY <2>1, <2>2, <1>7
    <2>4. adjacency_list'[s][i].t = t
      BY <2>1, <1>5
    <2> QED
      BY <2>1, <2>2, <2>3, <2>4, <1>10
  <1>13. InLinked'
    <2> SUFFICES ASSUME NEW t \in GraphJob, NEW r \in KeptIn(t)'
                 PROVE  (\E i \in Kept(rev_adjacency_list[t][r].s) :
                           Linked(rev_adjacency_list[t][r].s, i, t, r))'
      BY DEF InLinked
    <2>0. old(t, r) \in KeptIn(t) /\ rev_adjacency_list[t][old(t, r)].s \in GraphJob
      BY <1>6, Places DEF GraphInv, KeptIn
    <2>1. PICK s \in GraphJob : s = rev_adjacency_list[t][old(t, r)].s
      BY <2>0
    <2>2. PICK i \in Kept(s) : Linked(s, i, t, old(t, r))
      BY <2>0, <2>1 DEF GraphInv, InLinked
    <2>3. rev_adjacency_list'[t][r].s = s
      BY <2>1, <1>6
    <2> QED
      BY <2>1, <2>2, <2>3, <1>9, <1>10
  <1>14. Listed' /\ ListedOnce'
    BY <1>5, <1>9 DEF GraphInv, Listed, ListedOnce
  <1>16. BucketsInRange'
    <2>1. ASSUME NEW j \in GraphJob
          PROVE  /\ forward_deletion_buckets'[j] \subseteq DOMAIN adjacency_list'[j]
                 /\ reverse_deletion_buckets'[j] \subseteq DOMAIN rev_adjacency_list'[j]
      <3>1. /\ forward_deletion_buckets[j] \subseteq DOMAIN adjacency_list[j]
            /\ reverse_deletion_buckets[j] \subseteq DOMAIN rev_adjacency_list[j]
        BY DEF GraphInv, BucketsInRange
      <3>2. CASE j = t0
        BY <3>1, <3>2, <1>1, <1>2, <1>3, <1>5
      <3> QED
        BY <3>1, <3>2, <1>2, <1>3, <1>5
    <2> QED
      BY <2>1 DEF BucketsInRange
  <1>17. Passes'
    <2>1. graphPass' = "reverse" /\ graphRow' = t0
      BY <1>5
    <2>2. forward_deletion_buckets' = Nowhere
      BY <1>5 DEF GraphInv, Passes
    <2>3. \A t \in 1 .. t0 - 1 : /\ reverse_deletion_buckets'[t] = {}
                                 /\ reverse_pointers_changed'[t] = <<>>
      <3>1. \A t \in 1 .. t0 - 1 : t \in GraphJob \ {t0}
        BY <1>1, GraphAssumption DEF GraphJob
      <3> QED
        BY <3>1, <1>3, <1>5 DEF GraphInv, Passes
    <2> QED
      BY <2>1, <2>2, <2>3, <1>1 DEF Passes
  <1>18. Base'
    BY <1>5 DEF GraphInv, Base, baseLists
  <1> QED
    BY <1>11, <1>12, <1>13, <1>14, <1>16, <1>17, <1>18 DEF GraphInv

-----------------------------------------------------------------------------
(***************************************************************************)
(* Applying changes keeps the invariant                                    *)
(***************************************************************************)

LEMMA ApplyForwardIndexKeeps ==
  ASSUME GraphInv, ApplyForwardIndex
  PROVE  GraphInv'
  <1> DEFINE t0 == graphRow
             pending == reverse_pointers_changed[t0]
             c == Head(pending)
  <1>1. /\ graphPass = "reverse"
        /\ t0 \in GraphJob
        /\ pending \in Seq(Change)
        /\ pending # <<>>
        /\ c \in Change
        /\ Tail(pending) \in Seq(Change)
        /\ c[2] \in Nat \ {0}
        /\ rev_adjacency_list[t0] \in Seq(In)
    <2>1. graphPass = "reverse" /\ pending # <<>>
      BY DEF ApplyForwardIndex
    <2>2. t0 \in GraphJob
      BY <2>1 DEF GraphInv, Passes
    <2>3. pending \in Seq(Change) /\ rev_adjacency_list[t0] \in Seq(In)
      BY <2>2, Places DEF GraphInv
    <2>4. c \in Change /\ Tail(pending) \in Seq(Change)
      <3> HIDE DEF pending
      <3> QED
        BY <2>1, <2>3, HeadTailProperties
    <2>5. c[2] \in Nat \ {0}
      BY <2>4 DEF Change
    <2> QED
      BY <2>1, <2>2, <2>3, <2>4, <2>5
  <1>2. /\ rev_adjacency_list' \in [GraphJob -> Seq(In)]
        /\ \A t \in GraphJob :
             /\ DOMAIN rev_adjacency_list'[t] = DOMAIN rev_adjacency_list[t]
             /\ \A r \in DOMAIN rev_adjacency_list[t] :
                  /\ rev_adjacency_list'[t][r].s = rev_adjacency_list[t][r].s
                  /\ rev_adjacency_list'[t][r].forward_index =
                       IF t = t0 /\ r = c[1] THEN c[2]
                       ELSE rev_adjacency_list[t][r].forward_index
    <2> DEFINE old == rev_adjacency_list[t0]
               new == [old EXCEPT ![c[1]].forward_index = c[2]]
    <2>1. rev_adjacency_list' = [rev_adjacency_list EXCEPT ![t0] = new]
      BY <1>1 DEF ApplyForwardIndex
    <2>2. rev_adjacency_list \in [GraphJob -> Seq(In)]
      BY DEF GraphInv, GraphTypeOK
    <2>3. Len(old) \in Nat /\ old \in [1 .. Len(old) -> In]
      BY <1>1, LenProperties, ElementOfSeq
    <2>4. \A e \in In : [e EXCEPT !.forward_index = c[2]] \in In
      BY <1>1 DEF In
    <2>5. new \in [1 .. Len(old) -> In]
      <3> HIDE DEF c, old
      <3> QED
        BY <2>3, <2>4
    <2>6. new \in Seq(In)
      <3> HIDE DEF new, old
      <3> QED
        BY <2>3, <2>5, SeqDef
    <2>7. \A r \in DOMAIN old :
            /\ new[r].s = old[r].s
            /\ new[r].forward_index = IF r = c[1] THEN c[2] ELSE old[r].forward_index
      <3> HIDE DEF c, old
      <3> QED
        BY <2>3, <1>1 DEF In
    <2>8. DOMAIN new = DOMAIN old
      OBVIOUS
    <2> HIDE DEF new, c
    <2> QED
      BY <2>1, <2>2, <2>6, <2>7, <2>8, <1>1
  <1>3. /\ reverse_pointers_changed' \in [GraphJob -> Seq(Change)]
        /\ reverse_pointers_changed'[t0] = Tail(pending)
        /\ \A t \in GraphJob \ {t0} :
             reverse_pointers_changed'[t] = reverse_pointers_changed[t]
    <2>1. reverse_pointers_changed \in [GraphJob -> Seq(Change)]
      BY DEF GraphInv, GraphTypeOK
    <2>2. reverse_pointers_changed' =
            [reverse_pointers_changed EXCEPT ![t0] = Tail(pending)]
      BY DEF ApplyForwardIndex
    <2> HIDE DEF pending
    <2> QED
      BY <1>1, <2>1, <2>2
  <1>4. UNCHANGED <<adjacency_list, baseLists, buckets,
                    forward_pointers_changed, graphPass, graphRow, graphEdges>>
    BY DEF ApplyForwardIndex
  <1>5. /\ \A s \in GraphJob : Kept(s)' = Kept(s)
        /\ \A t \in GraphJob : KeptIn(t)' = KeptIn(t)
    BY <1>2, <1>4 DEF Kept, KeptIn, buckets
  <1>6. ASSUME NEW s \in GraphJob, NEW t \in GraphJob, NEW i, NEW r,
               Linked(s, i, t, r)
        PROVE  Linked(s, i, t, r)'
    <2>1. /\ i \in Kept(s)'
          /\ r \in KeptIn(t)'
          /\ adjacency_list'[s][i].t = t
          /\ rev_adjacency_list'[t][r].s = s
          /\ Points(forward_pointers_changed'[s], i, adjacency_list'[s][i].rev_index, r)
      BY <1>2, <1>4, <1>5, <1>6 DEF Linked, KeptIn
    <2>2. Points(reverse_pointers_changed[t], r,
                 rev_adjacency_list[t][r].forward_index, i)
      BY <1>6 DEF Linked
    <2>3. r \in DOMAIN rev_adjacency_list[t]
      BY <1>6 DEF Linked, KeptIn
    <2>4. Points(reverse_pointers_changed'[t], r,
                 rev_adjacency_list'[t][r].forward_index, i)
      <3>1. CASE t = t0
        <4>1. Points(Tail(pending), r,
                     IF r = c[1] THEN c[2] ELSE rev_adjacency_list[t][r].forward_index, i)
          BY <2>2, <3>1, <1>1, PointsApplied
        <4>2. rev_adjacency_list'[t][r].forward_index =
                IF r = c[1] THEN c[2] ELSE rev_adjacency_list[t][r].forward_index
          BY <3>1, <1>2, <2>3
        <4> QED
          BY <4>1, <4>2, <3>1, <1>3
      <3>2. CASE t # t0
        BY <3>2, <2>2, <2>3, <1>2, <1>3
      <3> QED
        BY <3>1, <3>2
    <2> QED
      BY <2>1, <2>4 DEF Linked
  <1>11. GraphTypeOK'
    BY <1>2, <1>3, <1>4 DEF GraphInv, GraphTypeOK, baseLists, buckets
  <1>12. OutLinked'
    <2> SUFFICES ASSUME NEW s \in GraphJob, NEW i \in Kept(s)'
                 PROVE  (\E r \in KeptIn(adjacency_list[s][i].t) :
                           Linked(s, i, adjacency_list[s][i].t, r))'
      BY DEF OutLinked
    <2>0. i \in Kept(s) /\ adjacency_list[s][i].t \in GraphJob
      BY <1>5, Places DEF GraphInv, Kept
    <2>1. PICK t \in GraphJob : t = adjacency_list[s][i].t
      BY <2>0
    <2>2. PICK r \in KeptIn(t) : Linked(s, i, t, r)
      BY <2>0, <2>1 DEF GraphInv, OutLinked
    <2>3. adjacency_list'[s][i].t = t
      BY <2>1, <1>4
    <2> QED
      BY <2>1, <2>2, <2>3, <1>5, <1>6
  <1>13. InLinked'
    <2> SUFFICES ASSUME NEW t \in GraphJob, NEW r \in KeptIn(t)'
                 PROVE  (\E i \in Kept(rev_adjacency_list[t][r].s) :
                           Linked(rev_adjacency_list[t][r].s, i, t, r))'
      BY DEF InLinked
    <2>0. r \in KeptIn(t) /\ rev_adjacency_list[t][r].s \in GraphJob
      BY <1>5, Places DEF GraphInv, KeptIn
    <2>1. PICK s \in GraphJob : s = rev_adjacency_list[t][r].s
      BY <2>0
    <2>2. PICK i \in Kept(s) : Linked(s, i, t, r)
      BY <2>0, <2>1 DEF GraphInv, InLinked
    <2>3. rev_adjacency_list'[t][r].s = s
      BY <2>0, <2>1, <1>2 DEF KeptIn
    <2> QED
      BY <2>1, <2>2, <2>3, <1>5, <1>6
  <1>14. Listed' /\ ListedOnce'
    BY <1>4, <1>5 DEF GraphInv, Listed, ListedOnce
  <1>15. BucketsInRange'
    BY <1>2, <1>4 DEF GraphInv, BucketsInRange, buckets
  <1>16. Passes'
    <2>1. \A t \in 1 .. t0 - 1 : t \in GraphJob \ {t0}
      BY <1>1, GraphAssumption DEF GraphJob
    <2> QED
      BY <2>1, <1>1, <1>3, <1>4 DEF GraphInv, Passes, buckets
  <1>17. Base'
    BY <1>4 DEF GraphInv, Base, baseLists
  <1> QED
    BY <1>11, <1>12, <1>13, <1>14, <1>15, <1>16, <1>17 DEF GraphInv

LEMMA ApplyRevIndexKeeps ==
  ASSUME GraphInv, ApplyRevIndex
  PROVE  GraphInv'
  <1> DEFINE s0 == graphRow
             pending == forward_pointers_changed[s0]
             c == Head(pending)
  <1>1. /\ graphPass = "repoint"
        /\ s0 \in GraphJob
        /\ pending \in Seq(Change)
        /\ pending # <<>>
        /\ c \in Change
        /\ Tail(pending) \in Seq(Change)
        /\ c[2] \in Nat \ {0}
        /\ adjacency_list[s0] \in Seq(Out)
    <2>1. graphPass = "repoint" /\ pending # <<>>
      BY DEF ApplyRevIndex
    <2>2. s0 \in GraphJob
      BY <2>1 DEF GraphInv, Passes
    <2>3. pending \in Seq(Change) /\ adjacency_list[s0] \in Seq(Out)
      BY <2>2, Places DEF GraphInv
    <2>4. c \in Change /\ Tail(pending) \in Seq(Change)
      <3> HIDE DEF pending
      <3> QED
        BY <2>1, <2>3, HeadTailProperties
    <2>5. c[2] \in Nat \ {0}
      BY <2>4 DEF Change
    <2> QED
      BY <2>1, <2>2, <2>3, <2>4, <2>5
  <1>2. /\ adjacency_list' \in [GraphJob -> Seq(Out)]
        /\ \A s \in GraphJob :
             /\ DOMAIN adjacency_list'[s] = DOMAIN adjacency_list[s]
             /\ \A i \in DOMAIN adjacency_list[s] :
                  /\ adjacency_list'[s][i].t = adjacency_list[s][i].t
                  /\ adjacency_list'[s][i].permanent = adjacency_list[s][i].permanent
                  /\ adjacency_list'[s][i].rev_index =
                       IF s = s0 /\ i = c[1] THEN c[2]
                       ELSE adjacency_list[s][i].rev_index
    <2> DEFINE old == adjacency_list[s0]
               new == [old EXCEPT ![c[1]].rev_index = c[2]]
    <2>1. adjacency_list' = [adjacency_list EXCEPT ![s0] = new]
      BY <1>1 DEF ApplyRevIndex
    <2>2. adjacency_list \in [GraphJob -> Seq(Out)]
      BY DEF GraphInv, GraphTypeOK
    <2>3. Len(old) \in Nat /\ old \in [1 .. Len(old) -> Out]
      BY <1>1, LenProperties, ElementOfSeq
    <2>4. \A e \in Out : [e EXCEPT !.rev_index = c[2]] \in Out
      BY <1>1 DEF Out
    <2>5. new \in [1 .. Len(old) -> Out]
      <3> HIDE DEF c, old
      <3> QED
        BY <2>3, <2>4
    <2>6. new \in Seq(Out)
      <3> HIDE DEF new, old
      <3> QED
        BY <2>3, <2>5, SeqDef
    <2>7. \A i \in DOMAIN old :
            /\ new[i].t = old[i].t
            /\ new[i].permanent = old[i].permanent
            /\ new[i].rev_index = IF i = c[1] THEN c[2] ELSE old[i].rev_index
      <3> HIDE DEF c, old
      <3> QED
        BY <2>3, <1>1 DEF Out
    <2>8. DOMAIN new = DOMAIN old
      OBVIOUS
    <2> HIDE DEF new, c
    <2> QED
      BY <2>1, <2>2, <2>6, <2>7, <2>8, <1>1
  <1>3. /\ forward_pointers_changed' \in [GraphJob -> Seq(Change)]
        /\ forward_pointers_changed'[s0] = Tail(pending)
        /\ \A s \in GraphJob \ {s0} :
             forward_pointers_changed'[s] = forward_pointers_changed[s]
    <2>1. forward_pointers_changed \in [GraphJob -> Seq(Change)]
      BY DEF GraphInv, GraphTypeOK
    <2>2. forward_pointers_changed' =
            [forward_pointers_changed EXCEPT ![s0] = Tail(pending)]
      BY DEF ApplyRevIndex
    <2> HIDE DEF pending
    <2> QED
      BY <1>1, <2>1, <2>2
  <1>4. UNCHANGED <<rev_adjacency_list, baseLists, buckets,
                    reverse_pointers_changed, graphPass, graphRow, graphEdges>>
    BY DEF ApplyRevIndex
  <1>5. /\ \A s \in GraphJob : Kept(s)' = Kept(s)
        /\ \A t \in GraphJob : KeptIn(t)' = KeptIn(t)
    BY <1>2, <1>4 DEF Kept, KeptIn, buckets
  <1>6. ASSUME NEW s \in GraphJob, NEW t \in GraphJob, NEW i, NEW r,
               Linked(s, i, t, r)
        PROVE  Linked(s, i, t, r)'
    <2>1. /\ i \in Kept(s)'
          /\ r \in KeptIn(t)'
          /\ adjacency_list'[s][i].t = t
          /\ rev_adjacency_list'[t][r].s = s
          /\ Points(reverse_pointers_changed'[t], r,
                    rev_adjacency_list'[t][r].forward_index, i)
      BY <1>2, <1>4, <1>5, <1>6 DEF Linked, Kept
    <2>2. Points(forward_pointers_changed[s], i, adjacency_list[s][i].rev_index, r)
      BY <1>6 DEF Linked
    <2>3. i \in DOMAIN adjacency_list[s]
      BY <1>6 DEF Linked, Kept
    <2>4. Points(forward_pointers_changed'[s], i, adjacency_list'[s][i].rev_index, r)
      <3>1. CASE s = s0
        <4>1. Points(Tail(pending), i,
                     IF i = c[1] THEN c[2] ELSE adjacency_list[s][i].rev_index, r)
          BY <2>2, <3>1, <1>1, PointsApplied
        <4>2. adjacency_list'[s][i].rev_index =
                IF i = c[1] THEN c[2] ELSE adjacency_list[s][i].rev_index
          BY <3>1, <1>2, <2>3
        <4> QED
          BY <4>1, <4>2, <3>1, <1>3
      <3>2. CASE s # s0
        BY <3>2, <2>2, <2>3, <1>2, <1>3
      <3> QED
        BY <3>1, <3>2
    <2> QED
      BY <2>1, <2>4 DEF Linked
  <1>11. GraphTypeOK'
    BY <1>2, <1>3, <1>4 DEF GraphInv, GraphTypeOK, baseLists, buckets
  <1>12. OutLinked'
    <2> SUFFICES ASSUME NEW s \in GraphJob, NEW i \in Kept(s)'
                 PROVE  (\E r \in KeptIn(adjacency_list[s][i].t) :
                           Linked(s, i, adjacency_list[s][i].t, r))'
      BY DEF OutLinked
    <2>0. i \in Kept(s) /\ adjacency_list[s][i].t \in GraphJob
      BY <1>5, Places DEF GraphInv, Kept
    <2>1. PICK t \in GraphJob : t = adjacency_list[s][i].t
      BY <2>0
    <2>2. PICK r \in KeptIn(t) : Linked(s, i, t, r)
      BY <2>0, <2>1 DEF GraphInv, OutLinked
    <2>3. adjacency_list'[s][i].t = t
      BY <2>0, <2>1, <1>2 DEF Kept
    <2> QED
      BY <2>1, <2>2, <2>3, <1>5, <1>6
  <1>13. InLinked'
    <2> SUFFICES ASSUME NEW t \in GraphJob, NEW r \in KeptIn(t)'
                 PROVE  (\E i \in Kept(rev_adjacency_list[t][r].s) :
                           Linked(rev_adjacency_list[t][r].s, i, t, r))'
      BY DEF InLinked
    <2>0. r \in KeptIn(t) /\ rev_adjacency_list[t][r].s \in GraphJob
      BY <1>5, Places DEF GraphInv, KeptIn
    <2>1. PICK s \in GraphJob : s = rev_adjacency_list[t][r].s
      BY <2>0
    <2>2. PICK i \in Kept(s) : Linked(s, i, t, r)
      BY <2>0, <2>1 DEF GraphInv, InLinked
    <2>3. rev_adjacency_list'[t][r].s = s
      BY <2>1, <1>4
    <2> QED
      BY <2>1, <2>2, <2>3, <1>5, <1>6
  <1>14. Listed'
    <2> SUFFICES ASSUME NEW s \in GraphJob, NEW t \in GraphJob, NEW permanent \in BOOLEAN
                 PROVE  (<<s, t, permanent>> \in graphEdges <=>
                           \E i \in Kept(s) :
                             /\ adjacency_list[s][i].t = t
                             /\ adjacency_list[s][i].permanent = permanent)'
      BY DEF Listed
    <2>1. <<s, t, permanent>> \in graphEdges <=>
            \E i \in Kept(s) : /\ adjacency_list[s][i].t = t
                               /\ adjacency_list[s][i].permanent = permanent
      BY DEF GraphInv, Listed
    <2>2. /\ Kept(s)' = Kept(s)
          /\ graphEdges' = graphEdges
          /\ \A i \in Kept(s) :
               /\ adjacency_list'[s][i].t = adjacency_list[s][i].t
               /\ adjacency_list'[s][i].permanent = adjacency_list[s][i].permanent
      <3>1. \A i \in Kept(s) : i \in DOMAIN adjacency_list[s]
        BY DEF Kept
      <3> QED
        BY <3>1, <1>2, <1>4, <1>5
    <2> QED
      BY <2>1, <2>2, Zenon
  <1>15. ListedOnce'
    BY <1>2, <1>5 DEF GraphInv, ListedOnce, Kept
  <1>16. BucketsInRange'
    BY <1>2, <1>4 DEF GraphInv, BucketsInRange, buckets
  <1>17. Passes'
    <2>1. \A s \in 1 .. s0 - 1 : s \in GraphJob \ {s0}
      BY <1>1, GraphAssumption DEF GraphJob
    <2> QED
      BY <2>1, <1>1, <1>3, <1>4 DEF GraphInv, Passes, buckets
  <1>18. Base'
    BY <1>4 DEF GraphInv, Base, baseLists
  <1> QED
    BY <1>11, <1>12, <1>13, <1>14, <1>15, <1>16, <1>17, <1>18 DEF GraphInv

-----------------------------------------------------------------------------
(***************************************************************************)
(* The remaining steps                                                     *)
(***************************************************************************)

\* Steps that only go to the next row or the next pass.
LEMMA RowDoneKeeps ==
  ASSUME GraphInv, ForwardRowDone \/ ReverseRowDone \/ RepointRowDone
  PROVE  GraphInv'
  <1>1. UNCHANGED <<lists, baseLists, buckets, changes, graphEdges>>
    BY DEF ForwardRowDone, ReverseRowDone, RepointRowDone
  <1>2. GraphTypeOK'
    <2>1. /\ graphRow' \in Nat
          /\ graphPass' \in {"forward", "reverse", "repoint", "search"}
      BY GraphAssumption
         DEF GraphInv, GraphTypeOK, ForwardRowDone, ReverseRowDone, RepointRowDone, NextRow
    <2> QED
      BY <2>1, <1>1 DEF GraphInv, GraphTypeOK, lists, baseLists, buckets, changes
  <1>3. OutLinked' /\ InLinked' /\ Listed' /\ ListedOnce' /\ BucketsInRange'
    BY <1>1
       DEF GraphInv, lists, buckets, changes, OutLinked, InLinked, Linked, Kept, KeptIn,
           Listed, ListedOnce, BucketsInRange
  <1>4. Base'
    BY <1>1
       DEF GraphInv, baseLists, Base, ForwardRowDone, ReverseRowDone, RepointRowDone,
           NextRow
  <1>5. graphRow \in GraphJob
    BY DEF GraphInv, Passes, ForwardRowDone, ReverseRowDone, RepointRowDone
  <1>6. /\ forward_deletion_buckets' = forward_deletion_buckets
        /\ reverse_deletion_buckets' = reverse_deletion_buckets
        /\ forward_pointers_changed' = forward_pointers_changed
        /\ reverse_pointers_changed' = reverse_pointers_changed
    BY <1>1 DEF buckets, changes
  <1>7. /\ graphRow < GraphJobs =>
             /\ graphRow + 1 \in GraphJob
             /\ \A j \in 1 .. graphRow : j \in 1 .. graphRow - 1 \/ j = graphRow
        /\ ~(graphRow < GraphJobs) =>
             \A j \in GraphJob : j \in 1 .. graphRow - 1 \/ j = graphRow
        /\ 1 \in GraphJob
        /\ \A j \in 1 .. 1 - 1 : FALSE
    BY <1>5, GraphAssumption DEF GraphJob
  <1>8. ASSUME ForwardRowDone
        PROVE  Passes'
    <2>1. graphPass = "forward" /\ forward_deletion_buckets[graphRow] = {}
      BY <1>8 DEF ForwardRowDone
    <2>2. \A s \in 1 .. graphRow - 1 : forward_deletion_buckets[s] = {}
      BY <2>1 DEF GraphInv, Passes
    <2>3. CASE graphRow < GraphJobs
      <3>1. graphPass' = "forward" /\ graphRow' = graphRow + 1
        BY <1>8, <2>3 DEF ForwardRowDone, NextRow
      <3>0. graphRow' - 1 = graphRow
        BY <3>1, <1>5 DEF GraphJob
      <3>2. \A s \in 1 .. graphRow : forward_deletion_buckets[s] = {}
        BY <2>1, <2>2, <2>3, <1>7
      <3>3. \A s \in 1 .. graphRow' - 1 : forward_deletion_buckets'[s] = {}
        BY <3>0, <3>2, <1>6
      <3>4. forward_pointers_changed' = Nothing /\ graphRow' \in GraphJob
        BY <3>1, <2>1, <2>3, <1>6, <1>7 DEF GraphInv, Passes
      <3> QED
        BY <3>1, <3>3, <3>4 DEF Passes
    <2>4. CASE ~(graphRow < GraphJobs)
      <3>1. graphPass' = "reverse" /\ graphRow' = 1
        BY <1>8, <2>4 DEF ForwardRowDone, NextRow
      <3>2. forward_deletion_buckets = Nowhere
        <4>1. \A s \in GraphJob : forward_deletion_buckets[s] = {}
          BY <2>1, <2>2, <2>4, <1>7
        <4> QED
          BY <4>1 DEF GraphInv, GraphTypeOK, Nowhere
      <3> QED
        BY <3>1, <3>2, <1>6, <1>7 DEF Passes
    <2> QED
      BY <2>3, <2>4
  <1>9. ASSUME ReverseRowDone
        PROVE  Passes'
    <2>1. /\ graphPass = "reverse"
          /\ reverse_deletion_buckets[graphRow] = {}
          /\ reverse_pointers_changed[graphRow] = <<>>
      BY <1>9 DEF ReverseRowDone
    <2>2. /\ forward_deletion_buckets = Nowhere
          /\ \A t \in 1 .. graphRow - 1 : /\ reverse_deletion_buckets[t] = {}
                                          /\ reverse_pointers_changed[t] = <<>>
      BY <2>1 DEF GraphInv, Passes
    <2>3. CASE graphRow < GraphJobs
      <3>1. graphPass' = "reverse" /\ graphRow' = graphRow + 1
        BY <1>9, <2>3 DEF ReverseRowDone, NextRow
      <3>0. graphRow' - 1 = graphRow
        BY <3>1, <1>5 DEF GraphJob
      <3>2. \A t \in 1 .. graphRow : /\ reverse_deletion_buckets[t] = {}
                                             /\ reverse_pointers_changed[t] = <<>>
        BY <2>1, <2>2, <2>3, <1>7
      <3>3. \A t \in 1 .. graphRow' - 1 : /\ reverse_deletion_buckets'[t] = {}
                                          /\ reverse_pointers_changed'[t] = <<>>
        BY <3>0, <3>2, <1>6
      <3>4. forward_deletion_buckets' = Nowhere /\ graphRow' \in GraphJob
        BY <3>1, <2>2, <2>3, <1>6, <1>7
      <3> QED
        BY <3>1, <3>3, <3>4 DEF Passes
    <2>4. CASE ~(graphRow < GraphJobs)
      <3>1. graphPass' = "repoint" /\ graphRow' = 1
        BY <1>9, <2>4 DEF ReverseRowDone, NextRow
      <3>2. reverse_deletion_buckets = Nowhere /\ reverse_pointers_changed = Nothing
        <4>1. \A t \in GraphJob : /\ reverse_deletion_buckets[t] = {}
                                  /\ reverse_pointers_changed[t] = <<>>
          BY <2>1, <2>2, <2>4, <1>7
        <4> QED
          BY <4>1 DEF GraphInv, GraphTypeOK, Nowhere, Nothing
      <3> QED
        BY <3>1, <3>2, <2>2, <1>6, <1>7 DEF Passes
    <2> QED
      BY <2>3, <2>4
  <1>10. ASSUME RepointRowDone
         PROVE  Passes'
    <2>1. graphPass = "repoint" /\ forward_pointers_changed[graphRow] = <<>>
      BY <1>10 DEF RepointRowDone
    <2>2. /\ forward_deletion_buckets = Nowhere
          /\ reverse_deletion_buckets = Nowhere
          /\ reverse_pointers_changed = Nothing
          /\ \A s \in 1 .. graphRow - 1 : forward_pointers_changed[s] = <<>>
      BY <2>1 DEF GraphInv, Passes
    <2>3. CASE graphRow < GraphJobs
      <3>1. graphPass' = "repoint" /\ graphRow' = graphRow + 1
        BY <1>10, <2>3 DEF RepointRowDone, NextRow
      <3>0. graphRow' - 1 = graphRow
        BY <3>1, <1>5 DEF GraphJob
      <3>2. \A s \in 1 .. graphRow : forward_pointers_changed[s] = <<>>
        BY <2>1, <2>2, <2>3, <1>7
      <3>3. \A s \in 1 .. graphRow' - 1 : forward_pointers_changed'[s] = <<>>
        BY <3>0, <3>2, <1>6
      <3>4. /\ forward_deletion_buckets' = Nowhere
            /\ reverse_deletion_buckets' = Nowhere
            /\ reverse_pointers_changed' = Nothing
            /\ graphRow' \in GraphJob
        BY <3>1, <2>2, <2>3, <1>6, <1>7
      <3> QED
        BY <3>1, <3>3, <3>4 DEF Passes
    <2>4. CASE ~(graphRow < GraphJobs)
      <3>1. graphPass' = "search" /\ graphRow' = 1
        BY <1>10, <2>4 DEF RepointRowDone, NextRow
      <3>2. forward_pointers_changed = Nothing
        <4>1. \A s \in GraphJob : forward_pointers_changed[s] = <<>>
          BY <2>1, <2>2, <2>4, <1>7
        <4> QED
          BY <4>1 DEF GraphInv, GraphTypeOK, Nothing
      <3> QED
        BY <3>1, <3>2, <2>2, <1>6 DEF Passes
    <2> QED
      BY <2>3, <2>4
  <1> QED
    BY <1>2, <1>3, <1>4, <1>8, <1>9, <1>10 DEF GraphInv

Quiet == graphPass \in {"initialize", "search"}

\* Outside of bulk_delete() nothing is pending, and the indices stored are
\* right.
LEMMA QuietLists ==
  ASSUME GraphInv, Quiet
  PROVE  /\ Mutual(adjacency_list, rev_adjacency_list)
         /\ Hold(adjacency_list, graphEdges)
         /\ \A j \in GraphJob : /\ Kept(j) = DOMAIN adjacency_list[j]
                                /\ KeptIn(j) = DOMAIN rev_adjacency_list[j]
  <1>1. /\ forward_deletion_buckets = Nowhere
        /\ reverse_deletion_buckets = Nowhere
        /\ forward_pointers_changed = Nothing
        /\ reverse_pointers_changed = Nothing
    BY DEF GraphInv, Passes, Quiet
  <1>2. \A j \in GraphJob : /\ Kept(j) = DOMAIN adjacency_list[j]
                            /\ KeptIn(j) = DOMAIN rev_adjacency_list[j]
                            /\ forward_pointers_changed[j] = <<>>
                            /\ reverse_pointers_changed[j] = <<>>
    BY <1>1 DEF Kept, KeptIn, Nowhere, Nothing
  <1>3. ASSUME NEW s \in GraphJob, NEW t \in GraphJob, NEW i, NEW r, Linked(s, i, t, r)
        PROVE  /\ adjacency_list[s][i].rev_index = r
               /\ i \in DOMAIN adjacency_list[s]
               /\ r \in DOMAIN rev_adjacency_list[t]
               /\ rev_adjacency_list[t][r] = [s |-> s, forward_index |-> i]
               /\ adjacency_list[s][i].t = t
    <2>1. /\ adjacency_list[s][i].rev_index = r
          /\ rev_adjacency_list[t][r].forward_index = i
      BY <1>2, <1>3, PointsNothing DEF Linked
    <2>2. r \in DOMAIN rev_adjacency_list[t] /\ i \in DOMAIN adjacency_list[s]
      BY <1>2, <1>3 DEF Linked
    <2>3. rev_adjacency_list[t][r] \in In
      BY <2>2, Places DEF GraphInv
    <2> QED
      BY <2>1, <2>2, <2>3, <1>3 DEF Linked, In
  <1>4. ASSUME NEW s \in GraphJob, NEW i \in DOMAIN adjacency_list[s]
        PROVE  /\ adjacency_list[s][i].rev_index \in
                    DOMAIN rev_adjacency_list[adjacency_list[s][i].t]
               /\ rev_adjacency_list[adjacency_list[s][i].t]
                    [adjacency_list[s][i].rev_index] = [s |-> s, forward_index |-> i]
    <2>1. adjacency_list[s][i].t \in GraphJob
      BY Places DEF GraphInv
    <2>2. PICK r : Linked(s, i, adjacency_list[s][i].t, r)
      BY <1>2 DEF GraphInv, OutLinked
    <2> QED
      BY <2>1, <2>2, <1>3
  <1>5. ASSUME NEW t \in GraphJob, NEW r \in DOMAIN rev_adjacency_list[t]
        PROVE  /\ rev_adjacency_list[t][r].forward_index \in
                    DOMAIN adjacency_list[rev_adjacency_list[t][r].s]
               /\ adjacency_list[rev_adjacency_list[t][r].s]
                    [rev_adjacency_list[t][r].forward_index].t = t
               /\ adjacency_list[rev_adjacency_list[t][r].s]
                    [rev_adjacency_list[t][r].forward_index].rev_index = r
    <2>1. rev_adjacency_list[t][r].s \in GraphJob
      BY Places DEF GraphInv
    <2>2. PICK s \in GraphJob : s = rev_adjacency_list[t][r].s
      BY <2>1
    <2>3. PICK i : Linked(s, i, t, r)
      BY <2>2, <1>2 DEF GraphInv, InLinked
    <2>4. /\ rev_adjacency_list[t][r] = [s |-> s, forward_index |-> i]
          /\ i \in DOMAIN adjacency_list[s]
          /\ adjacency_list[s][i].t = t
          /\ adjacency_list[s][i].rev_index = r
      BY <2>2, <2>3, <1>3
    <2>5. rev_adjacency_list[t][r].forward_index = i
      BY <2>4
    <2> QED
      BY <2>2, <2>4, <2>5
  <1>6. Hold(adjacency_list, graphEdges)
    BY <1>2 DEF GraphInv, Listed, ListedOnce, Hold
  <1> QED
    BY <1>2, <1>4, <1>5, <1>6 DEF Mutual

\* Conversely, lists with these properties satisfy the invariant when nothing
\* is pending.
LEMMA QuietAgain ==
  ASSUME GraphTypeOK',
         Mutual(adjacency_list', rev_adjacency_list'),
         Hold(adjacency_list', graphEdges'),
         forward_deletion_buckets' = Nowhere,
         reverse_deletion_buckets' = Nowhere,
         forward_pointers_changed' = Nothing,
         reverse_pointers_changed' = Nothing,
         graphPass' \in {"initialize", "search"},
         Base'
  PROVE  GraphInv'
  <1>1. \A j \in GraphJob : /\ Kept(j)' = DOMAIN adjacency_list'[j]
                            /\ KeptIn(j)' = DOMAIN rev_adjacency_list'[j]
                            /\ forward_pointers_changed'[j] = <<>>
                            /\ reverse_pointers_changed'[j] = <<>>
    BY DEF Kept, KeptIn, Nowhere, Nothing
  <1>2. \A s \in GraphJob : \A i \in DOMAIN adjacency_list'[s] :
          adjacency_list'[s][i].t \in GraphJob
    <2> SUFFICES ASSUME NEW s \in GraphJob, NEW i \in DOMAIN adjacency_list'[s]
                 PROVE  adjacency_list'[s][i].t \in GraphJob
      OBVIOUS
    <2>1. adjacency_list'[s] \in Seq(Out)
      BY DEF GraphTypeOK
    <2>2. adjacency_list'[s][i] \in Out
      BY <2>1, LenProperties, ElementOfSeq
    <2> QED
      BY <2>2 DEF Out
  <1>3. \A t \in GraphJob : \A r \in DOMAIN rev_adjacency_list'[t] :
          rev_adjacency_list'[t][r].s \in GraphJob
    <2> SUFFICES ASSUME NEW t \in GraphJob, NEW r \in DOMAIN rev_adjacency_list'[t]
                 PROVE  rev_adjacency_list'[t][r].s \in GraphJob
      OBVIOUS
    <2>1. rev_adjacency_list'[t] \in Seq(In)
      BY DEF GraphTypeOK
    <2>2. rev_adjacency_list'[t][r] \in In
      BY <2>1, LenProperties, ElementOfSeq
    <2> QED
      BY <2>2 DEF In
  <1>4. ASSUME NEW s \in GraphJob, NEW t \in GraphJob,
               NEW i \in DOMAIN adjacency_list'[s], NEW r \in DOMAIN rev_adjacency_list'[t],
               adjacency_list'[s][i].t = t,
               rev_adjacency_list'[t][r].s = s,
               adjacency_list'[s][i].rev_index = r,
               rev_adjacency_list'[t][r].forward_index = i
        PROVE  Linked(s, i, t, r)'
    <2>1. /\ Points(forward_pointers_changed'[s], i, adjacency_list'[s][i].rev_index, r)
          /\ Points(reverse_pointers_changed'[t], r,
                    rev_adjacency_list'[t][r].forward_index, i)
      BY <1>1, <1>4, PointsNothing
    <2> QED
      BY <2>1, <1>1, <1>4 DEF Linked
  <1>5. OutLinked'
    <2> SUFFICES ASSUME NEW s \in GraphJob, NEW i \in Kept(s)'
                 PROVE  (\E r \in KeptIn(adjacency_list[s][i].t) :
                           Linked(s, i, adjacency_list[s][i].t, r))'
      BY DEF OutLinked
    <2>1. i \in DOMAIN adjacency_list'[s]
      BY <1>1
    <2>2. PICK t \in GraphJob : t = adjacency_list'[s][i].t
      BY <2>1, <1>2
    <2>3. PICK r \in DOMAIN rev_adjacency_list'[t] :
            /\ r = adjacency_list'[s][i].rev_index
            /\ rev_adjacency_list'[t][r] = [s |-> s, forward_index |-> i]
      BY <2>1, <2>2 DEF Mutual
    <2>4. Linked(s, i, t, r)'
      BY <2>1, <2>2, <2>3, <1>4
    <2> QED
      BY <2>2, <2>3, <2>4, <1>1
  <1>6. InLinked'
    <2> SUFFICES ASSUME NEW t \in GraphJob, NEW r \in KeptIn(t)'
                 PROVE  (\E i \in Kept(rev_adjacency_list[t][r].s) :
                           Linked(rev_adjacency_list[t][r].s, i, t, r))'
      BY DEF InLinked
    <2>1. r \in DOMAIN rev_adjacency_list'[t]
      BY <1>1
    <2>2. PICK s \in GraphJob : s = rev_adjacency_list'[t][r].s
      BY <2>1, <1>3
    <2>3. PICK i \in DOMAIN adjacency_list'[s] :
            /\ i = rev_adjacency_list'[t][r].forward_index
            /\ adjacency_list'[s][i].t = t
            /\ adjacency_list'[s][i].rev_index = r
      BY <2>1, <2>2 DEF Mutual
    <2>4. Linked(s, i, t, r)'
      BY <2>1, <2>2, <2>3, <1>4
    <2> QED
      BY <2>2, <2>3, <2>4, <1>1
  <1>7. Listed' /\ ListedOnce'
    <2>1. Listed'
      <3> SUFFICES ASSUME NEW s \in GraphJob, NEW t \in GraphJob, NEW permanent \in BOOLEAN
                   PROVE  (<<s, t, permanent>> \in graphEdges <=>
                             \E i \in Kept(s) :
                               /\ adjacency_list[s][i].t = t
                               /\ adjacency_list[s][i].permanent = permanent)'
        BY DEF Listed
      <3> QED
        BY <1>1 DEF Hold
    <2>2. ListedOnce'
      BY <1>1 DEF Hold, ListedOnce
    <2> QED
      BY <2>1, <2>2
  <1>8. BucketsInRange'
    BY DEF BucketsInRange, Nowhere
  <1>9. Passes'
    BY DEF Passes
  <1> QED
    BY <1>5, <1>6, <1>7, <1>8, <1>9 DEF GraphInv

\* graph_insert_edge() keeps the lists right.
LEMMA InsertEdgeKeeps ==
  ASSUME GraphInv, Quiet, NEW s \in GraphJob, NEW t \in GraphJob, NEW permanent \in BOOLEAN,
         \A p \in BOOLEAN : <<s, t, p>> \notin graphEdges,
         InsertEdge(s, t, permanent)
  PROVE  /\ adjacency_list' \in [GraphJob -> Seq(Out)]
         /\ rev_adjacency_list' \in [GraphJob -> Seq(In)]
         /\ Mutual(adjacency_list', rev_adjacency_list')
         /\ Hold(adjacency_list', graphEdges')
  <1> DEFINE n == Len(adjacency_list[s]) + 1
             m == Len(rev_adjacency_list[t]) + 1
             e == [t |-> t, rev_index |-> m, permanent |-> permanent]
             f == [s |-> s, forward_index |-> n]
  <1>1. /\ Mutual(adjacency_list, rev_adjacency_list)
        /\ Hold(adjacency_list, graphEdges)
    BY QuietLists
  <1>2. /\ \A j \in GraphJob : /\ Len(adjacency_list[j]) \in Nat
                               /\ DOMAIN adjacency_list[j] = 1 .. Len(adjacency_list[j])
                               /\ Len(rev_adjacency_list[j]) \in Nat
                               /\ DOMAIN rev_adjacency_list[j] = 1 .. Len(rev_adjacency_list[j])
        /\ \A j \in GraphJob : /\ \A i \in DOMAIN adjacency_list[j] :
                                    adjacency_list[j][i].t \in GraphJob
                               /\ \A r \in DOMAIN rev_adjacency_list[j] :
                                    rev_adjacency_list[j][r].s \in GraphJob
    BY Places DEF GraphInv
  <1>3. /\ n \in Nat \ {0} /\ m \in Nat \ {0}
        /\ e \in Out /\ f \in In
        /\ n \notin DOMAIN adjacency_list[s]
        /\ m \notin DOMAIN rev_adjacency_list[t]
    BY <1>2 DEF Out, In
  <1>4. /\ adjacency_list' \in [GraphJob -> Seq(Out)]
        /\ DOMAIN adjacency_list'[s] = DOMAIN adjacency_list[s] \cup {n}
        /\ adjacency_list'[s][n] = e
        /\ \A i \in DOMAIN adjacency_list[s] : adjacency_list'[s][i] = adjacency_list[s][i]
        /\ \A j \in GraphJob \ {s} : adjacency_list'[j] = adjacency_list[j]
    <2>1. adjacency_list' = [adjacency_list EXCEPT ![s] = Append(adjacency_list[s], e)]
      BY DEF InsertEdge
    <2>2. adjacency_list \in [GraphJob -> Seq(Out)] /\ adjacency_list[s] \in Seq(Out)
      BY DEF GraphInv, GraphTypeOK
    <2>3. /\ Append(adjacency_list[s], e) \in Seq(Out)
          /\ DOMAIN Append(adjacency_list[s], e) = 1 .. Len(adjacency_list[s]) + 1
          /\ \A i \in 1 .. Len(adjacency_list[s]) :
               Append(adjacency_list[s], e)[i] = adjacency_list[s][i]
          /\ Append(adjacency_list[s], e)[Len(adjacency_list[s]) + 1] = e
      <3> HIDE DEF e
      <3>1. /\ Append(adjacency_list[s], e) \in Seq(Out)
            /\ Len(Append(adjacency_list[s], e)) = Len(adjacency_list[s]) + 1
            /\ \A i \in 1 .. Len(adjacency_list[s]) :
                 Append(adjacency_list[s], e)[i] = adjacency_list[s][i]
            /\ Append(adjacency_list[s], e)[Len(adjacency_list[s]) + 1] = e
        BY <2>2, <1>3, AppendProperties
      <3>2. DOMAIN Append(adjacency_list[s], e) = 1 .. Len(Append(adjacency_list[s], e))
        BY <3>1, LenProperties
      <3> QED
        BY <3>1, <3>2
    <2>4. DOMAIN adjacency_list[s] = 1 .. Len(adjacency_list[s]) /\ Len(adjacency_list[s]) \in Nat
      BY <1>2
    <2>5. 1 .. Len(adjacency_list[s]) + 1 = DOMAIN adjacency_list[s] \cup {n}
      BY <2>4
    <2> HIDE DEF e
    <2> QED
      BY <2>1, <2>2, <2>3, <2>4, <2>5
  <1>5. /\ rev_adjacency_list' \in [GraphJob -> Seq(In)]
        /\ DOMAIN rev_adjacency_list'[t] = DOMAIN rev_adjacency_list[t] \cup {m}
        /\ rev_adjacency_list'[t][m] = f
        /\ \A r \in DOMAIN rev_adjacency_list[t] :
             rev_adjacency_list'[t][r] = rev_adjacency_list[t][r]
        /\ \A j \in GraphJob \ {t} : rev_adjacency_list'[j] = rev_adjacency_list[j]
    <2>1. rev_adjacency_list' = [rev_adjacency_list EXCEPT ![t] = Append(rev_adjacency_list[t], f)]
      BY DEF InsertEdge
    <2>2. rev_adjacency_list \in [GraphJob -> Seq(In)] /\ rev_adjacency_list[t] \in Seq(In)
      BY DEF GraphInv, GraphTypeOK
    <2>3. /\ Append(rev_adjacency_list[t], f) \in Seq(In)
          /\ DOMAIN Append(rev_adjacency_list[t], f) = 1 .. Len(rev_adjacency_list[t]) + 1
          /\ \A i \in 1 .. Len(rev_adjacency_list[t]) :
               Append(rev_adjacency_list[t], f)[i] = rev_adjacency_list[t][i]
          /\ Append(rev_adjacency_list[t], f)[Len(rev_adjacency_list[t]) + 1] = f
      <3> HIDE DEF f
      <3>1. /\ Append(rev_adjacency_list[t], f) \in Seq(In)
            /\ Len(Append(rev_adjacency_list[t], f)) = Len(rev_adjacency_list[t]) + 1
            /\ \A i \in 1 .. Len(rev_adjacency_list[t]) :
                 Append(rev_adjacency_list[t], f)[i] = rev_adjacency_list[t][i]
            /\ Append(rev_adjacency_list[t], f)[Len(rev_adjacency_list[t]) + 1] = f
        BY <2>2, <1>3, AppendProperties
      <3>2. DOMAIN Append(rev_adjacency_list[t], f) = 1 .. Len(Append(rev_adjacency_list[t], f))
        BY <3>1, LenProperties
      <3> QED
        BY <3>1, <3>2
    <2>4. /\ DOMAIN rev_adjacency_list[t] = 1 .. Len(rev_adjacency_list[t])
          /\ Len(rev_adjacency_list[t]) \in Nat
      BY <1>2
    <2>5. 1 .. Len(rev_adjacency_list[t]) + 1 = DOMAIN rev_adjacency_list[t] \cup {m}
      BY <2>4
    <2> HIDE DEF f
    <2> QED
      BY <2>1, <2>2, <2>3, <2>4, <2>5
  <1>6. /\ e.t = t /\ e.rev_index = m /\ e.permanent = permanent
        /\ f.s = s /\ f.forward_index = n
    OBVIOUS
  <1>7. f = [s |-> s, forward_index |-> n]
    OBVIOUS
  <1>8. graphEdges' = graphEdges \cup {<<s, t, permanent>>}
    BY DEF InsertEdge
  <1> HIDE DEF e, f, n, m
  <1>9. \A j \in GraphJob : \A i \in DOMAIN adjacency_list'[j] :
          \/ j = s /\ i = n
          \/ i \in DOMAIN adjacency_list[j] /\ adjacency_list'[j][i] = adjacency_list[j][i]
    BY <1>4
  <1>10. \A j \in GraphJob : \A r \in DOMAIN rev_adjacency_list'[j] :
           \/ j = t /\ r = m
           \/ r \in DOMAIN rev_adjacency_list[j] /\ rev_adjacency_list'[j][r] = rev_adjacency_list[j][r]
    BY <1>5
  <1>11. \A j \in GraphJob : \A i \in DOMAIN adjacency_list[j] :
           i \in DOMAIN adjacency_list'[j] /\ adjacency_list'[j][i] = adjacency_list[j][i]
    BY <1>4
  <1>12. \A j \in GraphJob : \A r \in DOMAIN rev_adjacency_list[j] :
           r \in DOMAIN rev_adjacency_list'[j] /\ rev_adjacency_list'[j][r] = rev_adjacency_list[j][r]
    BY <1>5
  <1>13. Mutual(adjacency_list', rev_adjacency_list')
    <2>1. ASSUME NEW j \in GraphJob, NEW i \in DOMAIN adjacency_list'[j]
          PROVE  /\ adjacency_list'[j][i].rev_index \in
                      DOMAIN rev_adjacency_list'[adjacency_list'[j][i].t]
                 /\ rev_adjacency_list'[adjacency_list'[j][i].t][adjacency_list'[j][i].rev_index]
                      = [s |-> j, forward_index |-> i]
      <3>1. CASE j = s /\ i = n
        BY <3>1, <1>4, <1>5, <1>6, <1>7
      <3>2. CASE /\ i \in DOMAIN adjacency_list[j]
                 /\ adjacency_list'[j][i] = adjacency_list[j][i]
        BY <3>2, <1>1, <1>2, <1>12 DEF Mutual
      <3> QED
        BY <3>1, <3>2, <1>9
    <2>2. ASSUME NEW j \in GraphJob, NEW r \in DOMAIN rev_adjacency_list'[j]
          PROVE  /\ rev_adjacency_list'[j][r].forward_index \in
                      DOMAIN adjacency_list'[rev_adjacency_list'[j][r].s]
                 /\ adjacency_list'[rev_adjacency_list'[j][r].s]
                      [rev_adjacency_list'[j][r].forward_index].t = j
                 /\ adjacency_list'[rev_adjacency_list'[j][r].s]
                      [rev_adjacency_list'[j][r].forward_index].rev_index = r
      <3>1. CASE j = t /\ r = m
        BY <3>1, <1>4, <1>5, <1>6
      <3>2. CASE /\ r \in DOMAIN rev_adjacency_list[j]
                 /\ rev_adjacency_list'[j][r] = rev_adjacency_list[j][r]
        BY <3>2, <1>1, <1>2, <1>11 DEF Mutual
      <3> QED
        BY <3>1, <3>2, <1>10
    <2> QED
      BY <2>1, <2>2 DEF Mutual
  <1>14. Hold(adjacency_list', graphEdges')
    <2>1. \A i \in DOMAIN adjacency_list[s] : adjacency_list[s][i].t # t
      <3>1. \A i \in DOMAIN adjacency_list[s] : adjacency_list[s][i].permanent \in BOOLEAN
        BY Places DEF GraphInv
      <3> QED
        BY <3>1, <1>1 DEF Hold
    <2>2. ASSUME NEW j \in GraphJob, NEW k \in GraphJob, NEW p \in BOOLEAN
          PROVE  <<j, k, p>> \in graphEdges' <=>
                   \E i \in DOMAIN adjacency_list'[j] :
                     adjacency_list'[j][i].t = k /\ adjacency_list'[j][i].permanent = p
      <3>1. <<j, k, p>> \in graphEdges <=>
              \E i \in DOMAIN adjacency_list[j] :
                adjacency_list[j][i].t = k /\ adjacency_list[j][i].permanent = p
        BY <1>1 DEF Hold
      <3>2. CASE <<j, k, p>> = <<s, t, permanent>>
        BY <3>2, <1>4, <1>6, <1>8
      <3>3. CASE <<j, k, p>> # <<s, t, permanent>>
        <4>1. <<j, k, p>> \in graphEdges' <=> <<j, k, p>> \in graphEdges
          BY <3>3, <1>8
        <4>2. ~(j = s /\ k = t /\ p = permanent)
          BY <3>3
        <4> QED
          BY <4>1, <4>2, <3>1, <1>4, <1>6, <1>9, <1>11
      <3> QED
        BY <3>2, <3>3
    <2>3. ASSUME NEW j \in GraphJob,
                 NEW i \in DOMAIN adjacency_list'[j], NEW h \in DOMAIN adjacency_list'[j],
                 adjacency_list'[j][i].t = adjacency_list'[j][h].t
          PROVE  i = h
      <3>1. CASE i \in DOMAIN adjacency_list[j] /\ h \in DOMAIN adjacency_list[j]
        BY <3>1, <2>3, <1>1, <1>11 DEF Hold
      <3>2. CASE ~(i \in DOMAIN adjacency_list[j] /\ h \in DOMAIN adjacency_list[j])
        <4>1. j = s /\ (i = n \/ h = n)
          BY <3>2, <1>9
        <4> QED
          BY <4>1, <2>1, <2>3, <1>4, <1>6, <1>9
      <3> QED
        BY <3>1, <3>2
    <2> QED
      BY <2>2, <2>3 DEF Hold
  <1> QED
    BY <1>4, <1>5, <1>13, <1>14

LEMMA InitializeKeeps ==
  ASSUME GraphInv, InitializeEdge \/ InitializeBase
  PROVE  GraphInv'
  <1>1. graphPass = "initialize" /\ Quiet
    BY DEF InitializeEdge, InitializeBase, Quiet
  <1>2. /\ forward_deletion_buckets = Nowhere
        /\ reverse_deletion_buckets = Nowhere
        /\ forward_pointers_changed = Nothing
        /\ reverse_pointers_changed = Nothing
        /\ graphEdges = {<<GraphLags[j][1], GraphLags[j][2], TRUE>> :
                           j \in {n \in DOMAIN GraphLags : n < graphRow}}
    BY <1>1 DEF GraphInv, Passes, Base
  <1>3. graphRow \in Nat
    BY DEF GraphInv, GraphTypeOK
  <1>4. CASE InitializeEdge
    <2> DEFINE s == GraphLags[graphRow][1]
               t == GraphLags[graphRow][2]
    <2>1. /\ graphRow \in DOMAIN GraphLags
          /\ s \in GraphJob /\ t \in GraphJob
          /\ \A j \in DOMAIN GraphLags : GraphLags[j] = <<GraphLags[j][1], GraphLags[j][2]>>
          /\ DOMAIN GraphLags \subseteq Nat
      <3>1. graphRow \in DOMAIN GraphLags
        BY <1>4 DEF InitializeEdge
      <3>2. \A j \in DOMAIN GraphLags : GraphLags[j] \in GraphJob \X GraphJob
        BY GraphAssumption, LenProperties, ElementOfSeq
      <3>3. DOMAIN GraphLags = 1 .. Len(GraphLags)
        BY GraphAssumption, LenProperties
      <3> QED
        BY <3>1, <3>2, <3>3
    <2>2. \A p \in BOOLEAN : <<s, t, p>> \notin graphEdges
      <3> SUFFICES ASSUME NEW p \in BOOLEAN, <<s, t, p>> \in graphEdges
                   PROVE  FALSE
        OBVIOUS
      <3>1. PICK j \in DOMAIN GraphLags :
              j < graphRow /\ <<s, t, p>> = <<GraphLags[j][1], GraphLags[j][2], TRUE>>
        BY <1>2
      <3>2. GraphLags[j] = GraphLags[graphRow]
        BY <2>1, <3>1
      <3> QED
        BY <2>1, <3>1, <3>2, <1>3, GraphAssumption
    <2>3. /\ InsertEdge(s, t, TRUE)
          /\ graphRow' = graphRow + 1
          /\ UNCHANGED <<baseLists, buckets, changes, graphPass>>
      BY <1>4 DEF InitializeEdge
    <2>4. /\ adjacency_list' \in [GraphJob -> Seq(Out)]
          /\ rev_adjacency_list' \in [GraphJob -> Seq(In)]
          /\ Mutual(adjacency_list', rev_adjacency_list')
          /\ Hold(adjacency_list', graphEdges')
      <3> HIDE DEF s, t
      <3> QED
        BY <2>1, <2>2, <2>3, <1>1, InsertEdgeKeeps
    <2>5. graphEdges' = graphEdges \cup {<<s, t, TRUE>>}
      BY <2>3 DEF InsertEdge
    <2>6. GraphTypeOK'
      <3>1. <<s, t, TRUE>> \in GraphJob \X GraphJob \X BOOLEAN
        BY <2>1
      <3> HIDE DEF s, t
      <3>2. graphEdges' \subseteq GraphJob \X GraphJob \X BOOLEAN
        BY <3>1, <2>5 DEF GraphInv, GraphTypeOK
      <3>3. graphRow' \in Nat /\ graphPass' = "initialize"
        BY <2>3, <1>1, <1>3
      <3> QED
        BY <3>2, <3>3, <2>3, <2>4 DEF GraphInv, GraphTypeOK, baseLists, buckets, changes
    <2>7. Base'
      <3>1. graphEdges' = {<<GraphLags[j][1], GraphLags[j][2], TRUE>> :
                             j \in {n \in DOMAIN GraphLags : n < graphRow'}}
        <4>1. {n \in DOMAIN GraphLags : n < graphRow + 1} =
                {n \in DOMAIN GraphLags : n < graphRow} \cup {graphRow}
          BY <2>1, <1>3
        <4> QED
          BY <4>1, <2>3, <2>5, <1>2
      <3> QED
        BY <3>1, <2>3, <1>1 DEF Base
    <2>8. /\ forward_deletion_buckets' = Nowhere
          /\ reverse_deletion_buckets' = Nowhere
          /\ forward_pointers_changed' = Nothing
          /\ reverse_pointers_changed' = Nothing
          /\ graphPass' = "initialize"
      BY <2>3, <1>1, <1>2 DEF buckets, changes
    <2> QED
      BY <2>4, <2>6, <2>7, <2>8, QuietAgain
  <1>5. CASE InitializeBase
    <2>1. /\ base_adjacency_list' = adjacency_list
          /\ base_rev_adjacency_list' = rev_adjacency_list
          /\ graphPass' = "search"
          /\ graphRow' = 1
          /\ UNCHANGED <<lists, buckets, changes, graphEdges>>
      BY <1>5 DEF InitializeBase
    <2>2. GraphTypeOK'
      BY <2>1 DEF GraphInv, GraphTypeOK, lists, buckets, changes
    <2>3. Mutual(adjacency_list, rev_adjacency_list) /\ Hold(adjacency_list, graphEdges)
      BY <1>1, QuietLists
    <2>4. {e \in graphEdges : e[3] = TRUE} = graphEdges
      <3>1. \A a, b : <<a, b, TRUE>>[3] = TRUE
        OBVIOUS
      <3>2. \A e \in graphEdges : e[3] = TRUE
        BY <3>1, <1>2, Zenon
      <3> QED
        BY <3>2
    <2>5. /\ Base'
          /\ Mutual(adjacency_list', rev_adjacency_list')
          /\ Hold(adjacency_list', graphEdges')
      <3>1. adjacency_list' = adjacency_list /\ rev_adjacency_list' = rev_adjacency_list
            /\ graphEdges' = graphEdges
        BY <2>1 DEF lists
      <3> QED
        BY <3>1, <2>1, <2>3, <2>4 DEF Base
    <2> QED
      BY <2>1, <2>2, <2>5, <1>2, QuietAgain DEF buckets, changes
  <1> QED
    BY <1>4, <1>5

LEMMA InsertKeeps ==
  ASSUME GraphInv, NEW e \in GraphOthers, Insert(e[1], e[2])
  PROVE  GraphInv'
  <1>1. graphPass = "search" /\ Quiet
    BY DEF Insert, Quiet
  <1>2. /\ forward_deletion_buckets = Nowhere
        /\ reverse_deletion_buckets = Nowhere
        /\ forward_pointers_changed = Nothing
        /\ reverse_pointers_changed = Nothing
    BY <1>1 DEF GraphInv, Passes
  <1>3. e[1] \in GraphJob /\ e[2] \in GraphJob
    BY GraphAssumption
  <1>4. /\ \A p \in BOOLEAN : <<e[1], e[2], p>> \notin graphEdges
        /\ InsertEdge(e[1], e[2], FALSE)
        /\ UNCHANGED <<baseLists, buckets, changes, graphPass, graphRow>>
    BY DEF Insert
  <1>5. /\ adjacency_list' \in [GraphJob -> Seq(Out)]
        /\ rev_adjacency_list' \in [GraphJob -> Seq(In)]
        /\ Mutual(adjacency_list', rev_adjacency_list')
        /\ Hold(adjacency_list', graphEdges')
    BY <1>1, <1>3, <1>4, InsertEdgeKeeps
  <1>6. graphEdges' = graphEdges \cup {<<e[1], e[2], FALSE>>}
    BY <1>4 DEF InsertEdge
  <1>7. GraphTypeOK'
    <2>0. <<e[1], e[2], FALSE>> \in GraphJob \X GraphJob \X BOOLEAN
      BY <1>3
    <2>1. graphEdges' \subseteq GraphJob \X GraphJob \X BOOLEAN
      BY <2>0, <1>6 DEF GraphInv, GraphTypeOK
    <2> QED
      BY <2>1, <1>4, <1>5 DEF GraphInv, GraphTypeOK, baseLists, buckets, changes
  <1>8. Base'
    <2>1. {d \in graphEdges' : d[3] = TRUE} = {d \in graphEdges : d[3] = TRUE}
      <3>1. <<e[1], e[2], FALSE>>[3] # TRUE
        OBVIOUS
      <3> QED
        BY <3>1, <1>6, Zenon
    <2> QED
      BY <2>1, <1>1, <1>4 DEF GraphInv, Base, baseLists
  <1> QED
    BY <1>1, <1>2, <1>4, <1>5, <1>7, <1>8, QuietAgain DEF buckets, changes

LEMMA ResetKeeps ==
  ASSUME GraphInv, ResetGraph
  PROVE  GraphInv'
  <1>1. graphPass = "search"
    BY DEF ResetGraph
  <1>2. /\ adjacency_list' = base_adjacency_list
        /\ rev_adjacency_list' = base_rev_adjacency_list
        /\ graphEdges' = {e \in graphEdges : e[3] = TRUE}
        /\ UNCHANGED <<baseLists, buckets, changes, graphPass, graphRow>>
    BY DEF ResetGraph
  <1>3. GraphTypeOK'
    BY <1>2 DEF GraphInv, GraphTypeOK, baseLists, buckets, changes
  <1>4. /\ Mutual(adjacency_list', rev_adjacency_list')
        /\ Hold(adjacency_list', graphEdges')
    BY <1>1, <1>2 DEF GraphInv, Base
  <1>5. Base'
    <2>1. {e \in graphEdges' : e[3] = TRUE} = graphEdges'
      BY <1>2
    <2> QED
      BY <2>1, <1>1, <1>2, <1>4 DEF Base, baseLists
  <1>6. /\ forward_deletion_buckets' = Nowhere
        /\ reverse_deletion_buckets' = Nowhere
        /\ forward_pointers_changed' = Nothing
        /\ reverse_pointers_changed' = Nothing
        /\ graphPass' \in {"initialize", "search"}
    BY <1>1, <1>2 DEF GraphInv, Passes, buckets, changes
  <1> QED
    BY <1>3, <1>4, <1>5, <1>6, QuietAgain

\* The buckets hold both places of every edge that is to be deleted, and of no
\* other.
LEMMA RequestKeeps ==
  ASSUME GraphInv, NEW chosen \in SUBSET Removable, RequestDeletion(chosen)
  PROVE  GraphInv'
  <1> DEFINE edges == {adjacency_list[c[1]][c[2]] : c \in chosen}
  <1>1. graphPass = "search" /\ Quiet
    BY DEF RequestDeletion, Quiet
  <1>2. /\ Mutual(adjacency_list, rev_adjacency_list)
        /\ Hold(adjacency_list, graphEdges)
    BY <1>1, QuietLists
  <1>3. \A c \in chosen : /\ c[1] \in GraphJob
                          /\ c[2] \in DOMAIN adjacency_list[c[1]]
                          /\ ~adjacency_list[c[1]][c[2]].permanent
                          /\ c = <<c[1], c[2]>>
    BY DEF Removable
  <1>4. \A c \in chosen :
          LET e == adjacency_list[c[1]][c[2]]
          IN  /\ e.t \in GraphJob
              /\ e.rev_index \in DOMAIN rev_adjacency_list[e.t]
              /\ Counterpart(e) = [s |-> c[1], forward_index |-> c[2]]
              /\ Counterpart(e).s = c[1]
              /\ Counterpart(e).forward_index = c[2]
    <2> SUFFICES ASSUME NEW c \in chosen
                 PROVE  LET e == adjacency_list[c[1]][c[2]]
                        IN  /\ e.t \in GraphJob
                            /\ e.rev_index \in DOMAIN rev_adjacency_list[e.t]
                            /\ Counterpart(e) = [s |-> c[1], forward_index |-> c[2]]
                            /\ Counterpart(e).s = c[1]
                            /\ Counterpart(e).forward_index = c[2]
      OBVIOUS
    <2>1. adjacency_list[c[1]][c[2]].t \in GraphJob
      BY <1>3, Places DEF GraphInv
    <2>2. /\ adjacency_list[c[1]][c[2]].rev_index \in
               DOMAIN rev_adjacency_list[adjacency_list[c[1]][c[2]].t]
          /\ Counterpart(adjacency_list[c[1]][c[2]]) =
               [s |-> c[1], forward_index |-> c[2]]
      BY <1>2, <1>3 DEF Mutual, Counterpart
    <2> QED
      BY <2>1, <2>2
  <1>5. /\ forward_deletion_buckets' =
             [s \in GraphJob |->
                {Counterpart(e).forward_index : e \in {d \in edges : Counterpart(d).s = s}}]
        /\ reverse_deletion_buckets' =
             [t \in GraphJob |-> {e.rev_index : e \in {d \in edges : d.t = t}}]
        /\ forward_pointers_changed' = Nothing
        /\ reverse_pointers_changed' = Nothing
        /\ graphEdges' = graphEdges \
             {<<c[1], adjacency_list[c[1]][c[2]].t, FALSE>> : c \in chosen}
        /\ graphPass' = "forward"
        /\ graphRow' = 1
        /\ UNCHANGED <<lists, baseLists>>
    BY DEF RequestDeletion
  <1>6. \A s \in GraphJob : \A i :
          i \in forward_deletion_buckets'[s] <=> <<s, i>> \in chosen
    <2> SUFFICES ASSUME NEW s \in GraphJob, NEW i
                 PROVE  i \in forward_deletion_buckets'[s] <=> <<s, i>> \in chosen
      OBVIOUS
    <2>1. ASSUME i \in forward_deletion_buckets'[s]
          PROVE  <<s, i>> \in chosen
      <3>1. PICK c \in chosen : /\ Counterpart(adjacency_list[c[1]][c[2]]).s = s
                                /\ Counterpart(adjacency_list[c[1]][c[2]]).forward_index = i
        BY <2>1, <1>5
      <3>2. c = <<s, i>>
        BY <3>1, <1>3, <1>4
      <3> QED
        BY <3>2
    <2>2. ASSUME <<s, i>> \in chosen
          PROVE  i \in forward_deletion_buckets'[s]
      <3>1. /\ Counterpart(adjacency_list[s][i]).s = s
            /\ Counterpart(adjacency_list[s][i]).forward_index = i
        BY <2>2, <1>4
      <3>2. adjacency_list[s][i] \in edges
        BY <2>2
      <3> HIDE DEF edges
      <3> QED
        BY <3>1, <3>2, <1>5
    <2> QED
      BY <2>1, <2>2
  <1>7. \A t \in GraphJob : \A r :
          r \in reverse_deletion_buckets'[t] <=>
            \E c \in chosen : /\ adjacency_list[c[1]][c[2]].t = t
                              /\ adjacency_list[c[1]][c[2]].rev_index = r
    BY <1>5
  <1>8. /\ adjacency_list' = adjacency_list
        /\ rev_adjacency_list' = rev_adjacency_list
        /\ base_adjacency_list' = base_adjacency_list
        /\ base_rev_adjacency_list' = base_rev_adjacency_list
        /\ \A j \in GraphJob : /\ forward_pointers_changed'[j] = <<>>
                               /\ reverse_pointers_changed'[j] = <<>>
    BY <1>5 DEF lists, baseLists, Nothing
  <1> HIDE DEF edges
  <1>9. /\ \A s \in GraphJob : forward_deletion_buckets'[s] \subseteq DOMAIN adjacency_list[s]
        /\ \A t \in GraphJob : reverse_deletion_buckets'[t] \subseteq DOMAIN rev_adjacency_list[t]
    <2>1. ASSUME NEW s \in GraphJob, NEW i \in forward_deletion_buckets'[s]
          PROVE  i \in DOMAIN adjacency_list[s]
      <3>1. <<s, i>> \in chosen
        BY <1>6
      <3> QED
        BY <3>1, <1>3
    <2>2. ASSUME NEW t \in GraphJob, NEW r \in reverse_deletion_buckets'[t]
          PROVE  r \in DOMAIN rev_adjacency_list[t]
      <3>1. PICK c \in chosen : /\ adjacency_list[c[1]][c[2]].t = t
                                /\ adjacency_list[c[1]][c[2]].rev_index = r
        BY <1>7
      <3> QED
        BY <3>1, <1>4
    <2> QED
      BY <2>1, <2>2
  <1>10. GraphTypeOK'
    <2>1. \A j \in GraphJob : /\ DOMAIN adjacency_list[j] \subseteq Nat \ {0}
                              /\ DOMAIN rev_adjacency_list[j] \subseteq Nat \ {0}
      BY Places DEF GraphInv
    <2>2. /\ forward_deletion_buckets' \in [GraphJob -> SUBSET (Nat \ {0})]
          /\ reverse_deletion_buckets' \in [GraphJob -> SUBSET (Nat \ {0})]
      <3>1. /\ \A s \in GraphJob : forward_deletion_buckets'[s] \in SUBSET (Nat \ {0})
            /\ \A t \in GraphJob : reverse_deletion_buckets'[t] \in SUBSET (Nat \ {0})
        BY <2>1, <1>9
      <3>2. /\ forward_deletion_buckets' =
                 [s \in GraphJob |-> forward_deletion_buckets'[s]]
            /\ reverse_deletion_buckets' =
                 [t \in GraphJob |-> reverse_deletion_buckets'[t]]
        BY <1>5
      <3> QED
        BY <3>1, <3>2
    <2>3. Nothing \in [GraphJob -> Seq(Change)]
      BY EmptySeq DEF Nothing
    <2> QED
      BY <2>2, <2>3, <1>5, <1>8 DEF GraphInv, GraphTypeOK
  <1>11. ASSUME NEW s \in GraphJob, NEW t \in GraphJob,
                NEW i \in DOMAIN adjacency_list[s], NEW r \in DOMAIN rev_adjacency_list[t],
                adjacency_list[s][i].t = t,
                adjacency_list[s][i].rev_index = r,
                rev_adjacency_list[t][r] = [s |-> s, forward_index |-> i]
         PROVE  /\ <<s, i>> \in chosen <=> r \in reverse_deletion_buckets'[t]
                /\ <<s, i>> \notin chosen => Linked(s, i, t, r)'
    <2>1. <<s, i>> \in chosen <=> r \in reverse_deletion_buckets'[t]
      <3>1. ASSUME <<s, i>> \in chosen
            PROVE  r \in reverse_deletion_buckets'[t]
        BY <3>1, <1>7, <1>11
      <3>2. ASSUME r \in reverse_deletion_buckets'[t]
            PROVE  <<s, i>> \in chosen
        <4>1. PICK c \in chosen : /\ adjacency_list[c[1]][c[2]].t = t
                                  /\ adjacency_list[c[1]][c[2]].rev_index = r
          BY <3>2, <1>7
        <4>2. Counterpart(adjacency_list[c[1]][c[2]]) = rev_adjacency_list[t][r]
          BY <4>1 DEF Counterpart
        <4>3. c[1] = s /\ c[2] = i
          <5>1. [s |-> c[1], forward_index |-> c[2]] = [s |-> s, forward_index |-> i]
            BY <4>2, <1>4, <1>11
          <5> QED
            BY <5>1
        <4> QED
          BY <4>3, <1>3
      <3> QED
        BY <3>1, <3>2
    <2>2. ASSUME <<s, i>> \notin chosen
          PROVE  Linked(s, i, t, r)'
      <3>1. i \in Kept(s)' /\ r \in KeptIn(t)'
        BY <2>1, <2>2, <1>6, <1>8 DEF Kept, KeptIn
      <3>2. /\ rev_adjacency_list'[t][r].s = s
            /\ rev_adjacency_list'[t][r].forward_index = i
            /\ adjacency_list'[s][i].t = t
            /\ adjacency_list'[s][i].rev_index = r
        BY <1>8, <1>11
      <3>3. /\ Points(forward_pointers_changed'[s], i, adjacency_list'[s][i].rev_index, r)
            /\ Points(reverse_pointers_changed'[t], r,
                      rev_adjacency_list'[t][r].forward_index, i)
        BY <3>2, <1>8, PointsNothing
      <3> QED
        BY <3>1, <3>2, <3>3 DEF Linked
    <2> QED
      BY <2>1, <2>2
  <1>12. OutLinked'
    <2> SUFFICES ASSUME NEW s \in GraphJob, NEW i \in Kept(s)'
                 PROVE  (\E r \in KeptIn(adjacency_list[s][i].t) :
                           Linked(s, i, adjacency_list[s][i].t, r))'
      BY DEF OutLinked
    <2>1. i \in DOMAIN adjacency_list[s] /\ <<s, i>> \notin chosen
      BY <1>6, <1>8 DEF Kept
    <2>2. PICK t \in GraphJob : t = adjacency_list[s][i].t
      BY <2>1, Places DEF GraphInv
    <2>3. PICK r \in DOMAIN rev_adjacency_list[t] :
            /\ r = adjacency_list[s][i].rev_index
            /\ rev_adjacency_list[t][r] = [s |-> s, forward_index |-> i]
      BY <2>1, <2>2, <1>2 DEF Mutual
    <2>4. Linked(s, i, t, r)'
      BY <2>1, <2>2, <2>3, <1>11
    <2>5. r \in KeptIn(t)' /\ adjacency_list'[s][i].t = t
      BY <2>2, <2>4, <1>8 DEF Linked
    <2> QED
      BY <2>4, <2>5
  <1>13. InLinked'
    <2> SUFFICES ASSUME NEW t \in GraphJob, NEW r \in KeptIn(t)'
                 PROVE  (\E i \in Kept(rev_adjacency_list[t][r].s) :
                           Linked(rev_adjacency_list[t][r].s, i, t, r))'
      BY DEF InLinked
    <2>1. r \in DOMAIN rev_adjacency_list[t] /\ r \notin reverse_deletion_buckets'[t]
      BY <1>8 DEF KeptIn
    <2>2. PICK s \in GraphJob : s = rev_adjacency_list[t][r].s
      BY <2>1, Places DEF GraphInv
    <2>3. PICK i \in DOMAIN adjacency_list[s] :
            /\ i = rev_adjacency_list[t][r].forward_index
            /\ adjacency_list[s][i].t = t
            /\ adjacency_list[s][i].rev_index = r
      BY <2>1, <2>2, <1>2 DEF Mutual
    <2>4. rev_adjacency_list[t][r] = [s |-> s, forward_index |-> i]
      BY <2>3, <1>2 DEF Mutual
    <2>5. Linked(s, i, t, r)'
      BY <2>1, <2>2, <2>3, <2>4, <1>11
    <2>6. i \in Kept(s)' /\ rev_adjacency_list'[t][r].s = s
      BY <2>2, <2>5, <1>8 DEF Linked
    <2> QED
      BY <2>5, <2>6
  <1>14. Listed'
    <2> SUFFICES ASSUME NEW s \in GraphJob, NEW t \in GraphJob, NEW permanent \in BOOLEAN
                 PROVE  (<<s, t, permanent>> \in graphEdges <=>
                           \E i \in Kept(s) :
                             /\ adjacency_list[s][i].t = t
                             /\ adjacency_list[s][i].permanent = permanent)'
      BY DEF Listed
    <2>1. <<s, t, permanent>> \in graphEdges <=>
            \E i \in DOMAIN adjacency_list[s] :
              adjacency_list[s][i].t = t /\ adjacency_list[s][i].permanent = permanent
      BY <1>2 DEF Hold
    <2>2. ASSUME NEW i \in DOMAIN adjacency_list[s], adjacency_list[s][i].t = t,
                 adjacency_list[s][i].permanent = permanent
          PROVE  <<s, i>> \in chosen <=>
                   \E c \in chosen :
                     <<s, t, permanent>> = <<c[1], adjacency_list[c[1]][c[2]].t, FALSE>>
      <3>1. ASSUME <<s, i>> \in chosen
            PROVE  <<s, t, permanent>> = <<s, adjacency_list[s][i].t, FALSE>>
        <4>1. <<s, i>>[1] = s /\ <<s, i>>[2] = i
          OBVIOUS
        <4>2. ~adjacency_list[s][i].permanent
          BY <3>1, <4>1, <1>3
        <4> QED
          BY <4>2, <2>2
      <3>2. ASSUME NEW c \in chosen,
                   <<s, t, permanent>> = <<c[1], adjacency_list[c[1]][c[2]].t, FALSE>>
            PROVE  <<s, i>> \in chosen
        <4>1. c[1] = s /\ adjacency_list[s][c[2]].t = t /\ c[2] \in DOMAIN adjacency_list[s]
          BY <3>2, <1>3
        <4>2. c[2] = i
          BY <4>1, <2>2, <1>2 DEF Hold
        <4> QED
          BY <4>1, <4>2, <1>3
      <3> QED
        BY <3>1, <3>2
    <2>3. <<s, t, permanent>> \in graphEdges' <=>
            /\ <<s, t, permanent>> \in graphEdges
            /\ ~\E c \in chosen :
                 <<s, t, permanent>> = <<c[1], adjacency_list[c[1]][c[2]].t, FALSE>>
      BY <1>5
    <2>4. \A i : i \in Kept(s)' <=> i \in DOMAIN adjacency_list[s] /\ <<s, i>> \notin chosen
      BY <1>6, <1>8 DEF Kept
    <2> QED
      BY <2>1, <2>2, <2>3, <2>4, <1>8
  <1>15. ListedOnce'
    BY <1>2, <1>8 DEF Hold, ListedOnce, Kept
  <1>16. BucketsInRange'
    BY <1>8, <1>9 DEF BucketsInRange
  <1>17. Passes'
    <2>1. 1 \in GraphJob /\ 1 .. 1 - 1 = {}
      BY GraphAssumption DEF GraphJob
    <2> QED
      BY <2>1, <1>5 DEF Passes
  <1>18. Base'
    <2>1. {d \in graphEdges' : d[3] = TRUE} = {d \in graphEdges : d[3] = TRUE}
      <3>1. \A a, b : <<a, b, FALSE>>[3] # TRUE
        OBVIOUS
      <3>2. \A d : d \in graphEdges' <=>
                     /\ d \in graphEdges
                     /\ ~\E c \in chosen : d = <<c[1], adjacency_list[c[1]][c[2]].t, FALSE>>
        BY <1>5, Zenon
      <3>3. \A d \in graphEdges : d[3] = TRUE => d \in graphEdges'
        BY <3>1, <3>2, Zenon
      <3> QED
        BY <3>2, <3>3
    <2> QED
      BY <2>1, <1>1, <1>5, <1>8 DEF GraphInv, Base
  <1> QED
    BY <1>10, <1>12, <1>13, <1>14, <1>15, <1>16, <1>17, <1>18 DEF GraphInv

-----------------------------------------------------------------------------
(***************************************************************************)
(* The theorems                                                            *)
(***************************************************************************)

LEMMA GraphInvInit ==
  GraphInit => GraphInv
  <1> SUFFICES ASSUME GraphInit
               PROVE  GraphInv
    OBVIOUS
  <1> USE DEF GraphInit
  <1>1. \A j \in GraphJob : /\ adjacency_list[j] = <<>>
                            /\ rev_adjacency_list[j] = <<>>
                            /\ Kept(j) = {}
                            /\ KeptIn(j) = {}
    BY DEF Kept, KeptIn, Nothing
  <1>2. GraphTypeOK
    <2>1. \A S : Nothing \in [GraphJob -> Seq(S)]
      BY EmptySeq DEF Nothing
    <2>2. Nowhere \in [GraphJob -> SUBSET (Nat \ {0})]
      BY DEF Nowhere
    <2> QED
      BY <2>1, <2>2 DEF GraphTypeOK
  <1>3. OutLinked /\ InLinked /\ Listed /\ ListedOnce
    BY <1>1 DEF OutLinked, InLinked, Listed, ListedOnce
  <1>4. BucketsInRange /\ Passes
    BY DEF BucketsInRange, Passes, Nowhere
  <1>5. Base
    <2>1. DOMAIN GraphLags = 1 .. Len(GraphLags)
      BY GraphAssumption, LenProperties
    <2>2. {n \in DOMAIN GraphLags : n < 1} = {}
      BY <2>1
    <2> QED
      BY <2>2 DEF Base
  <1> QED
    BY <1>2, <1>3, <1>4, <1>5 DEF GraphInv

LEMMA GraphInvNext ==
  GraphInv /\ [GraphNext]_graphVars => GraphInv'
  <1> SUFFICES ASSUME GraphInv, [GraphNext]_graphVars
               PROVE  GraphInv'
    OBVIOUS
  <1>1. CASE InitializeEdge \/ InitializeBase
    BY <1>1, InitializeKeeps
  <1>2. CASE \E e \in GraphOthers : Insert(e[1], e[2])
    BY <1>2, InsertKeeps
  <1>3. CASE ResetGraph
    BY <1>3, ResetKeeps
  <1>4. CASE \E chosen \in SUBSET Removable : RequestDeletion(chosen)
    BY <1>4, RequestKeeps
  <1>5. CASE /\ graphPass = "forward"
             /\ \E k \in forward_deletion_buckets[graphRow] : DeleteForward(k)
    BY <1>5, DeleteForwardKeeps
  <1>6. CASE ForwardRowDone \/ ReverseRowDone \/ RepointRowDone
    BY <1>6, RowDoneKeeps
  <1>7. CASE ApplyForwardIndex
    BY <1>7, ApplyForwardIndexKeeps
  <1>8. CASE /\ graphPass = "reverse"
             /\ \E k \in reverse_deletion_buckets[graphRow] : DeleteReverse(k)
    BY <1>8, DeleteReverseKeeps
  <1>9. CASE ApplyRevIndex
    BY <1>9, ApplyRevIndexKeeps
  <1>10. CASE UNCHANGED graphVars
    <2>1. UNCHANGED <<lists, baseLists, buckets, changes, graphPass, graphRow, graphEdges>>
      BY <1>10 DEF graphVars
    <2> USE <2>1 DEF lists, baseLists, buckets, changes
    <2>2. GraphTypeOK'
      BY DEF GraphInv, GraphTypeOK
    <2>3. /\ \A s, i, t, r : Linked(s, i, t, r)' <=> Linked(s, i, t, r)
          /\ \A j : Kept(j)' = Kept(j) /\ KeptIn(j)' = KeptIn(j)
      BY DEF Linked, Kept, KeptIn
    <2>4. OutLinked' /\ InLinked'
      BY <2>3 DEF GraphInv, OutLinked, InLinked
    <2>5. Listed' /\ ListedOnce' /\ BucketsInRange'
      BY <2>3 DEF GraphInv, Listed, ListedOnce, BucketsInRange
    <2>6. Passes'
      BY DEF GraphInv, Passes
    <2>7. Base'
      BY DEF GraphInv, Base
    <2> QED
      BY <2>2, <2>4, <2>5, <2>6, <2>7 DEF GraphInv
  <1> QED
    BY <1>1, <1>2, <1>3, <1>4, <1>5, <1>6, <1>7, <1>8, <1>9, <1>10 DEF GraphNext

LEMMA GraphInvariant == GraphSpec => []GraphInv
  BY GraphInvInit, GraphInvNext, PTL DEF GraphSpec

\* The lists, buckets and pending changes have the right types throughout.
THEOREM GraphTypesAreRight == GraphSpec => []GraphTypeOK
  <1>1. GraphInv => GraphTypeOK
    BY DEF GraphInv
  <1> QED
    BY <1>1, GraphInvariant, PTL

\* Between deletions the two entries of every edge lead to each other.
THEOREM IndicesAreInverse == GraphSpec => []IndicesInverse
  <1>1. GraphInv => IndicesInverse
    BY QuietLists DEF IndicesInverse, Quiet
  <1> QED
    BY <1>1, GraphInvariant, PTL

\* Between deletions the lists hold exactly the edges that were inserted and
\* not deleted since: module Swag may take the graph for a set of edges.
THEOREM EdgesAreInLists == GraphSpec => []EdgesInLists
  <1>1. GraphInv => EdgesInLists
    BY QuietLists DEF EdgesInLists, Quiet
  <1> QED
    BY <1>1, GraphInvariant, PTL

-----------------------------------------------------------------------------
(* The topological sort.                                                     *)

\* The numbers that a graph without cycles has, which the code does not see.
Along(f) == f \in [Job -> Job] /\ \A e \in pathInstance.lags : f[e[1]] < f[e[2]]

Wrapped == 2147483647

\* The jobs that have their index, for good.
Indexed == IF index = Wrapped THEN Job ELSE {v \in Job : indices[v] > index}

Indexing ==
  /\ indices \in [Job -> Nat]
  /\ index \in 0 .. JobCount - 1 \/ index = Wrapped
  /\ \A v \in Job \ Indexed : indices[v] = 0
  /\ \A v \in Indexed : indices[v] <= JobCount - 1
  /\ \A v, w \in Indexed : indices[v] = indices[w] => v = w
  /\ index # Wrapped => Cardinality(Indexed) = JobCount - 1 - index
  /\ Acyclic(pathInstance) =>
       \A e \in pathInstance.lags :
         e[1] \in Indexed => e[2] \in Indexed /\ indices[e[1]] < indices[e[2]]

Source(v) == ReverseNeighbors(v) = {}

\* A source gets its index when its own search ends.
Roots ==
  /\ pathRoot \in 1 .. JobCount + 1
  /\ \A v \in Job : Source(v) =>
       (v \notin Indexed <=> v >= pathRoot \/ (pathStack # <<>> /\ v = pathRoot - 1))

OnStack(v) == \E k \in 1 .. Len(pathStack) : pathStack[k] = v

\* The stack is a path from the root; what the search has left has an index, and
\* so have the jobs it leads to, unless they lie on a cycle that is still open.
Search ==
  /\ pathStack \in Seq(Job) /\ visited \subseteq Job
  /\ pathStack # <<>> =>
       pathStack[Len(pathStack)] = pathRoot - 1 /\ Source(pathRoot - 1)
  /\ \A k \in 1 .. Len(pathStack) - 1 : ~ Source(pathStack[k])
  /\ \A f : Along(f) => \A k, l \in 1 .. Len(pathStack) :
                          k < l => f[pathStack[l]] < f[pathStack[k]]
  /\ \A v \in visited : v \in Indexed \/ OnStack(v)
  /\ \A e \in pathInstance.lags : e[1] \in Indexed => e[2] \in Indexed \/ OnStack(e[2])

SortInv == Indexing /\ Roots /\ Search

LEMMA JobsCounted ==
  /\ JobCount \in Nat \ {0} /\ JobCount <= Wrapped /\ Job = 1 .. JobCount
  /\ IsFiniteSet(Job) /\ Cardinality(Job) = JobCount
<1>1. JobCount \in Nat \ {0} /\ JobCount <= Wrapped
  BY JobCountAssumption, PathAssumption DEF Wrapped
<1>2. IsFiniteSet(1 .. JobCount)
      /\ Cardinality(1 .. JobCount) = IF 1 > JobCount THEN 0 ELSE JobCount - 1 + 1
  BY <1>1, FS_Interval
<1> QED
  BY <1>1, <1>2 DEF Job

LEMMA EdgeTypes ==
  ASSUME pathInstance \in LagInstance, NEW e \in pathInstance.lags
  PROVE  e[1] \in Job /\ e[2] \in Job /\ e[3] \in Int
  BY InstanceTypes

\* A stack without its first job, and with one more.
LEMMA Popped ==
  ASSUME NEW s \in Seq(Job), s # <<>>
  PROVE  /\ Head(s) = s[1] /\ Head(s) \in Job /\ Len(s) \in Nat /\ Len(s) >= 1
         /\ Tail(s) \in Seq(Job) /\ Len(Tail(s)) = Len(s) - 1
         /\ \A k \in 1 .. Len(s) - 1 : Tail(s)[k] = s[k + 1]
         /\ Tail(s) = <<>> <=> Len(s) = 1
<1>1. /\ Head(s) = s[1] /\ Head(s) \in Job /\ Len(s) \in Nat /\ Len(s) >= 1
      /\ Tail(s) \in Seq(Job) /\ Len(Tail(s)) = Len(s) - 1
      /\ \A k \in 1 .. Len(s) - 1 : Tail(s)[k] = s[k + 1]
  OBVIOUS
<1>2. \A t \in Seq(Job) : t = <<>> <=> Len(t) = 0
  OBVIOUS
<1>3. Tail(s) = <<>> <=> Len(Tail(s)) = 0
  BY <1>1, <1>2, Zenon
<1> QED
  BY <1>1, <1>3

LEMMA Pushed ==
  ASSUME NEW s \in Seq(Job), NEW w \in Job
  PROVE  /\ <<w>> \o s \in Seq(Job) /\ Len(<<w>> \o s) = Len(s) + 1 /\ Len(s) \in Nat
         /\ (<<w>> \o s)[1] = w
         /\ \A k \in 1 .. Len(s) : (<<w>> \o s)[k + 1] = s[k]
  OBVIOUS

LEMMA BeginSorts ==
  ASSUME pathInstance' \in LagInstance, pathRoot' = 1, pathStack' = <<>>, visited' = {},
         indices' = Zero, index' = JobCount - 1
  PROVE  SortInv'
<1>1. /\ index' \in 0 .. JobCount - 1 /\ index' # Wrapped
      /\ \A v \in Job : indices'[v] = 0 /\ ~ (indices'[v] > index')
      /\ indices' \in [Job -> Nat]
  BY JobsCounted DEF Zero, Wrapped
<1>2. Indexed' = {}
  BY <1>1 DEF Indexed
<1>3. Cardinality(Indexed') = 0
  BY <1>2, FS_EmptySet
<1>4. Indexing'
  BY <1>1, <1>2, <1>3, JobsCounted DEF Indexing
<1>5. Roots'
  BY <1>2, JobsCounted DEF Roots
<1>6. Search'
  BY <1>2 DEF Search, OnStack
<1> QED
  BY <1>4, <1>5, <1>6 DEF SortInv

LEMMA NextRootSorts ==
  ASSUME pathInstance \in LagInstance, SortInv, NextRoot
  PROVE  SortInv'
<1>1. /\ pathStack = <<>> /\ pathRoot <= JobCount /\ pathRoot' = pathRoot + 1
      /\ UNCHANGED <<pathInstance, indices, index>>
      /\ pathRoot \in 1 .. JobCount + 1
  BY DEF NextRoot, SortInv, Roots
<1>2. Indexed' = Indexed /\ \A v : Source(v)' = Source(v)
  BY <1>1 DEF Indexed, Source, ReverseNeighbors
<1>3. Indexing'
  BY <1>1, <1>2 DEF SortInv, Indexing
<1>4. pathRoot \in Job /\ pathRoot' \in 1 .. JobCount + 1 /\ pathRoot' - 1 = pathRoot
  BY <1>1, JobsCounted
<1>5. \A v \in Job : Source(v) => (v \notin Indexed <=> v >= pathRoot)
  BY <1>1 DEF SortInv, Roots
<1>6. \A v \in Job : v >= pathRoot <=> v >= pathRoot' \/ v = pathRoot
  BY <1>1, JobsCounted
<1>7. CASE Source(pathRoot)
  <2>1. pathStack' = <<pathRoot>> /\ visited' = {pathRoot}
    BY <1>7 DEF NextRoot, Source
  <2>2. Roots'
    BY <1>2, <1>4, <1>5, <1>6, <2>1 DEF Roots
  <2>3. /\ pathStack' \in Seq(Job) /\ Len(pathStack') = 1 /\ pathStack'[1] = pathRoot
        /\ visited' \subseteq Job
    BY <1>4, <2>1
  <2>4. Search'
    <3>1. \A k, l \in 1 .. Len(pathStack') : ~ (k < l)
      BY <2>3
    <3>2. 1 .. Len(pathStack') - 1 = {} /\ 1 \in 1 .. Len(pathStack')
      BY <2>3
    <3>3. \A v \in visited' : OnStack(v)'
      BY <2>1, <2>3, <3>2 DEF OnStack
    <3>4. \A e \in pathInstance.lags : e[1] \in Indexed => e[2] \in Indexed
      <4>1. \A v : ~ OnStack(v)
        BY <1>1 DEF OnStack
      <4> QED
        BY <4>1 DEF SortInv, Search
    <3> QED
      BY <1>1, <1>2, <1>4, <1>7, <2>1, <2>3, <3>1, <3>2, <3>3, <3>4 DEF Search
  <2> QED
    BY <1>3, <2>2, <2>4 DEF SortInv
<1>8. CASE ~ Source(pathRoot)
  <2>1. UNCHANGED <<pathStack, visited>>
    BY <1>8 DEF NextRoot, Source
  <2>2. Roots'
    BY <1>1, <1>2, <1>4, <1>5, <1>6, <1>8, <2>1 DEF Roots
  <2>3. Search'
    BY <1>1, <1>2, <2>1 DEF SortInv, Search, Along, OnStack
  <2> QED
    BY <1>3, <2>2, <2>3 DEF SortInv
<1> QED
  BY <1>7, <1>8

LEMMA DescendSorts ==
  ASSUME pathInstance \in LagInstance, SortInv, Descend
  PROVE  SortInv'
<1> DEFINE s == pathStack
           w == Min(Unvisited)
<1>1. /\ s # <<>> /\ Unvisited # {} /\ s \in Seq(Job)
      /\ pathStack' = <<w>> \o s /\ visited' = visited \cup {w}
      /\ UNCHANGED <<pathInstance, pathRoot, indices, index>>
  BY DEF Descend, SortInv, Search
<1>2. Unvisited \subseteq Job
  BY EdgeTypes DEF Unvisited, Neighbors
<1>3. w \in Unvisited
  <2>1. Unvisited \subseteq Int /\ \A x \in Unvisited : 0 <= x
    BY <1>2, JobsCounted
  <2>2. 0 \in Int
    OBVIOUS
  <2> QED
    BY <1>1, <2>1, <2>2, MinBounded, Zenon
<1>4. PICK e \in pathInstance.lags : e[1] = Head(s) /\ e[2] = w
  BY <1>3 DEF Unvisited, Neighbors
<1>5. w \in Job /\ ~ Source(w)
  BY <1>2, <1>3, <1>4 DEF Source, ReverseNeighbors
<1> HIDE DEF w
<1>6. /\ Head(s) = s[1] /\ Len(s) \in Nat /\ Len(s) >= 1
      /\ pathStack' \in Seq(Job) /\ Len(pathStack') = Len(s) + 1
      /\ pathStack'[1] = w /\ \A k \in 1 .. Len(s) : pathStack'[k + 1] = s[k]
  BY <1>1, <1>5, Popped, Pushed
<1>7. Indexed' = Indexed /\ (\A v : Source(v)' = Source(v)) /\ (\A f : Along(f)' = Along(f))
  BY <1>1 DEF Indexed, Source, ReverseNeighbors, Along
<1>8. Indexing'
  BY <1>1, <1>7 DEF SortInv, Indexing
<1>9. pathStack' # <<>>
  BY <1>6
<1>10. Roots'
  BY <1>1, <1>7, <1>9 DEF SortInv, Roots
<1>11. \A k \in 1 .. Len(pathStack') : k # 1 => k - 1 \in 1 .. Len(s) /\ pathStack'[k] = s[k - 1]
  <2> TAKE k \in 1 .. Len(pathStack')
  <2>1. k # 1 => k - 1 \in 1 .. Len(s) /\ (k - 1) + 1 = k
    BY <1>6
  <2> QED
    BY <1>6, <2>1
<1>12. Search'
  <2>1. pathStack'[Len(pathStack')] = pathRoot - 1 /\ Source(pathRoot - 1)
    <3>1. Len(s) \in 1 .. Len(s)
      BY <1>6
    <3> QED
      BY <1>1, <1>6, <3>1 DEF SortInv, Search
  <2>2. \A k \in 1 .. Len(pathStack') - 1 : ~ Source(pathStack'[k])
    <3> TAKE k \in 1 .. Len(pathStack') - 1
    <3>1. k = 1 \/ (k # 1 /\ k \in 1 .. Len(pathStack') /\ k - 1 \in 1 .. Len(s) - 1)
      BY <1>6
    <3> QED
      BY <1>5, <1>6, <1>11, <3>1 DEF SortInv, Search
  <2>3. ASSUME NEW f, Along(f), NEW k \in 1 .. Len(pathStack'), NEW l \in 1 .. Len(pathStack'),
               k < l
        PROVE  f[pathStack'[l]] < f[pathStack'[k]]
    <3>1. l # 1 /\ l - 1 \in 1 .. Len(s) /\ pathStack'[l] = s[l - 1]
      BY <1>6, <1>11, <2>3
    <3>2. \A i, j \in 1 .. Len(s) : i < j => f[s[j]] < f[s[i]]
      BY <2>3 DEF SortInv, Search
    <3>3. f[s[1]] < f[w] /\ f[s[1]] \in Nat /\ f[w] \in Nat /\ f[s[l - 1]] \in Nat
      <4>1. f[s[1]] < f[w]
        BY <1>4, <1>6, <2>3 DEF Along
      <4>2. s[1] \in Job /\ s[l - 1] \in Job
        BY <1>6, <3>1
      <4>3. \A v \in Job : f[v] \in Nat
        BY <2>3, JobsCounted DEF Along
      <4> QED
        BY <1>5, <4>1, <4>2, <4>3
    <3>4. CASE k = 1
      <4>1. l - 1 = 1 \/ f[s[l - 1]] < f[s[1]]
        <5>1. 1 \in 1 .. Len(s) /\ (l - 1 = 1 \/ 1 < l - 1)
          BY <1>6, <3>1
        <5> QED
          BY <3>1, <3>2, <5>1
      <4>2. f[s[l - 1]] < f[w]
        <5>1. PICK x, y, z : x = f[s[l - 1]] /\ y = f[s[1]] /\ z = f[w]
          OBVIOUS
        <5>2. x \in Nat /\ y \in Nat /\ z \in Nat /\ y < z /\ (x = y \/ x < y)
          BY <3>3, <4>1, <5>1
        <5>3. x < z
          BY <5>2
        <5> QED
          BY <5>1, <5>3
      <4> QED
        BY <1>6, <3>1, <3>4, <4>2
    <3>5. CASE k # 1
      <4>1. k - 1 \in 1 .. Len(s) /\ pathStack'[k] = s[k - 1] /\ k - 1 < l - 1
        BY <1>6, <1>11, <2>3, <3>5
      <4> QED
        BY <3>1, <3>2, <4>1
    <3> QED
      BY <3>4, <3>5
  <2>4. \A v : OnStack(v) \/ v = w => OnStack(v)'
    <3>1. \A k \in 1 .. Len(s) : k + 1 \in 1 .. Len(pathStack')
      BY <1>6
    <3>2. 1 \in 1 .. Len(pathStack')
      BY <1>6
    <3> QED
      BY <1>6, <3>1, <3>2 DEF OnStack
  <2>5. \A v \in visited' : v \in Indexed \/ OnStack(v)'
    BY <1>1, <2>4 DEF SortInv, Search
  <2>6. \A f \in pathInstance.lags : f[1] \in Indexed => f[2] \in Indexed \/ OnStack(f[2])'
    BY <2>4 DEF SortInv, Search
  <2>7. visited' \subseteq Job
    BY <1>1, <1>5 DEF SortInv, Search
  <2> QED
    BY <1>1, <1>6, <1>7, <2>1, <2>2, <2>3, <2>5, <2>6, <2>7 DEF Search
<1> QED
  BY <1>8, <1>10, <1>12 DEF SortInv

\* What Backtrack finds of the job on top of the stack.
LEMMA TopOfStack ==
  ASSUME pathInstance \in LagInstance, SortInv, pathStack # <<>>, Unvisited = {}
  PROVE  /\ Head(pathStack) = pathStack[1] /\ Head(pathStack) \in Job
         /\ index \in 0 .. JobCount - 1 /\ index # Wrapped
         /\ indices[Head(pathStack)] <= index <=> Head(pathStack) \notin Indexed
         /\ Source(Head(pathStack)) <=> Len(pathStack) = 1
         /\ Len(pathStack) = 1 => Head(pathStack) \notin Indexed
         /\ \A e \in pathInstance.lags :
              e[1] = Head(pathStack) => e[2] \in Indexed \/ OnStack(e[2])
         /\ Acyclic(pathInstance) =>
              \A e \in pathInstance.lags :
                e[1] = Head(pathStack) => e[2] \in Indexed /\ e[2] # Head(pathStack)
<1> DEFINE v == Head(pathStack)
           n == Len(pathStack)
<1>1. /\ v = pathStack[1] /\ v \in Job /\ n \in Nat /\ n >= 1
      /\ pathStack[n] = pathRoot - 1 /\ Source(pathRoot - 1)
      /\ 1 \in 1 .. n /\ n \in 1 .. n /\ pathStack[n] \in Job
  <2>1. pathStack \in Seq(Job)
    BY DEF SortInv, Search
  <2>2. /\ v = pathStack[1] /\ v \in Job /\ n \in Nat /\ n >= 1
    BY <2>1, Popped
  <2>3. 1 \in 1 .. n /\ n \in 1 .. n
    BY <2>2
  <2> QED
    BY <2>1, <2>2, <2>3 DEF SortInv, Search
<1>2. pathRoot - 1 \in Job /\ pathRoot - 1 \notin Indexed
  BY <1>1 DEF SortInv, Roots
<1>3. index # Wrapped /\ index \in 0 .. JobCount - 1
  BY <1>2 DEF Indexed, SortInv, Indexing
<1>4. indices[v] <= index <=> v \notin Indexed
  <2>1. indices[v] \in Nat /\ index \in Nat
    BY <1>1, <1>3, JobsCounted DEF SortInv, Indexing
  <2>2. v \in Indexed <=> indices[v] > index
    BY <1>1, <1>3 DEF Indexed
  <2> QED
    BY <2>1, <2>2
<1>5. Source(v) <=> n = 1
  <2>1. CASE n = 1
    BY <1>1, <2>1
  <2>2. CASE n # 1
    <3>1. 1 \in 1 .. n - 1
      <4> HIDE DEF n
      <4> QED
        BY <1>1, <2>2
    <3> QED
      BY <1>1, <2>2, <3>1 DEF SortInv, Search
  <2> QED
    BY <2>1, <2>2
<1>6. n = 1 => v \notin Indexed
  BY <1>1, <1>2
<1>7. ASSUME NEW e \in pathInstance.lags, e[1] = v
      PROVE  e[2] \in visited /\ (e[2] \in Indexed \/ OnStack(e[2]))
  <2>1. e[2] \in visited
    BY <1>7 DEF Unvisited, Neighbors
  <2> QED
    BY <2>1 DEF SortInv, Search
<1>8. ASSUME Acyclic(pathInstance), NEW e \in pathInstance.lags, e[1] = v
      PROVE  e[2] \in Indexed /\ e[2] # v
  <2>1. PICK f : Along(f)
    BY <1>8 DEF Acyclic, Along
  <2>2. f[v] < f[e[2]] /\ e[2] \in Job /\ \A u \in Job : f[u] \in Nat
    <3>1. f[v] < f[e[2]] /\ e[2] \in Job
      BY <1>8, <2>1, EdgeTypes DEF Along
    <3>2. f \in [Job -> Job]
      BY <2>1 DEF Along
    <3>3. \A u \in Job : f[u] \in Nat
      BY <3>2, JobsCounted
    <3> QED
      BY <3>1, <3>3
  <2>3. e[2] \in Indexed \/ OnStack(e[2])
    BY <1>7, <1>8
  <2>4. ASSUME NEW k \in 1 .. n, pathStack[k] = e[2]
        PROVE  FALSE
    <3>1. k = 1 \/ f[pathStack[k]] < f[pathStack[1]]
      <4>1. k = 1 \/ 1 < k
        OBVIOUS
      <4> QED
        BY <1>1, <2>1, <4>1 DEF SortInv, Search
    <3>2. PICK x, y : x = f[v] /\ y = f[e[2]]
      OBVIOUS
    <3>3. x \in Nat /\ y \in Nat /\ x < y /\ (y = x \/ y < x)
      BY <1>1, <2>2, <2>4, <3>1, <3>2
    <3> QED
      BY <3>3
  <2>5. e[2] \in Indexed
    BY <2>3, <2>4 DEF OnStack
  <2>6. e[2] # v
    BY <1>1, <2>2
  <2> QED
    BY <2>5, <2>6
<1> QED
  BY <1>1, <1>3, <1>4, <1>5, <1>6, <1>7, <1>8

\* A job gets its index.
LEMMA OneMoreIndexed ==
  ASSUME pathInstance \in LagInstance, Indexing, index # Wrapped,
         NEW v \in Job, v \notin Indexed,
         Acyclic(pathInstance) =>
           \A e \in pathInstance.lags : e[1] = v => e[2] \in Indexed /\ e[2] # v,
         pathInstance' = pathInstance,
         indices' = [indices EXCEPT ![v] = index],
         index' = IF index = 0 THEN Wrapped ELSE index - 1
  PROVE  Indexing' /\ Indexed' = Indexed \cup {v}
<1>1. /\ index \in Nat /\ index <= JobCount - 1 /\ JobCount \in Nat \ {0}
      /\ JobCount <= Wrapped /\ indices \in [Job -> Nat] /\ Wrapped \in Nat
  BY JobsCounted DEF Indexing, Wrapped
<1>2. /\ \A u \in Job : u # v => indices'[u] = indices[u]
      /\ indices'[v] = index /\ indices' \in [Job -> Nat]
  BY <1>1
<1>3. Indexed \subseteq Job /\ \A u \in Job : u \in Indexed <=> indices[u] > index
  BY DEF Indexed
<1>4. IsFiniteSet(Indexed) /\ Cardinality(Indexed \cup {v}) = JobCount - index
  <2>1. IsFiniteSet(Indexed)
    BY <1>3, JobsCounted, FS_Subset
  <2>2. Cardinality(Indexed) = JobCount - 1 - index
    BY DEF Indexing
  <2>3. Cardinality(Indexed \cup {v}) = Cardinality(Indexed) + 1
    BY <2>1, FS_AddElement
  <2> QED
    BY <1>1, <2>1, <2>2, <2>3
<1>5. Indexed' = Indexed \cup {v}
  <2>1. CASE index = 0
    <3>1. index' = Wrapped
      BY <2>1
    <3>2. Indexed \cup {v} = Job
      <4>1. Cardinality(Indexed \cup {v}) = Cardinality(Job)
        BY <1>1, <1>4, <2>1, JobsCounted
      <4>2. Indexed \cup {v} \in SUBSET Job
        BY <1>3
      <4> QED
        BY <4>1, <4>2, JobsCounted, FS_Subset
    <3> QED
      BY <3>1, <3>2 DEF Indexed
  <2>2. CASE index # 0
    <3>1. index' = index - 1 /\ index' # Wrapped
      BY <1>1, <2>2
    <3>2. \A u \in Job : u \notin Indexed => indices[u] = 0
      BY DEF Indexing
    <3>3. \A u \in Job : indices'[u] > index' <=> u \in Indexed \cup {v}
      <4> TAKE u \in Job
      <4>1. CASE u = v
        BY <1>1, <1>2, <3>1, <4>1
      <4>2. CASE u # v
        <5>1. indices'[u] = indices[u] /\ indices[u] \in Nat
          BY <1>1, <1>2, <4>2
        <5>2. u \in Indexed => indices[u] > index - 1
          BY <1>1, <1>3, <5>1
        <5>3. u \notin Indexed => ~ (indices[u] > index - 1)
          BY <1>1, <2>2, <3>2
        <5> QED
          BY <3>1, <4>2, <5>1, <5>2, <5>3
      <4> QED
        BY <4>1, <4>2
    <3>4. Indexed' = {u \in Job : indices'[u] > index'}
      BY <3>1 DEF Indexed, Wrapped
    <3> QED
      BY <1>3, <3>3, <3>4
  <2> QED
    BY <2>1, <2>2
<1>6. index' \in 0 .. JobCount - 1 \/ index' = Wrapped
  BY <1>1 DEF Wrapped
<1>7. \A u \in Job \ Indexed' : indices'[u] = 0
  BY <1>2, <1>5 DEF Indexing
<1>8. \A u \in Indexed' : indices'[u] <= JobCount - 1
  BY <1>1, <1>2, <1>3, <1>5 DEF Indexing
<1>9. \A u \in Indexed : indices[u] # index /\ u # v
  BY <1>1, <1>3
<1>10. \A u, w \in Indexed' : indices'[u] = indices'[w] => u = w
  BY <1>2, <1>3, <1>5, <1>9 DEF Indexing
<1>11. index' # Wrapped => Cardinality(Indexed') = JobCount - 1 - index'
  BY <1>1, <1>4, <1>5 DEF Wrapped
<1>12. ASSUME Acyclic(pathInstance), NEW e \in pathInstance.lags, e[1] \in Indexed'
       PROVE  e[2] \in Indexed' /\ indices'[e[1]] < indices'[e[2]]
  <2>1. CASE e[1] = v
    <3>1. e[2] \in Indexed /\ e[2] # v
      BY <1>12, <2>1
    <3>2. indices'[e[2]] = indices[e[2]] /\ indices[e[2]] > index /\ indices[e[2]] \in Nat
      BY <1>1, <1>2, <1>3, <3>1
    <3> QED
      BY <1>1, <1>2, <1>5, <2>1, <3>1, <3>2
  <2>2. CASE e[1] # v
    <3>1. e[1] \in Indexed
      BY <1>5, <1>12, <2>2
    <3>2. e[2] \in Indexed /\ indices[e[1]] < indices[e[2]]
      BY <1>12, <3>1 DEF Indexing
    <3> QED
      BY <1>2, <1>3, <1>5, <1>9, <3>1, <3>2
  <2> QED
    BY <2>1, <2>2
<1> QED
  BY <1>2, <1>5, <1>6, <1>7, <1>8, <1>10, <1>11, <1>12 DEF Indexing

LEMMA BacktrackSorts ==
  ASSUME pathInstance \in LagInstance, SortInv, Backtrack
  PROVE  SortInv'
<1> DEFINE v == Head(pathStack)
           n == Len(pathStack)
<1>1. /\ pathStack # <<>> /\ Unvisited = {} /\ pathStack' = Tail(pathStack)
      /\ UNCHANGED <<pathInstance, pathRoot, visited>>
      /\ IF indices[v] <= index
         THEN /\ indices' = [indices EXCEPT ![v] = index]
              /\ index' = IF index = 0 THEN Wrapped ELSE index - 1
         ELSE UNCHANGED <<indices, index>>
  BY DEF Backtrack, Wrapped
<1>2. /\ v = pathStack[1] /\ v \in Job
      /\ index \in 0 .. JobCount - 1 /\ index # Wrapped
      /\ indices[v] <= index <=> v \notin Indexed
      /\ Source(v) <=> n = 1
      /\ n = 1 => v \notin Indexed
      /\ \A e \in pathInstance.lags : e[1] = v => e[2] \in Indexed \/ OnStack(e[2])
      /\ Acyclic(pathInstance) =>
           \A e \in pathInstance.lags : e[1] = v => e[2] \in Indexed /\ e[2] # v
  BY <1>1, TopOfStack
<1>3. Indexing' /\ Indexed' = Indexed \cup {v}
  <2>1. CASE v \notin Indexed
    <3> HIDE DEF v
    <3> QED
      BY <1>1, <1>2, <2>1, OneMoreIndexed DEF SortInv
  <2>2. CASE v \in Indexed
    <3>1. UNCHANGED <<indices, index>>
      BY <1>1, <1>2, <2>2
    <3>2. Indexed' = Indexed
      BY <3>1 DEF Indexed
    <3> QED
      BY <1>1, <2>2, <3>1, <3>2 DEF SortInv, Indexing
  <2> QED
    BY <2>1, <2>2
<1>4. /\ pathStack \in Seq(Job) /\ n \in Nat /\ n >= 1
      /\ pathStack' \in Seq(Job) /\ Len(pathStack') = n - 1
      /\ \A k \in 1 .. n - 1 : pathStack'[k] = pathStack[k + 1]
      /\ pathStack' = <<>> <=> n = 1
  <2>1. pathStack \in Seq(Job)
    BY DEF SortInv, Search
  <2> QED
    BY <1>1, <2>1, Popped
<1>5. (\A u : Source(u)' = Source(u)) /\ (\A f : Along(f)' = Along(f))
  BY <1>1 DEF Source, ReverseNeighbors, Along
<1>6. pathRoot \in 1 .. JobCount + 1
  BY DEF SortInv, Roots
<1>7. Roots'
  <2> SUFFICES ASSUME NEW u \in Job, Source(u)
               PROVE  u \notin Indexed' <=>
                        u >= pathRoot \/ (pathStack' # <<>> /\ u = pathRoot - 1)
    BY <1>1, <1>5, <1>6 DEF Roots
  <2>1. u \notin Indexed <=> u >= pathRoot \/ u = pathRoot - 1
    BY <1>1 DEF SortInv, Roots
  <2>2. CASE n = 1
    <3>1. v = pathRoot - 1
      BY <1>1, <1>2, <2>2 DEF SortInv, Search
    <3>2. ~ (v >= pathRoot)
      BY <1>6, <3>1
    <3> HIDE DEF v
    <3> QED
      BY <1>3, <1>4, <2>1, <2>2, <3>1, <3>2
  <2>3. CASE n # 1
    <3>1. u # v
      BY <1>2, <2>3
    <3> HIDE DEF v
    <3> QED
      BY <1>3, <1>4, <2>1, <2>3, <3>1
  <2> QED
    BY <2>2, <2>3
<1>8. Search'
  <2>1. ASSUME pathStack' # <<>>
        PROVE  pathStack'[n - 1] = pathRoot - 1 /\ Source(pathRoot - 1)
    <3>1. n - 1 \in 1 .. n - 1 /\ (n - 1) + 1 = n
      BY <1>4, <2>1
    <3> QED
      BY <1>1, <1>4, <3>1 DEF SortInv, Search
  <2>2. \A k \in 1 .. (n - 1) - 1 : ~ Source(pathStack'[k])
    <3> TAKE k \in 1 .. (n - 1) - 1
    <3>1. k \in 1 .. n - 1 /\ k + 1 \in 1 .. n - 1
      BY <1>4
    <3> QED
      BY <1>4, <3>1 DEF SortInv, Search
  <2>3. ASSUME NEW f, Along(f), NEW k \in 1 .. n - 1, NEW l \in 1 .. n - 1, k < l
        PROVE  f[pathStack'[l]] < f[pathStack'[k]]
    <3>1. k + 1 \in 1 .. n /\ l + 1 \in 1 .. n /\ k + 1 < l + 1
      BY <1>4, <2>3
    <3> QED
      BY <1>4, <2>3, <3>1 DEF SortInv, Search
  <2>4. \A u : u \in Indexed \/ OnStack(u) => u \in Indexed' \/ OnStack(u)'
    <3> TAKE u
    <3>1. OnStack(u) => \E k \in 1 .. n : pathStack[k] = u
      BY DEF OnStack
    <3>2. ASSUME NEW k \in 1 .. n, pathStack[k] = u, u # v
          PROVE  k - 1 \in 1 .. n - 1 /\ pathStack'[k - 1] = u
      <4>1. k # 1
        BY <1>2, <3>2
      <4>2. k - 1 \in 1 .. n - 1 /\ (k - 1) + 1 = k
        BY <1>4, <4>1
      <4> QED
        BY <1>4, <3>2, <4>2
    <3>3. Len(pathStack') = n - 1
      BY <1>4
    <3> HIDE DEF v, n
    <3> QED
      BY <1>3, <3>1, <3>2, <3>3 DEF OnStack
  <2>5. visited \subseteq Job /\ \A u \in visited : u \in Indexed \/ OnStack(u)
    BY DEF SortInv, Search
  <2>6. ASSUME NEW e \in pathInstance.lags, e[1] \in Indexed'
        PROVE  e[2] \in Indexed' \/ OnStack(e[2])'
    <3>1. e[2] \in Indexed \/ OnStack(e[2])
      BY <1>2, <1>3, <2>6 DEF SortInv, Search
    <3> QED
      BY <2>4, <3>1
  <2> HIDE DEF n
  <2> QED
    BY <1>1, <1>4, <1>5, <2>1, <2>2, <2>3, <2>4, <2>5, <2>6 DEF Search
<1> QED
  BY <1>3, <1>7, <1>8 DEF SortInv

-----------------------------------------------------------------------------
\* In the end all jobs have an index, and the order goes along the edges.
OrderInv ==
  /\ lagsDag
  /\ indices \in [Job -> 0 .. JobCount - 1]
  /\ pathOrder \in [1 .. JobCount -> Job]
  /\ \A v \in Job : pathOrder[indices[v] + 1] = v
  /\ \A p \in 1 .. JobCount : indices[pathOrder[p]] = p - 1
  /\ \A e \in pathInstance.lags : indices[e[1]] < indices[e[2]]

LEMMA AllIndexed ==
  ASSUME pathInstance \in LagInstance, Acyclic(pathInstance), SortInv,
         pathStack = <<>>, pathRoot > JobCount
  PROVE  Indexed = Job
<1> DEFINE Bad == Job \ Indexed
<1>1. PICK f : Along(f)
  BY DEF Acyclic, Along
<1>2. \A v \in Job : f[v] \in Nat
  BY <1>1, JobsCounted DEF Along
<1>3. Indexed \subseteq Job
  BY DEF Indexed
<1>4. ASSUME Bad # {} PROVE FALSE
  <2>1. PICK m \in {f[v] : v \in Bad} : \A x \in {f[v] : v \in Bad} : m <= x
    <3>1. {f[v] : v \in Bad} \subseteq Nat /\ {f[v] : v \in Bad} # {}
      BY <1>2, <1>4
    <3> HIDE DEF Bad
    <3> QED
      BY <3>1, LeastNumber
  <2>2. PICK v \in Bad : f[v] = m
    OBVIOUS
  <2>3. ~ Source(v)
    <3>1. ~ (v >= pathRoot)
      BY JobsCounted DEF SortInv, Roots
    <3> QED
      BY <3>1 DEF SortInv, Roots
  <2>4. PICK e \in pathInstance.lags : e[2] = v
    BY <2>3 DEF Source, ReverseNeighbors
  <2>5. e[1] \in Job /\ f[e[1]] < f[v]
    BY <1>1, <2>4, EdgeTypes DEF Along
  <2>6. e[1] \notin Bad
    <3>1. ASSUME e[1] \in Bad PROVE FALSE
      <4>1. f[v] <= f[e[1]]
        BY <2>1, <2>2, <3>1
      <4> QED
        BY <1>2, <2>5, <4>1
    <3> QED
      BY <3>1
  <2>7. v \in Indexed
    BY <2>4, <2>5, <2>6 DEF SortInv, Indexing
  <2> QED
    BY <2>7
<1> QED
  BY <1>3, <1>4

LEMMA EndSortOrders ==
  ASSUME pathInstance \in LagInstance, Acyclic(pathInstance), SortInv, EndSort
  PROVE  OrderInv'
<1>1. /\ pathStack = <<>> /\ pathRoot > JobCount /\ pathOrder' = Ordered
      /\ UNCHANGED <<pathInstance, indices>>
      /\ lagsDag' = (\A e \in pathInstance.lags :
                       TopoIndex(Ordered)[e[1]] <= TopoIndex(Ordered)[e[2]])
  BY Zenon DEF EndSort, sortVars
<1>2. Indexed = Job /\ JobCount \in Nat \ {0} /\ Job = 1 .. JobCount
  BY <1>1, AllIndexed, JobsCounted
<1>3. /\ indices \in [Job -> 0 .. JobCount - 1]
      /\ \A v, w \in Job : indices[v] = indices[w] => v = w
      /\ \A e \in pathInstance.lags : indices[e[1]] < indices[e[2]]
  BY <1>2, EdgeTypes DEF SortInv, Indexing
<1>4. \A p \in 0 .. JobCount - 1 : \E v \in Job : indices[v] = p
  <2>1. indices \in Injection(Job, 0 .. JobCount - 1)
    BY <1>3 DEF Injection, IsInjective
  <2>2. /\ IsFiniteSet(0 .. JobCount - 1)
        /\ Cardinality(0 .. JobCount - 1) =
             IF 0 > JobCount - 1 THEN 0 ELSE (JobCount - 1) - 0 + 1
    BY <1>2, FS_Interval
  <2>3. Cardinality(0 .. JobCount - 1) = Cardinality(Job)
    BY <1>2, <2>2, JobsCounted
  <2>4. indices \in Surjection(Job, 0 .. JobCount - 1)
    BY <2>1, <2>2, <2>3, FS_Injection
  <2> QED
    BY <2>4 DEF Surjection
<1>5. ASSUME NEW p \in 1 .. JobCount
      PROVE  \E v \in Job : /\ indices[v] = p - 1 /\ Ordered[p] = v
  <2>1. PICK v \in Job : indices[v] = p - 1
    <3>1. p - 1 \in 0 .. JobCount - 1
      BY <1>2
    <3> QED
      BY <1>4, <3>1
  <2>2. {u \in Job : indices[u] = p - 1} = {v}
    BY <1>3, <2>1
  <2>3. Ordered[p] = Max({v})
    <3>1. Ordered[p] = LET here == {u \in Job : indices[u] = p - 1}
                       IN  IF here = {} THEN 1 ELSE Max(here)
      BY DEF Ordered
    <3> QED
      BY <2>2, <3>1
  <2>4. Max({v}) = v
    <3>1. PICK m : m = Max({v})
      OBVIOUS
    <3>2. {v} \subseteq Int /\ {v} # {} /\ v \in Int /\ \A x \in {v} : x <= v
      BY <1>2
    <3>3. Max({v}) \in {v}
      BY <3>2, MaxBounded, Zenon
    <3> QED
      BY <3>3
  <2> QED
    BY <2>1, <2>3, <2>4
<1>6. /\ pathOrder' \in [1 .. JobCount -> Job]
      /\ \A p \in 1 .. JobCount : indices[pathOrder'[p]] = p - 1
  <2>1. pathOrder' = [p \in 1 .. JobCount |-> Ordered[p]]
    BY <1>1 DEF Ordered
  <2> QED
    BY <1>1, <1>5, <2>1
<1>7. \A v \in Job : indices[v] + 1 \in 1 .. JobCount /\ pathOrder'[indices[v] + 1] = v
  <2> TAKE v \in Job
  <2>1. indices[v] + 1 \in 1 .. JobCount /\ (indices[v] + 1) - 1 = indices[v]
    BY <1>2, <1>3
  <2>2. pathOrder'[indices[v] + 1] \in Job /\ indices[pathOrder'[indices[v] + 1]] = indices[v]
    BY <1>6, <2>1
  <2> QED
    BY <1>3, <2>1, <2>2
<1>8. ASSUME NEW v \in Job
      PROVE  TopoIndex(Ordered)[v] = indices[v]
  <2>1. {p \in 1 .. JobCount : Ordered[p] = v} = {indices[v] + 1}
    <3>1. \A p \in 1 .. JobCount : Ordered[p] = v => p = indices[v] + 1
      <4> TAKE p \in 1 .. JobCount
      <4>1. indices[Ordered[p]] = p - 1 /\ p \in Int
        BY <1>1, <1>6
      <4> QED
        BY <4>1
    <3> QED
      BY <1>1, <1>7, <3>1
  <2>2. PICK q : q = indices[v] + 1
    OBVIOUS
  <2>3. TopoIndex(Ordered)[v] = Max({q}) - 1
    <3>1. TopoIndex(Ordered)[v] = LET places == {p \in 1 .. JobCount : Ordered[p] = v}
                                  IN  IF places = {} THEN 0 ELSE Max(places) - 1
      BY DEF TopoIndex
    <3> QED
      BY <2>1, <2>2, <3>1
  <2>4. Max({q}) = q /\ q \in Int
    <3>1. q \in Int
      BY <1>2, <1>3, <2>2
    <3>2. {q} \subseteq Int /\ {q} # {} /\ \A x \in {q} : x <= q
      BY <3>1
    <3>3. Max({q}) \in {q}
      BY <3>1, <3>2, MaxBounded, Zenon
    <3> QED
      BY <3>1, <3>3
  <2>5. indices[v] \in Int
    BY <1>2, <1>3
  <2> QED
    BY <2>2, <2>3, <2>4, <2>5
<1>9. lagsDag'
  <2> SUFFICES ASSUME NEW e \in pathInstance.lags
               PROVE  TopoIndex(Ordered)[e[1]] <= TopoIndex(Ordered)[e[2]]
    BY <1>1
  <2>1. /\ e[1] \in Job /\ e[2] \in Job /\ indices[e[1]] < indices[e[2]]
        /\ indices[e[1]] \in Int /\ indices[e[2]] \in Int
    BY <1>2, <1>3, EdgeTypes
  <2> QED
    BY <1>8, <2>1
<1> QED
  BY <1>1, <1>3, <1>6, <1>7, <1>9 DEF OrderInv

-----------------------------------------------------------------------------
(* The order of any graph: the jobs that the search has reached have a place *)
(* of their own, by which LAGS_DAG judges the edges between them.            *)

ReachedInOrder ==
  \E R \in SUBSET Job :
    /\ \A v \in Job : Source(v) => v \in R
    /\ \A e \in pathInstance.lags :
         e[1] \in R => e[2] \in R /\ indices[e[1]] <= indices[e[2]]
    /\ \A v, w \in R : indices[v] = indices[w] => v = w

PlacesInv ==
  /\ indices \in [Job -> Nat]
  /\ pathOrder \in [1 .. JobCount -> Job]
  /\ lagsDag => ReachedInOrder
  /\ pathInstance.lags = {} => lagsDag

\* The jobs of a set of numbers that are jobs have a largest one.
LEMMA LargestJob ==
  ASSUME NEW S \in SUBSET Int, S # {}, NEW high \in Int, \A x \in S : x <= high
  PROVE  Max(S) \in S /\ Max(S) \in Int /\ \A x \in S : x <= Max(S)
<1>1. Max(S) \in S /\ \A x \in S : Max(S) >= x
  BY MaxBounded, Zenon
<1> QED
  BY <1>1

LEMMA OrderedType == Ordered \in [1 .. JobCount -> Job]
<1>1. ASSUME NEW p \in 1 .. JobCount
      PROVE  Ordered[p] \in Job
  <2>1. PICK here : here = {v \in Job : indices[v] = p - 1}
    OBVIOUS
  <2>2. Ordered[p] = IF here = {} THEN 1 ELSE Max(here)
    BY <2>1 DEF Ordered
  <2>3. JobCount \in Int /\ 1 \in Job /\ here \in SUBSET Int /\ here \subseteq Job
        /\ \A x \in here : x <= JobCount
    BY <2>1, JobsCounted
  <2>4. here # {} => Max(here) \in here
    BY <2>3, LargestJob
  <2> QED
    BY <2>2, <2>3, <2>4
<1>2. Ordered = [p \in 1 .. JobCount |-> Ordered[p]]
  BY DEF Ordered
<1> QED
  BY <1>1, <1>2

\* The jobs with an index have the last places of all.
LEMMA PlacesTaken ==
  ASSUME Indexing
  PROVE  /\ \A v \in Indexed : \A u \in Job : indices[u] = indices[v] => u = v
         /\ \A v \in Indexed : \A q \in 0 .. JobCount - 1 :
              indices[v] <= q => \E u \in Job : indices[u] = q
<1>1. /\ JobCount \in Nat \ {0} /\ indices \in [Job -> Nat] /\ Indexed \subseteq Job
      /\ \A v \in Job : indices[v] \in Nat
      /\ \A v \in Job \ Indexed : indices[v] = 0
      /\ \A v \in Indexed : indices[v] <= JobCount - 1
      /\ \A v, w \in Indexed : indices[v] = indices[w] => v = w
  BY JobsCounted DEF Indexing, Indexed
<1>2. PICK low \in 0 .. JobCount :
        /\ \A v \in Indexed : low <= indices[v]
        /\ Cardinality(Indexed) = JobCount - low
        /\ Indexed = Job \/ low > 0
  <2>1. CASE index = Wrapped
    <3>1. Indexed = Job /\ Cardinality(Indexed) = JobCount - 0 /\ 0 \in 0 .. JobCount
      BY <1>1, <2>1, JobsCounted DEF Indexed
    <3>2. \A v \in Indexed : 0 <= indices[v]
      BY <1>1
    <3> QED
      BY <3>1, <3>2
  <2>2. CASE index # Wrapped
    <3>1. index \in 0 .. JobCount - 1 /\ Cardinality(Indexed) = JobCount - 1 - index
      BY <2>2 DEF Indexing
    <3>2. \A v \in Indexed : indices[v] > index
      BY <2>2 DEF Indexed
    <3>3. index + 1 \in 0 .. JobCount /\ index + 1 > 0 /\ JobCount - 1 - index = JobCount - (index + 1)
          /\ \A v \in Indexed : index + 1 <= indices[v]
      BY <1>1, <3>1, <3>2
    <3> QED
      BY <3>1, <3>3
  <2> QED
    BY <2>1, <2>2
<1>3. ASSUME NEW v \in Indexed, NEW u \in Job, indices[u] = indices[v]
      PROVE  u = v
  <2>1. u \in Indexed
    <3>1. ASSUME u \notin Indexed PROVE FALSE
      <4>1. indices[u] = 0 /\ low > 0 /\ low <= indices[v]
        BY <1>1, <1>2, <3>1
      <4> QED
        BY <1>2, <1>3, <4>1
    <3> QED
      BY <3>1
  <2> QED
    BY <1>1, <1>3, <2>1
<1>4. ASSUME NEW v \in Indexed, NEW q \in 0 .. JobCount - 1, indices[v] <= q
      PROVE  \E u \in Job : indices[u] = q
  <2> DEFINE f == [u \in Indexed |-> indices[u]]
  <2>1. \A u \in Indexed : indices[u] \in low .. JobCount - 1
    BY <1>1, <1>2
  <2>2. f \in Injection(Indexed, low .. JobCount - 1)
    BY <1>1, <2>1 DEF Injection, IsInjective
  <2>3. IsFiniteSet(low .. JobCount - 1) /\ Cardinality(low .. JobCount - 1) = JobCount - low
    <3>1. JobCount - 1 \in Int /\ low \in Int
      BY <1>1, <1>2
    <3>2. /\ IsFiniteSet(low .. JobCount - 1)
          /\ Cardinality(low .. JobCount - 1) =
               IF low > JobCount - 1 THEN 0 ELSE (JobCount - 1) - low + 1
      BY <3>1, FS_Interval
    <3> QED
      BY <1>1, <1>2, <3>2
  <2>4. f \in Surjection(Indexed, low .. JobCount - 1)
    <3> HIDE DEF f
    <3> QED
      BY <1>2, <2>2, <2>3, FS_Injection
  <2>5. q \in low .. JobCount - 1
    BY <1>1, <1>2, <1>4
  <2>6. PICK u \in Indexed : f[u] = q
    BY <2>4, <2>5 DEF Surjection
  <2> QED
    BY <1>1, <2>6
<1> QED
  BY <1>3, <1>4

LEMMA PlacesKept ==
  ASSUME Indexing, NEW v \in Indexed
  PROVE  TopoIndex(Ordered)[v] = indices[v]
<1>1. /\ JobCount \in Nat \ {0} /\ v \in Job /\ v \in Int
      /\ indices[v] \in Nat /\ indices[v] <= JobCount - 1
  BY JobsCounted DEF Indexing, Indexed
<1>2. PICK p \in 1 .. JobCount : p = indices[v] + 1 /\ p - 1 = indices[v]
  <2>1. indices[v] + 1 \in 1 .. JobCount /\ (indices[v] + 1) - 1 = indices[v]
    BY <1>1
  <2> QED
    BY <2>1
<1>3. Ordered[p] = v
  <2>1. {u \in Job : indices[u] = p - 1} = {v}
    BY <1>1, <1>2, PlacesTaken
  <2>2. Ordered[p] = LET here == {u \in Job : indices[u] = p - 1}
                     IN  IF here = {} THEN 1 ELSE Max(here)
    BY DEF Ordered
  <2>3. Ordered[p] = Max({v})
    BY <2>1, <2>2
  <2>4. {v} \in SUBSET Int /\ {v} # {} /\ \A x \in {v} : x <= v
    BY <1>1
  <2>5. Max({v}) \in {v}
    BY <1>1, <2>4, LargestJob
  <2> QED
    BY <2>3, <2>5
<1>4. ASSUME NEW q \in 1 .. JobCount, Ordered[q] = v
      PROVE  q <= p
  <2> SUFFICES ASSUME ~ (q <= p) PROVE FALSE
    OBVIOUS
  <2>1. q - 1 \in 0 .. JobCount - 1 /\ indices[v] <= q - 1 /\ q - 1 # indices[v]
    BY <1>1, <1>2
  <2>2. PICK here : here = {u \in Job : indices[u] = q - 1}
    OBVIOUS
  <2>3. here # {}
    BY <2>1, <2>2, PlacesTaken
  <2>4. Ordered[q] = Max(here)
    BY <2>2, <2>3 DEF Ordered
  <2>5. JobCount \in Int /\ here \in SUBSET Int /\ \A x \in here : x <= JobCount
    BY <2>2, JobsCounted
  <2>6. v \in here
    BY <1>4, <2>3, <2>4, <2>5, LargestJob
  <2> QED
    BY <2>1, <2>2, <2>6
<1>5. PICK places : places = {q \in 1 .. JobCount : Ordered[q] = v}
  OBVIOUS
<1>6. TopoIndex(Ordered)[v] = IF places = {} THEN 0 ELSE Max(places) - 1
  BY <1>1, <1>5 DEF TopoIndex
<1>7. places \in SUBSET Int /\ p \in places /\ p \in Int /\ \A x \in places : x <= p
  BY <1>3, <1>4, <1>5
<1>8. Max(places) \in places /\ Max(places) \in Int /\ \A x \in places : x <= Max(places)
  BY <1>7, LargestJob
<1>9. Max(places) = p
  BY <1>7, <1>8
<1> QED
  BY <1>2, <1>6, <1>7, <1>9

LEMMA EndSortPlaces ==
  ASSUME pathInstance \in LagInstance, SortInv, EndSort
  PROVE  PlacesInv'
<1>1. /\ pathStack = <<>> /\ pathRoot > JobCount /\ pathOrder' = Ordered
      /\ UNCHANGED <<pathInstance, indices>>
      /\ lagsDag' = (\A e \in pathInstance.lags :
                       TopoIndex(Ordered)[e[1]] <= TopoIndex(Ordered)[e[2]])
  BY Zenon DEF EndSort, sortVars
<1>2. pathOrder' \in [1 .. JobCount -> Job]
  BY <1>1, OrderedType
<1>3. indices' \in [Job -> Nat] /\ Indexed \subseteq Job
  BY <1>1 DEF SortInv, Indexing, Indexed
<1>4. pathInstance'.lags = {} => lagsDag'
  BY <1>1
<1>5. ASSUME lagsDag' PROVE ReachedInOrder'
  <2>1. \A v \in Job : Source(v)' = Source(v)
    BY <1>1 DEF Source, ReverseNeighbors
  <2>2. \A v \in Job : Source(v) => v \in Indexed
    <3>1. \A v \in Job : ~ (v >= pathRoot)
      BY <1>1, JobsCounted DEF SortInv, Roots
    <3> QED
      BY <1>1, <3>1 DEF SortInv, Roots
  <2>3. ASSUME NEW e \in pathInstance.lags, e[1] \in Indexed
        PROVE  e[2] \in Indexed /\ indices[e[1]] <= indices[e[2]]
    <3>1. e[2] \in Indexed
      <4>1. ~ OnStack(e[2])
        BY <1>1 DEF OnStack
      <4> QED
        BY <2>3, <4>1 DEF SortInv, Search
    <3>2. /\ TopoIndex(Ordered)[e[1]] = indices[e[1]]
          /\ TopoIndex(Ordered)[e[2]] = indices[e[2]]
      BY <2>3, <3>1, PlacesKept DEF SortInv
    <3> QED
      BY <1>1, <1>5, <3>1, <3>2
  <2>4. \A v, w \in Indexed : indices[v] = indices[w] => v = w
    BY DEF SortInv, Indexing
  <2>5. PICK R \in SUBSET Job : R = Indexed
    BY <1>3
  <2>6. /\ \A v \in Job : Source(v)' => v \in R
        /\ \A e \in pathInstance'.lags :
             e[1] \in R => e[2] \in R /\ indices'[e[1]] <= indices'[e[2]]
        /\ \A v, w \in R : indices'[v] = indices'[w] => v = w
    BY <1>1, <2>1, <2>2, <2>3, <2>4, <2>5
  <2> QED
    BY <2>6 DEF ReachedInOrder
<1> QED
  BY <1>2, <1>3, <1>4, <1>5 DEF PlacesInv

-----------------------------------------------------------------------------
(* The forward sweep.                                                        *)

\* The edges out of the first n jobs of the order are relaxed, and every start is
\* where it is for a reason.
ForwardUpTo(n) ==
  /\ earliest_start \in [Job -> Nat]
  /\ \A v \in Job : pathInstance.release[v] <= earliest_start[v]
  /\ \A e \in pathInstance.lags :
       indices[e[1]] < n => earliest_start[e[1]] + e[3] <= earliest_start[e[2]]
  /\ \A v \in Job :
       \/ earliest_start[v] = pathInstance.release[v]
       \/ \E e \in pathInstance.lags :
            /\ e[2] = v /\ indices[e[1]] < n
            /\ earliest_start[v] = earliest_start[e[1]] + e[3]

LEMMA ForwardBegins ==
  ASSUME pathInstance' \in LagInstance, OrderInv',
         earliest_start' = pathInstance'.release
  PROVE  ForwardUpTo(0)'
<1>1. /\ pathInstance'.release \in [Job -> Nat]
      /\ \A e \in pathInstance'.lags : e[1] \in Job
      /\ \A v \in Job : pathInstance'.release[v] \in Nat
  BY InstanceTypes
<1>2. \A v \in Job : ~ (indices'[v] < 0)
  <2>1. \A v \in Job : indices'[v] \in 0 .. JobCount - 1
    BY DEF OrderInv
  <2> QED
    BY <2>1
<1>3. \A v \in Job : pathInstance'.release[v] <= pathInstance'.release[v]
  BY <1>1
<1> QED
  BY <1>1, <1>2, <1>3 DEF ForwardUpTo

LEMMA ForwardEnds ==
  ASSUME pathInstance \in LagInstance, OrderInv, ForwardUpTo(JobCount)
  PROVE  Earliest(pathInstance, earliest_start)
<1>1. \A e \in pathInstance.lags : indices[e[1]] < JobCount
  <2>1. \A v \in Job : indices[v] < JobCount
    BY JobsCounted DEF OrderInv
  <2> QED
    BY <2>1, EdgeTypes
<1> QED
  BY <1>1 DEF ForwardUpTo, Earliest, NotTooEarly

\* One step of the forward sweep, on any graph.
LEMMA StartsRise ==
  ASSUME pathInstance \in LagInstance, IsFiniteSet(pathInstance.lags),
         earliest_start \in [Job -> Nat], RelaxForward,
         NEW v \in Job, v = pathOrder[pathSwept + 1]
  PROVE  /\ UNCHANGED <<pathInstance, indices>>
         /\ earliest_start' \in [Job -> Nat]
         /\ \A t \in Job :
              /\ earliest_start[t] <= earliest_start'[t]
              /\ \A e \in pathInstance.lags :
                   e[1] = v /\ e[2] = t => earliest_start[v] + e[3] <= earliest_start'[t]
              /\ \/ earliest_start'[t] = earliest_start[t]
                 \/ \E e \in pathInstance.lags :
                      e[1] = v /\ e[2] = t /\ earliest_start'[t] = earliest_start[v] + e[3]
<1> DEFINE es == earliest_start
           OutOf(t) == {e \in pathInstance.lags : e[1] = v /\ e[2] = t}
           Rise(t) == {es[t]} \cup {Larger(0, es[v] + e[3]) : e \in OutOf(t)}
<1>1. v \in Job
  OBVIOUS
<1>2. /\ es \in [Job -> Nat] /\ \A u \in Job : es[u] \in Nat
      /\ \A e \in pathInstance.lags : e[1] \in Job /\ e[2] \in Job /\ e[3] \in Int
  BY EdgeTypes
<1>3. UNCHANGED <<pathInstance, indices>> /\ es' = [t \in Job |-> Max(Rise(t))]
  <2>1. \A t : {f \in Neighbors(pathOrder[pathSwept + 1]) : f[2] = t} = OutOf(t)
    BY DEF Neighbors
  <2>2. UNCHANGED <<pathInstance, indices>>
    BY DEF RelaxForward, sortVars
  <2>3. es' = [t \in Job |->
                 Max({es[t]} \cup
                   {Larger(0, es[pathOrder[pathSwept + 1]] + e[3]) :
                      e \in {f \in Neighbors(pathOrder[pathSwept + 1]) : f[2] = t}})]
    BY DEF RelaxForward
  <2> HIDE DEF OutOf
  <2> QED
    BY <2>1, <2>2, <2>3
<1>4. \A t \in Job : Max(Rise(t)) \in Rise(t) /\ \A x \in Rise(t) : x <= Max(Rise(t))
  <2> TAKE t \in Job
  <2>1. PICK high \in Int : \A e \in pathInstance.lags : es[v] + e[3] <= high
    <3> DEFINE g == [e \in pathInstance.lags |-> es[v] + e[3]]
    <3>1. \A e \in pathInstance.lags : g[e] \in Int
      BY <1>1, <1>2
    <3> HIDE DEF g
    <3>2. \E high \in Int : \A e \in pathInstance.lags : g[e] <= high
      BY <3>1, FiniteBounded
    <3> QED
      BY <3>2 DEF g
  <2>2. PICK top \in Int : high <= top /\ 0 <= top /\ es[t] <= top
    <3>1. es[t] \in Nat
      BY <1>2
    <3>2. CASE high <= es[t]
      BY <3>1, <3>2
    <3>3. CASE ~ (high <= es[t])
      BY <3>1, <3>3
    <3> QED
      BY <3>2, <3>3
  <2>3. \A x \in Rise(t) : x \in Int /\ x <= top
    <3>1. es[t] \in Int /\ es[t] <= top
      BY <1>2, <2>2
    <3>2. \A e \in OutOf(t) : Larger(0, es[v] + e[3]) \in Int /\ Larger(0, es[v] + e[3]) <= top
      <4> TAKE e \in OutOf(t)
      <4>1. es[v] + e[3] \in Int /\ es[v] + e[3] <= high
        BY <1>1, <1>2, <2>1
      <4>2. PICK x : x = es[v] + e[3]
        OBVIOUS
      <4>3. Larger(0, x) \in Int /\ Larger(0, x) <= top
        BY <2>2, <4>1, <4>2 DEF Larger
      <4> QED
        BY <4>2, <4>3
    <3> HIDE DEF OutOf
    <3> QED
      BY <3>1, <3>2
  <2>4. PICK R : R = Rise(t)
    OBVIOUS
  <2>5. R \subseteq Int /\ R # {} /\ \A x \in R : x <= top
    BY <2>3, <2>4
  <2>6. Max(R) \in R /\ \A x \in R : Max(R) >= x
    BY <2>5, MaxBounded, Zenon
  <2>7. Max(R) \in R /\ \A x \in R : x <= Max(R)
    BY <2>5, <2>6
  <2> HIDE DEF Rise
  <2> QED
    BY <2>4, <2>7
<1>5. \A t \in Job :
        /\ es'[t] \in Nat /\ es[t] <= es'[t]
        /\ \A e \in OutOf(t) : es[v] + e[3] <= es'[t]
        /\ es'[t] = es[t] \/ \E e \in OutOf(t) : es'[t] = es[v] + e[3]
  <2> TAKE t \in Job
  <2>1. es'[t] \in Rise(t) /\ \A x \in Rise(t) : x <= es'[t]
    <3> HIDE DEF Rise
    <3> QED
      BY <1>3, <1>4
  <2>2. \A e \in OutOf(t) : es[v] + e[3] \in Int /\ Larger(0, es[v] + e[3]) \in Nat
    BY <1>1, <1>2 DEF Larger
  <2>3. es'[t] \in Nat /\ es[t] \in Nat
    <3>1. es'[t] = es[t] \/ \E e \in OutOf(t) : es'[t] = Larger(0, es[v] + e[3])
      BY <2>1
    <3> HIDE DEF OutOf
    <3> QED
      BY <1>2, <2>2, <3>1
  <2>4. es[t] <= es'[t]
    BY <2>1
  <2>5. \A e \in OutOf(t) : es[v] + e[3] <= es'[t]
    <3> TAKE e \in OutOf(t)
    <3>1. Larger(0, es[v] + e[3]) <= es'[t]
      BY <2>1
    <3> QED
      BY <2>2, <2>3, <3>1 DEF Larger
  <2>6. es'[t] = es[t] \/ \E e \in OutOf(t) : es'[t] = es[v] + e[3]
    <3>1. ASSUME NEW e \in OutOf(t), es'[t] = Larger(0, es[v] + e[3])
          PROVE  es'[t] = es[t] \/ es'[t] = es[v] + e[3]
      BY <2>2, <2>3, <2>4, <3>1 DEF Larger
    <3> QED
      BY <2>1, <3>1
  <2> QED
    BY <2>3, <2>4, <2>5, <2>6
<1>6. es' \in [Job -> Nat]
  <2>1. es' = [t \in Job |-> es'[t]]
    BY <1>3
  <2>2. \A t \in Job : es'[t] \in Nat
    BY <1>5
  <2> QED
    BY <2>1, <2>2
<1>7. \A t \in Job :
        /\ es[t] <= es'[t]
        /\ \A e \in pathInstance.lags : e[1] = v /\ e[2] = t => es[v] + e[3] <= es'[t]
        /\ \/ es'[t] = es[t]
           \/ \E e \in pathInstance.lags : e[1] = v /\ e[2] = t /\ es'[t] = es[v] + e[3]
  BY <1>5
<1> HIDE DEF OutOf, Rise
<1> QED
  BY <1>3, <1>6, <1>7

LEMMA ForwardSweeps ==
  ASSUME pathInstance \in LagInstance, IsFiniteSet(pathInstance.lags), OrderInv,
         NEW n \in 0 .. JobCount - 1, pathSwept = n, ForwardUpTo(n), RelaxForward
  PROVE  ForwardUpTo(n + 1)'
<1> DEFINE v == pathOrder[n + 1]
           es == earliest_start
           OutOf(t) == {e \in pathInstance.lags : e[1] = v /\ e[2] = t}
<1>1. /\ v \in Job /\ indices[v] = n
      /\ n \in Nat /\ \A u \in Job : indices[u] \in Nat
      /\ \A u \in Job : indices[u] = n => u = v
  <2>1. n + 1 \in 1 .. JobCount /\ n \in Nat
    BY JobsCounted
  <2>2. v \in Job /\ indices[v] = (n + 1) - 1
    BY <2>1 DEF OrderInv
  <2>3. \A u \in Job : indices[u] \in Nat /\ pathOrder[indices[u] + 1] = u
    <3>1. \A u \in Job : indices[u] \in 0 .. JobCount - 1 /\ pathOrder[indices[u] + 1] = u
      BY DEF OrderInv
    <3> QED
      BY <3>1
  <2> QED
    BY <2>1, <2>2, <2>3
<1>2. /\ es \in [Job -> Nat] /\ \A u \in Job : es[u] \in Nat /\ pathInstance.release[u] \in Nat
      /\ \A e \in pathInstance.lags :
           e[1] \in Job /\ e[2] \in Job /\ e[3] \in Int /\ indices[e[1]] < indices[e[2]]
  BY EdgeTypes, InstanceTypes DEF ForwardUpTo, OrderInv
<1>3. /\ UNCHANGED <<pathInstance, indices>> /\ es' \in [Job -> Nat]
      /\ \A t \in Job :
           /\ es[t] <= es'[t]
           /\ \A e \in pathInstance.lags : e[1] = v /\ e[2] = t => es[v] + e[3] <= es'[t]
           /\ \/ es'[t] = es[t]
              \/ \E e \in pathInstance.lags : e[1] = v /\ e[2] = t /\ es'[t] = es[v] + e[3]
  <2>1. pathOrder[n + 1] = pathOrder[pathSwept + 1]
    OBVIOUS
  <2> HIDE DEF v
  <2>2. v = pathOrder[pathSwept + 1]
    BY <2>1 DEF v
  <2> QED
    BY <1>1, <1>2, <2>2, StartsRise
<1>5. \A t \in Job :
        /\ es'[t] \in Nat /\ es[t] <= es'[t]
        /\ \A e \in OutOf(t) : es[v] + e[3] <= es'[t]
        /\ es'[t] = es[t] \/ \E e \in OutOf(t) : es'[t] = es[v] + e[3]
  <2>1. \A t \in Job : es'[t] \in Nat
    BY <1>3
  <2> HIDE DEF v
  <2> QED
    BY <1>3, <2>1
<1>6. \A t \in Job : indices[t] <= n => es'[t] = es[t]
  <2> TAKE t \in Job
  <2>1. indices[t] <= n => OutOf(t) = {}
    <3>1. \A e \in OutOf(t) : indices[v] < indices[t]
      BY <1>2
    <3>2. indices[t] \in Nat
      BY <1>1
    <3> HIDE DEF OutOf
    <3> QED
      BY <1>1, <3>1, <3>2
  <2> HIDE DEF OutOf
  <2> QED
    BY <1>5, <2>1
<1> HIDE DEF v
<1>7. es' \in [Job -> Nat]
  BY <1>3
<1>8. \A t \in Job : pathInstance.release[t] <= es'[t]
  <2> TAKE t \in Job
  <2>1. pathInstance.release[t] <= es[t]
    BY DEF ForwardUpTo
  <2>2. es[t] <= es'[t] /\ es'[t] \in Nat /\ es[t] \in Nat /\ pathInstance.release[t] \in Nat
    BY <1>2, <1>5
  <2> QED
    BY <2>1, <2>2
<1>9. ASSUME NEW e \in pathInstance.lags, indices[e[1]] < n + 1
      PROVE  es'[e[1]] + e[3] <= es'[e[2]]
  <2>1. es'[e[1]] = es[e[1]]
    BY <1>1, <1>2, <1>6, <1>9
  <2>2. /\ es[e[1]] \in Nat /\ es[e[2]] \in Nat /\ es'[e[2]] \in Nat /\ e[3] \in Int
        /\ es[e[2]] <= es'[e[2]]
    BY <1>2, <1>5
  <2>3. CASE e[1] = v
    <3>1. e \in OutOf(e[2]) /\ e[2] \in Job
      BY <1>2, <2>3
    <3>2. es[v] + e[3] <= es'[e[2]]
      BY <1>5, <3>1
    <3> QED
      BY <2>1, <2>3, <3>2
  <2>4. CASE e[1] # v
    <3>1. indices[e[1]] < n
      BY <1>1, <1>2, <1>9, <2>4
    <3>2. es[e[1]] + e[3] <= es[e[2]]
      BY <3>1 DEF ForwardUpTo
    <3> QED
      BY <2>1, <2>2, <3>2
  <2> QED
    BY <2>3, <2>4
<1>10. ASSUME NEW t \in Job
       PROVE  \/ es'[t] = pathInstance.release[t]
              \/ \E e \in pathInstance.lags :
                   e[2] = t /\ indices[e[1]] < n + 1 /\ es'[t] = es'[e[1]] + e[3]
  <2>1. CASE es'[t] = es[t]
    <3>1. CASE es[t] = pathInstance.release[t]
      BY <2>1, <3>1
    <3>2. CASE es[t] # pathInstance.release[t]
      <4>1. PICK e \in pathInstance.lags :
              e[2] = t /\ indices[e[1]] < n /\ es[t] = es[e[1]] + e[3]
        BY <3>2 DEF ForwardUpTo
      <4>2. indices[e[1]] <= n /\ indices[e[1]] < n + 1
        BY <1>1, <1>2, <4>1
      <4>3. es'[e[1]] = es[e[1]]
        BY <1>2, <1>6, <4>2
      <4> QED
        BY <2>1, <4>1, <4>2, <4>3
    <3> QED
      BY <3>1, <3>2
  <2>2. CASE es'[t] # es[t]
    <3>1. PICK e \in OutOf(t) : es'[t] = es[v] + e[3]
      BY <1>5, <2>2
    <3>2. es'[v] = es[v] /\ indices[v] < n + 1
      BY <1>1, <1>6
    <3> QED
      BY <3>1, <3>2
  <2> QED
    BY <2>1, <2>2
<1> HIDE DEF OutOf
<1> QED
  BY <1>3, <1>7, <1>8, <1>9, <1>10 DEF ForwardUpTo

-----------------------------------------------------------------------------
(* The reverse sweep.                                                        *)

\* The edges into the last n jobs of the order are relaxed, and every finish is
\* where it is for a reason.
ReverseUpTo(n) ==
  /\ latest_finish \in [Job -> Nat]
  /\ \A v \in Job : latest_finish[v] <= pathInstance.deadline[v]
  /\ \A e \in pathInstance.lags :
       indices[e[2]] >= JobCount - n =>
         latest_finish[e[1]] - pathInstance.duration[e[1]] + e[3]
           <= latest_finish[e[2]] - pathInstance.duration[e[2]]
  /\ \A v \in Job :
       \/ latest_finish[v] = pathInstance.deadline[v]
       \/ \E e \in pathInstance.lags :
            /\ e[1] = v /\ indices[e[2]] >= JobCount - n
            /\ latest_finish[v] - pathInstance.duration[v] + e[3]
                 = latest_finish[e[2]] - pathInstance.duration[e[2]]

LEMMA ReverseBegins ==
  ASSUME pathInstance' \in LagInstance, OrderInv',
         latest_finish' = pathInstance'.deadline
  PROVE  ReverseUpTo(0)'
<1>1. /\ pathInstance'.deadline \in [Job -> Nat]
      /\ \A e \in pathInstance'.lags : e[2] \in Job
      /\ \A v \in Job : pathInstance'.deadline[v] \in Nat
  BY InstanceTypes
<1>2. \A v \in Job : ~ (indices'[v] >= JobCount - 0)
  <2>1. \A v \in Job : indices'[v] \in 0 .. JobCount - 1
    BY DEF OrderInv
  <2> QED
    BY <2>1, JobsCounted
<1>3. \A v \in Job : pathInstance'.deadline[v] <= pathInstance'.deadline[v]
  BY <1>1
<1> QED
  BY <1>1, <1>2, <1>3 DEF ReverseUpTo

LEMMA ReverseEnds ==
  ASSUME pathInstance \in LagInstance, OrderInv, ReverseUpTo(JobCount)
  PROVE  Latest(pathInstance, latest_finish)
<1>1. \A e \in pathInstance.lags : indices[e[2]] >= JobCount - JobCount
  <2>1. \A v \in Job : indices[v] \in 0 .. JobCount - 1
    BY DEF OrderInv
  <2>2. \A v \in Job : indices[v] >= JobCount - JobCount
    BY <2>1, JobsCounted
  <2> QED
    BY <2>2, EdgeTypes
<1> QED
  BY <1>1 DEF ReverseUpTo, Latest, NotTooLate

\* What an edge asks of a schedule, if the schedule is within the finish of the
\* job that it leads to.
LEMMA FinishBounds ==
  ASSUME pathInstance \in LagInstance, NEW e \in pathInstance.lags,
         NEW s \in LagSchedules(pathInstance), latest_finish[e[2]] \in Nat,
         s[e[2]] + pathInstance.duration[e[2]] <= latest_finish[e[2]]
  PROVE  /\ NewFinish(e) \in Int /\ s[e[1]] \in Nat
         /\ s[e[1]] + pathInstance.duration[e[1]] <= NewFinish(e)
<1>1. PICK u, w : u = e[1] /\ w = e[2]
  OBVIOUS
<1>2. /\ u \in Job /\ w \in Job /\ e[3] \in Int
      /\ \A x \in Job : pathInstance.duration[x] \in Nat
  BY <1>1, EdgeTypes, InstanceTypes
<1>3. /\ \A x \in Job : s[x] \in Nat
      /\ s[u] + e[3] <= s[w]
  BY <1>1, LastDeadlineType DEF LagSchedules, LagFeasible
<1>4. s[w] + pathInstance.duration[w] <= latest_finish[w] /\ latest_finish[w] \in Nat
  BY <1>1
<1>5. NewFinish(e) = latest_finish[w] - pathInstance.duration[w] + pathInstance.duration[u] - e[3]
  BY <1>1 DEF NewFinish
<1>6. /\ s[u] \in Nat /\ s[w] \in Nat /\ pathInstance.duration[u] \in Nat
      /\ pathInstance.duration[w] \in Nat
  BY <1>2, <1>3
<1> QED
  BY <1>1, <1>2, <1>3, <1>4, <1>5, <1>6

\* One step of the reverse sweep, on any graph, unless it throws.
LEMMA FinishesFall ==
  ASSUME pathInstance \in LagInstance, latest_finish \in [Job -> Nat], RelaxReverse,
         NEW v \in Job, v = pathOrder[JobCount - pathSwept],
         ~ \E e \in ReverseNeighbors(v) : NewFinish(e) < 0
  PROVE  /\ latest_finish' \in [Job -> Nat]
         /\ pathSwept' = pathSwept + 1
         /\ pathPhase' = IF pathSwept + 1 = JobCount THEN "count" ELSE "reverse"
         /\ \A s \in Job :
              /\ latest_finish'[s] <= latest_finish[s]
              /\ \A e \in pathInstance.lags :
                   e[2] = v /\ e[1] = s => latest_finish'[s] <= NewFinish(e)
              /\ \/ latest_finish'[s] = latest_finish[s]
                 \/ \E e \in pathInstance.lags :
                      e[2] = v /\ e[1] = s /\ latest_finish'[s] = NewFinish(e)
<1> DEFINE lf == latest_finish
           d == pathInstance.duration
           InTo(s) == {e \in pathInstance.lags : e[2] = v /\ e[1] = s}
           Fall(s) == {lf[s]} \cup {NewFinish(e) : e \in InTo(s)}
<1>0. /\ \A u \in Job : lf[u] \in Nat /\ d[u] \in Nat
      /\ \A e \in pathInstance.lags : e[1] \in Job /\ e[2] \in Job /\ e[3] \in Int
  BY EdgeTypes, InstanceTypes
<1>1. /\ lf' = [s \in Job |-> Min(Fall(s))]
      /\ pathSwept' = pathSwept + 1
      /\ pathPhase' = IF pathSwept + 1 = JobCount THEN "count" ELSE "reverse"
  <2>1. \A s : {f \in ReverseNeighbors(pathOrder[JobCount - pathSwept]) : f[1] = s} = InTo(s)
    BY DEF ReverseNeighbors
  <2>2. /\ lf' = [s \in Job |->
                    Min({lf[s]} \cup
                        {NewFinish(e) : e \in {f \in ReverseNeighbors(pathOrder[JobCount - pathSwept]) : f[1] = s}})]
        /\ pathSwept' = pathSwept + 1
        /\ pathPhase' = IF pathSwept + 1 = JobCount THEN "count" ELSE "reverse"
    BY DEF RelaxReverse
  <2> HIDE DEF InTo
  <2> QED
    BY <2>1, <2>2
<1>2. \A e \in pathInstance.lags : e[2] = v => NewFinish(e) \in Nat
  <2> TAKE e \in pathInstance.lags
  <2>1. NewFinish(e) = lf[e[2]] - d[e[2]] + d[e[1]] - e[3]
    BY DEF NewFinish
  <2>2. e[2] = v => ~ (NewFinish(e) < 0)
    BY DEF ReverseNeighbors
  <2> QED
    BY <1>0, <2>1, <2>2
<1>3. \A s \in Job : Min(Fall(s)) \in Fall(s) /\ \A x \in Fall(s) : Min(Fall(s)) <= x
  <2> TAKE s \in Job
  <2>1. PICK F : F = Fall(s)
    OBVIOUS
  <2>2. F \subseteq Nat /\ F # {}
    BY <1>0, <1>2, <2>1
  <2>3. F \subseteq Int /\ 0 \in Int /\ \A x \in F : 0 <= x
    BY <2>2
  <2>4. Min(F) \in F /\ \A x \in F : Min(F) <= x
    BY <2>2, <2>3, MinBounded, Zenon
  <2> HIDE DEF Fall
  <2> QED
    BY <2>1, <2>4
<1>4. \A s \in Job :
        /\ lf'[s] \in Nat /\ lf'[s] <= lf[s]
        /\ \A e \in InTo(s) : lf'[s] <= NewFinish(e)
        /\ lf'[s] = lf[s] \/ \E e \in InTo(s) : lf'[s] = NewFinish(e)
  <2> TAKE s \in Job
  <2>1. lf'[s] \in Fall(s) /\ \A x \in Fall(s) : lf'[s] <= x
    <3> HIDE DEF Fall
    <3> QED
      BY <1>1, <1>3
  <2>2. \A e \in InTo(s) : NewFinish(e) \in Nat
    BY <1>2
  <2>3. lf'[s] = lf[s] \/ \E e \in InTo(s) : lf'[s] = NewFinish(e)
    BY <2>1
  <2>4. lf'[s] <= lf[s] /\ \A e \in InTo(s) : lf'[s] <= NewFinish(e)
    BY <2>1
  <2> HIDE DEF InTo
  <2> QED
    BY <1>0, <2>2, <2>3, <2>4
<1>5. lf' \in [Job -> Nat]
  <2>1. lf' = [s \in Job |-> lf'[s]]
    BY <1>1
  <2>2. \A s \in Job : lf'[s] \in Nat
    BY <1>4
  <2> QED
    BY <2>1, <2>2
<1>6. \A s \in Job :
        /\ lf'[s] <= lf[s]
        /\ \A e \in pathInstance.lags : e[2] = v /\ e[1] = s => lf'[s] <= NewFinish(e)
        /\ \/ lf'[s] = lf[s]
           \/ \E e \in pathInstance.lags : e[2] = v /\ e[1] = s /\ lf'[s] = NewFinish(e)
  BY <1>4
<1> HIDE DEF InTo, Fall
<1> QED
  BY <1>1, <1>5, <1>6

LEMMA ReverseSweeps ==
  ASSUME pathInstance \in LagInstance, OrderInv,
         NEW n \in 0 .. JobCount - 1, pathSwept = n, ReverseUpTo(n), RelaxReverse
  PROVE  \/ pathPhase' = "throw"
         \/ /\ ReverseUpTo(n + 1)' /\ pathSwept' = n + 1
            /\ pathPhase' = IF n + 1 = JobCount THEN "count" ELSE "reverse"
<1> DEFINE v == pathOrder[JobCount - n]
           lf == latest_finish
           d == pathInstance.duration
           InTo(s) == {e \in pathInstance.lags : e[2] = v /\ e[1] = s}
<1>1. /\ v \in Job /\ indices[v] = JobCount - (n + 1) /\ n \in Nat /\ JobCount \in Nat
      /\ \A u \in Job : indices[u] \in 0 .. JobCount - 1
      /\ \A u \in Job : indices[u] = JobCount - (n + 1) => u = v
  <2>1. JobCount - n \in 1 .. JobCount /\ n \in Nat /\ JobCount \in Nat
        /\ JobCount - (n + 1) = (JobCount - n) - 1
        /\ JobCount - (n + 1) + 1 = JobCount - n
    BY JobsCounted
  <2>2. v \in Job /\ indices[v] = (JobCount - n) - 1
    BY <2>1 DEF OrderInv
  <2>3. \A u \in Job : indices[u] \in 0 .. JobCount - 1 /\ pathOrder[indices[u] + 1] = u
    BY DEF OrderInv
  <2> QED
    BY <2>1, <2>2, <2>3
<1>2. /\ lf \in [Job -> Nat]
      /\ \A u \in Job : lf[u] \in Nat /\ pathInstance.deadline[u] \in Nat /\ d[u] \in Nat
      /\ \A e \in pathInstance.lags :
           e[1] \in Job /\ e[2] \in Job /\ e[3] \in Int /\ indices[e[1]] < indices[e[2]]
  BY EdgeTypes, InstanceTypes DEF ReverseUpTo, OrderInv
<1>3. UNCHANGED <<pathInstance, indices>>
  BY DEF RelaxReverse, sortVars
<1>4. CASE \E e \in ReverseNeighbors(v) : NewFinish(e) < 0
  <2>1. pathPhase' = "throw"
    BY <1>4 DEF RelaxReverse
  <2> QED
    BY <2>1
<1>5. CASE ~ \E e \in ReverseNeighbors(v) : NewFinish(e) < 0
  <2>1. /\ lf' \in [Job -> Nat]
        /\ pathSwept' = n + 1
        /\ pathPhase' = IF n + 1 = JobCount THEN "count" ELSE "reverse"
        /\ \A s \in Job :
             /\ lf'[s] <= lf[s]
             /\ \A e \in pathInstance.lags : e[2] = v /\ e[1] = s => lf'[s] <= NewFinish(e)
             /\ \/ lf'[s] = lf[s]
                \/ \E e \in pathInstance.lags : e[2] = v /\ e[1] = s /\ lf'[s] = NewFinish(e)
    <3>1. v = pathOrder[JobCount - pathSwept]
      OBVIOUS
    <3> HIDE DEF v
    <3> QED
      BY <1>1, <1>2, <1>5, <3>1, FinishesFall
  <2>2. \A e \in pathInstance.lags :
          /\ NewFinish(e) = lf[e[2]] - d[e[2]] + d[e[1]] - e[3] /\ NewFinish(e) \in Int
          /\ e[2] = v => NewFinish(e) \in Nat
    <3> TAKE e \in pathInstance.lags
    <3>1. NewFinish(e) = lf[e[2]] - d[e[2]] + d[e[1]] - e[3]
      BY DEF NewFinish
    <3>2. e[2] = v => ~ (NewFinish(e) < 0)
      BY <1>5 DEF ReverseNeighbors
    <3> HIDE DEF v
    <3> QED
      BY <1>2, <3>1, <3>2
  <2>4. \A s \in Job :
          /\ lf'[s] \in Nat /\ lf'[s] <= lf[s]
          /\ \A e \in InTo(s) : lf'[s] <= NewFinish(e)
          /\ lf'[s] = lf[s] \/ \E e \in InTo(s) : lf'[s] = NewFinish(e)
    <3>1. \A s \in Job : lf'[s] \in Nat
      BY <2>1
    <3> HIDE DEF v
    <3> QED
      BY <2>1, <3>1
  <2>5. \A s \in Job : indices[s] >= JobCount - (n + 1) => lf'[s] = lf[s]
    <3> TAKE s \in Job
    <3>1. indices[s] >= JobCount - (n + 1) => InTo(s) = {}
      <4>1. \A e \in InTo(s) : indices[s] < indices[v]
        BY <1>2
      <4>2. indices[s] \in Int /\ indices[v] \in Int
        BY <1>1
      <4> HIDE DEF InTo, v
      <4> QED
        BY <1>1, <4>1, <4>2
    <3> HIDE DEF InTo
    <3> QED
      BY <2>4, <3>1
  <2> HIDE DEF v
  <2>6. lf' \in [Job -> Nat]
    BY <2>1
  <2>7. \A s \in Job : lf'[s] <= pathInstance.deadline[s]
    <3> TAKE s \in Job
    <3>1. lf[s] <= pathInstance.deadline[s]
      BY DEF ReverseUpTo
    <3>2. lf'[s] <= lf[s] /\ lf'[s] \in Nat
      BY <2>4
    <3> QED
      BY <1>2, <3>1, <3>2
  <2>8. ASSUME NEW e \in pathInstance.lags, indices[e[2]] >= JobCount - (n + 1)
        PROVE  lf'[e[1]] - d[e[1]] + e[3] <= lf'[e[2]] - d[e[2]]
    <3>1. lf'[e[2]] = lf[e[2]]
      BY <1>2, <2>5, <2>8
    <3>2. /\ lf[e[1]] \in Nat /\ lf[e[2]] \in Nat /\ lf'[e[1]] \in Nat /\ e[3] \in Int
          /\ d[e[1]] \in Nat /\ d[e[2]] \in Nat /\ lf'[e[1]] <= lf[e[1]]
      BY <1>2, <2>4
    <3>3. CASE e[2] = v
      <4>1. e \in InTo(e[1]) /\ e[1] \in Job
        BY <1>2, <3>3
      <4>2. lf'[e[1]] <= NewFinish(e)
        BY <2>4, <4>1
      <4>3. NewFinish(e) = lf[e[2]] - d[e[2]] + d[e[1]] - e[3]
        BY <2>2
      <4> QED
        BY <3>1, <3>2, <4>2, <4>3
    <3>4. CASE e[2] # v
      <4>1. indices[e[2]] >= JobCount - n
        <5>1. indices[e[2]] # JobCount - (n + 1) /\ indices[e[2]] \in Int
          BY <1>1, <1>2, <3>4
        <5> QED
          BY <1>1, <2>8, <5>1
      <4>2. lf[e[1]] - d[e[1]] + e[3] <= lf[e[2]] - d[e[2]]
        BY <4>1 DEF ReverseUpTo
      <4> QED
        BY <3>1, <3>2, <4>2
    <3> QED
      BY <3>3, <3>4
  <2>9. ASSUME NEW s \in Job
        PROVE  \/ lf'[s] = pathInstance.deadline[s]
               \/ \E e \in pathInstance.lags :
                    /\ e[1] = s /\ indices[e[2]] >= JobCount - (n + 1)
                    /\ lf'[s] - d[s] + e[3] = lf'[e[2]] - d[e[2]]
    <3>1. CASE lf'[s] = lf[s]
      <4>1. CASE lf[s] = pathInstance.deadline[s]
        BY <3>1, <4>1
      <4>2. CASE lf[s] # pathInstance.deadline[s]
        <5>1. PICK e \in pathInstance.lags :
                /\ e[1] = s /\ indices[e[2]] >= JobCount - n
                /\ lf[s] - d[s] + e[3] = lf[e[2]] - d[e[2]]
          BY <4>2 DEF ReverseUpTo
        <5>2. indices[e[2]] >= JobCount - (n + 1)
          <6>1. indices[e[2]] \in Int
            BY <1>1, <1>2
          <6> QED
            BY <1>1, <5>1, <6>1
        <5>3. lf'[e[2]] = lf[e[2]]
          BY <1>2, <2>5, <5>2
        <5> QED
          BY <3>1, <5>1, <5>2, <5>3
      <4> QED
        BY <4>1, <4>2
    <3>2. CASE lf'[s] # lf[s]
      <4>1. PICK e \in InTo(s) : lf'[s] = NewFinish(e)
        BY <2>4, <3>2
      <4>2. e \in pathInstance.lags /\ e[1] = s /\ e[2] = v
        BY <4>1
      <4>3. lf'[v] = lf[v] /\ indices[v] >= JobCount - (n + 1)
        BY <1>1, <2>5
      <4>4. NewFinish(e) = lf[v] - d[v] + d[s] - e[3]
        BY <2>2, <4>2
      <4>5. lf[v] \in Nat /\ d[v] \in Nat /\ d[s] \in Nat /\ e[3] \in Int
        BY <1>1, <1>2, <4>2
      <4>6. lf'[s] - d[s] + e[3] = lf'[v] - d[v]
        BY <4>1, <4>3, <4>4, <4>5
      <4> QED
        BY <4>2, <4>3, <4>6
    <3> QED
      BY <3>1, <3>2
  <2> HIDE DEF InTo
  <2>11. ReverseUpTo(n + 1)'
    BY <1>3, <2>6, <2>7, <2>8, <2>9 DEF ReverseUpTo
  <2> QED
    BY <2>1, <2>11
<1> QED
  BY <1>4, <1>5

-----------------------------------------------------------------------------
(* What the sweeps keep on every graph: no schedule is outside of them.      *)

StartsBelow ==
  /\ earliest_start \in [Job -> Nat]
  /\ \A s \in LagSchedules(pathInstance) : \A v \in Job : earliest_start[v] <= s[v]

FinishesAbove ==
  /\ latest_finish \in [Job -> Nat]
  /\ \A s \in LagSchedules(pathInstance) : \A v \in Range(pathOrder) :
       s[v] + pathInstance.duration[v] <= latest_finish[v]

LEMMA ScheduleTypes ==
  ASSUME pathInstance \in LagInstance, NEW s \in LagSchedules(pathInstance)
  PROVE  /\ \A v \in Job : /\ s[v] \in Nat /\ pathInstance.duration[v] \in Nat
                           /\ pathInstance.release[v] \in Nat
                           /\ pathInstance.deadline[v] \in Nat
                           /\ pathInstance.release[v] <= s[v]
                           /\ s[v] + pathInstance.duration[v] <= pathInstance.deadline[v]
         /\ \A e \in pathInstance.lags : s[e[1]] + e[3] <= s[e[2]]
<1>1. /\ pathInstance.release \in [Job -> Nat] /\ pathInstance.deadline \in [Job -> Nat]
      /\ pathInstance.duration \in [Job -> Nat]
  BY InstanceTypes
<1>2. s \in [Job -> 0 .. LastDeadline(pathInstance)] /\ LagFeasible(pathInstance, s)
  BY DEF LagSchedules
<1>3. \A v \in Job : s[v] \in Nat
  BY <1>2
<1> QED
  BY <1>1, <1>2, <1>3 DEF LagFeasible

LEMMA EndSortBounds ==
  ASSUME pathInstance \in LagInstance, EndSort
  PROVE  StartsBelow' /\ FinishesAbove'
<1>1. /\ pathOrder' = Ordered /\ UNCHANGED pathInstance
      /\ earliest_start' = [v \in Job |-> IF v \in Range(Ordered)
                                          THEN pathInstance.release[v] ELSE 0]
      /\ latest_finish' = [v \in Job |-> IF v \in Range(Ordered)
                                         THEN pathInstance.deadline[v] ELSE 0]
  BY Zenon DEF EndSort, Initialised
<1>2. \A v \in Job : pathInstance.release[v] \in Nat /\ pathInstance.deadline[v] \in Nat
  BY InstanceTypes
<1>3. earliest_start' \in [Job -> Nat] /\ latest_finish' \in [Job -> Nat]
  BY <1>1, <1>2
<1>4. Range(Ordered) \subseteq Job
  BY OrderedType DEF Range
<1>5. ASSUME NEW s \in LagSchedules(pathInstance)
      PROVE  /\ \A v \in Job : earliest_start'[v] <= s[v]
             /\ \A v \in Range(Ordered) :
                  s[v] + pathInstance.duration[v] <= latest_finish'[v]
  <2>1. \A v \in Job : /\ s[v] \in Nat /\ pathInstance.release[v] <= s[v]
                       /\ s[v] + pathInstance.duration[v] <= pathInstance.deadline[v]
    BY ScheduleTypes
  <2>2. \A v \in Job : earliest_start'[v] <= s[v]
    BY <1>1, <2>1
  <2>3. \A v \in Range(Ordered) : latest_finish'[v] = pathInstance.deadline[v] /\ v \in Job
    BY <1>1, <1>4
  <2> QED
    BY <2>1, <2>2, <2>3
<1>6. Range(pathOrder)' = Range(Ordered)
  BY <1>1
<1> QED
  BY <1>1, <1>3, <1>5, <1>6 DEF StartsBelow, FinishesAbove

LEMMA ForwardBounds ==
  ASSUME pathInstance \in LagInstance, IsFiniteSet(pathInstance.lags), PlacesInv,
         pathSwept \in 0 .. JobCount - 1, StartsBelow, RelaxForward
  PROVE  StartsBelow'
<1>1. PICK v \in Job : v = pathOrder[pathSwept + 1]
  <2>1. pathSwept + 1 \in 1 .. JobCount
    BY JobsCounted
  <2> QED
    BY <2>1 DEF PlacesInv
<1>2. /\ UNCHANGED pathInstance /\ earliest_start' \in [Job -> Nat]
      /\ \A t \in Job :
           \/ earliest_start'[t] = earliest_start[t]
           \/ \E e \in pathInstance.lags :
                e[1] = v /\ e[2] = t /\ earliest_start'[t] = earliest_start[v] + e[3]
  BY <1>1, StartsRise DEF StartsBelow
<1>3. ASSUME NEW s \in LagSchedules(pathInstance), NEW t \in Job
      PROVE  earliest_start'[t] <= s[t]
  <2>1. \A u \in Job : earliest_start[u] <= s[u] /\ earliest_start[u] \in Nat /\ s[u] \in Nat
    BY ScheduleTypes DEF StartsBelow
  <2>2. CASE earliest_start'[t] = earliest_start[t]
    BY <2>1, <2>2
  <2>3. ASSUME NEW e \in pathInstance.lags,
               e[1] = v, e[2] = t, earliest_start'[t] = earliest_start[v] + e[3]
        PROVE  earliest_start'[t] <= s[t]
    <3>1. s[v] + e[3] <= s[t] /\ e[3] \in Int
      BY <2>3, ScheduleTypes, EdgeTypes
    <3>2. /\ earliest_start[v] <= s[v] /\ earliest_start[v] \in Nat /\ s[v] \in Nat
          /\ s[t] \in Nat
      BY <2>1
    <3> QED
      BY <2>3, <3>1, <3>2
  <2> QED
    BY <1>2, <2>2, <2>3
<1> QED
  BY <1>2, <1>3 DEF StartsBelow

LEMMA ReverseBounds ==
  ASSUME pathInstance \in LagInstance, PlacesInv,
         pathSwept \in 0 .. JobCount - 1, FinishesAbove, RelaxReverse
  PROVE  FinishesAbove' /\ (pathPhase' = "throw" => LagSchedules(pathInstance) = {})
<1>1. PICK v \in Job : v = pathOrder[JobCount - pathSwept] /\ v \in Range(pathOrder)
  <2>1. JobCount - pathSwept \in 1 .. JobCount
    BY JobsCounted
  <2> QED
    BY <2>1 DEF PlacesInv, Range
<1>2. Range(pathOrder) \subseteq Job /\ UNCHANGED <<pathInstance, pathOrder>>
  BY DEF PlacesInv, Range, RelaxReverse
<1>3. \A u \in Job : latest_finish[u] \in Nat
  BY DEF FinishesAbove
<1>4. ASSUME NEW s \in LagSchedules(pathInstance), NEW e \in pathInstance.lags, e[2] = v
      PROVE  /\ NewFinish(e) \in Int /\ s[e[1]] \in Nat /\ pathInstance.duration[e[1]] \in Nat
             /\ s[e[1]] + pathInstance.duration[e[1]] <= NewFinish(e)
  <2>1. s[e[2]] + pathInstance.duration[e[2]] <= latest_finish[e[2]]
    BY <1>1, <1>4 DEF FinishesAbove
  <2>2. latest_finish[e[2]] \in Nat
    BY <1>3, <1>4
  <2>3. pathInstance.duration[e[1]] \in Nat
    BY EdgeTypes, InstanceTypes
  <2> QED
    BY <2>1, <2>2, <2>3, FinishBounds
<1>5. CASE \E e \in ReverseNeighbors(v) : NewFinish(e) < 0
  <2>1. UNCHANGED latest_finish
    BY <1>1, <1>5 DEF RelaxReverse
  <2>2. PICK e \in pathInstance.lags : e[2] = v /\ NewFinish(e) < 0
    BY <1>5 DEF ReverseNeighbors
  <2>3. ASSUME NEW s \in LagSchedules(pathInstance) PROVE FALSE
    <3>1. /\ NewFinish(e) \in Int /\ s[e[1]] \in Nat /\ pathInstance.duration[e[1]] \in Nat
          /\ s[e[1]] + pathInstance.duration[e[1]] <= NewFinish(e)
      BY <1>4, <2>2
    <3> QED
      BY <2>2, <3>1
  <2> QED
    BY <1>2, <2>1, <2>3 DEF FinishesAbove
<1>6. CASE ~ \E e \in ReverseNeighbors(v) : NewFinish(e) < 0
  <2>1. /\ latest_finish' \in [Job -> Nat]
        /\ pathPhase' = IF pathSwept + 1 = JobCount THEN "count" ELSE "reverse"
        /\ \A u \in Job :
             \/ latest_finish'[u] = latest_finish[u]
             \/ \E e \in pathInstance.lags :
                  e[2] = v /\ e[1] = u /\ latest_finish'[u] = NewFinish(e)
    BY <1>1, <1>6, FinishesFall DEF FinishesAbove
  <2>2. pathPhase' # "throw"
    BY <2>1
  <2>3. ASSUME NEW s \in LagSchedules(pathInstance), NEW u \in Range(pathOrder)
        PROVE  s[u] + pathInstance.duration[u] <= latest_finish'[u]
    <3>1. CASE latest_finish'[u] = latest_finish[u]
      BY <3>1 DEF FinishesAbove
    <3>2. CASE latest_finish'[u] # latest_finish[u]
      <4>1. PICK e \in pathInstance.lags :
              e[2] = v /\ e[1] = u /\ latest_finish'[u] = NewFinish(e)
        BY <1>2, <2>1, <3>2
      <4>2. s[e[1]] + pathInstance.duration[e[1]] <= NewFinish(e)
        BY <1>4, <4>1
      <4> QED
        BY <4>1, <4>2
    <3> QED
      BY <3>1, <3>2
  <2> QED
    BY <1>2, <2>1, <2>2, <2>3 DEF FinishesAbove
<1> QED
  BY <1>5, <1>6

-----------------------------------------------------------------------------
(* All phases together.                                                      *)

\* The scans compare what holds of every schedule.
Counted ==
  /\ predecessor_count = [v \in Job |-> Cardinality(FinishedBy(v))]
  /\ successor_count = [v \in Job |-> Cardinality(StartedAfter(v))]

\* What a phase finds, and what the ones before it have left, if the lags have no
\* cycle.
PhaseInv ==
  /\ pathPhase # "sort" => OrderInv
  /\ pathPhase = "forward" =>
       ForwardUpTo(pathSwept) /\ latest_finish = pathInstance.deadline
  /\ pathPhase \notin {"sort", "forward"} => ForwardUpTo(JobCount)
  /\ pathPhase = "reverse" => ReverseUpTo(pathSwept)
  /\ pathPhase \in {"count", "done", "overrun"} => ReverseUpTo(JobCount)
  /\ pathPhase = "done" => Counted
  /\ pathPhase = "overrun" => \E v \in Job : FinishedBy(v) = Job \/ StartedAfter(v) = Job

PathInv ==
  /\ pathPhase \in {"new", "sort", "forward", "reverse", "count", "throw", "done", "overrun"}
  /\ pathPhase # "sort" => pathStack = <<>>
  /\ pathPhase \in {"new", "sort"} => pathSwept = 0
  /\ pathPhase = "new" =>
       pathRoot = 1 /\ visited = {} /\ indices = Zero /\ index = JobCount - 1
  /\ pathPhase # "new" => pathInstance \in PathInstances
  /\ pathPhase = "sort" => SortInv
  /\ pathPhase \notin {"new", "sort"} => PlacesInv /\ StartsBelow /\ FinishesAbove
  /\ pathPhase \in {"forward", "reverse"} => pathSwept \in 0 .. JobCount - 1
  /\ pathPhase = "throw" => LagSchedules(pathInstance) = {}
  /\ pathPhase # "new" /\ Acyclic(pathInstance) => PhaseInv

LEMMA InstancesKnown ==
  ASSUME pathInstance \in PathInstances
  PROVE  pathInstance \in LagInstance /\ IsFiniteSet(pathInstance.lags)
  BY PathAssumption

LEMMA PathInvInit == PathInit => PathInv
  BY DEF PathInit, PathInv

\* The steps of the search change nothing but its own variables.
SearchStep == NextRoot \/ Descend \/ Backtrack

LEMMA SearchSteps ==
  ASSUME PathInv, SearchStep
  PROVE  PathInv'
<1>1. /\ pathPhase = "sort" /\ pathPhase' = "sort"
      /\ UNCHANGED <<pathInstance, pathSwept>>
  BY DEF PathInv, SearchStep, NextRoot, Descend, Backtrack
<1>2. pathInstance \in PathInstances
  BY <1>1 DEF PathInv
<1>3. SortInv'
  <2>1. SortInv /\ pathInstance \in LagInstance
    BY <1>1, <1>2, InstancesKnown DEF PathInv
  <2> QED
    BY <2>1, NextRootSorts, DescendSorts, BacktrackSorts DEF SearchStep
<1>4. PhaseInv'
  BY <1>1 DEF PhaseInv
<1> QED
  BY <1>1, <1>2, <1>3, <1>4 DEF PathInv

LEMMA BeginKeeps ==
  ASSUME PathInv, Begin
  PROVE  PathInv'
<1>1. /\ pathPhase = "new" /\ pathPhase' = "sort" /\ pathInstance' \in PathInstances
      /\ UNCHANGED <<pathRoot, pathStack, visited, indices, index, pathSwept>>
  BY DEF Begin, sortVars
<1>2. /\ pathRoot' = 1 /\ pathStack' = <<>> /\ visited' = {} /\ index' = JobCount - 1
      /\ indices' = Zero /\ pathSwept' = 0
  BY <1>1 DEF PathInv
<1>3. pathInstance' \in LagInstance
  BY <1>1, PathAssumption
<1>5. SortInv'
  BY <1>2, <1>3, BeginSorts
<1> QED
  BY <1>1, <1>2, <1>5 DEF PathInv, PhaseInv

\* In a graph without cycles the order contains all jobs.
LEMMA AllInitialised ==
  ASSUME pathInstance \in LagInstance, EndSort, OrderInv'
  PROVE  earliest_start' = pathInstance.release /\ latest_finish' = pathInstance.deadline
<1>1. /\ pathOrder' = Ordered
      /\ earliest_start' = [v \in Job |-> IF v \in Range(Ordered)
                                          THEN pathInstance.release[v] ELSE 0]
      /\ latest_finish' = [v \in Job |-> IF v \in Range(Ordered)
                                         THEN pathInstance.deadline[v] ELSE 0]
  BY Zenon DEF EndSort, Initialised
<1>2. \A v \in Job : v \in Range(Ordered)
  <2> TAKE v \in Job
  <2>1. pathOrder' \in [1 .. JobCount -> Job] /\ pathOrder'[indices'[v] + 1] = v
    BY DEF OrderInv
  <2>2. indices'[v] + 1 \in 1 .. JobCount
    <3>1. indices'[v] \in 0 .. JobCount - 1
      BY DEF OrderInv
    <3> QED
      BY <3>1, JobsCounted
  <2> QED
    BY <1>1, <2>1, <2>2 DEF Range
<1>3. pathInstance.release \in [Job -> Nat] /\ pathInstance.deadline \in [Job -> Nat]
  BY InstanceTypes
<1> QED
  BY <1>1, <1>2, <1>3

LEMMA EndSortKeeps ==
  ASSUME PathInv, EndSort
  PROVE  PathInv'
<1>1. /\ pathPhase = "sort" /\ pathPhase' = "forward" /\ pathStack = <<>>
      /\ UNCHANGED <<pathInstance, pathSwept, pathStack>>
  BY DEF EndSort, sortVars
<1>2. /\ pathInstance \in PathInstances /\ pathInstance \in LagInstance /\ pathSwept = 0
      /\ SortInv
  BY <1>1, InstancesKnown DEF PathInv
<1>3. pathSwept' = 0 /\ 0 \in 0 .. JobCount - 1
  BY <1>1, <1>2, JobsCounted
<1>4. PlacesInv' /\ StartsBelow' /\ FinishesAbove'
  BY <1>2, EndSortPlaces, EndSortBounds
<1>5. ASSUME Acyclic(pathInstance) PROVE PhaseInv'
  <2>1. OrderInv'
    BY <1>1, <1>2, <1>5, EndSortOrders
  <2>2. /\ pathInstance' \in LagInstance
        /\ earliest_start' = pathInstance'.release /\ latest_finish' = pathInstance'.deadline
    BY <1>1, <1>2, <2>1, AllInitialised
  <2>3. ForwardUpTo(0)'
    BY <2>1, <2>2, ForwardBegins
  <2>4. ForwardUpTo(pathSwept)'
    BY <1>3, <2>3 DEF ForwardUpTo
  <2> QED
    BY <1>1, <2>1, <2>2, <2>4 DEF PhaseInv
<1> QED
  BY <1>1, <1>2, <1>3, <1>4, <1>5 DEF PathInv

LEMMA RelaxForwardKeeps ==
  ASSUME PathInv, RelaxForward
  PROVE  PathInv'
<1>1. /\ pathPhase = "forward" /\ pathStack = <<>>
      /\ UNCHANGED <<pathInstance, indices, pathStack, pathOrder, latest_finish, lagsDag>>
      /\ IF pathSwept + 1 = JobCount
         THEN pathPhase' = "reverse" /\ pathSwept' = 0
         ELSE pathSwept' = pathSwept + 1 /\ UNCHANGED pathPhase
  BY DEF RelaxForward, sortVars, PathInv
<1>2. /\ pathInstance \in PathInstances /\ pathInstance \in LagInstance
      /\ IsFiniteSet(pathInstance.lags)
      /\ PlacesInv /\ StartsBelow /\ FinishesAbove /\ pathSwept \in 0 .. JobCount - 1
  BY <1>1, InstancesKnown DEF PathInv
<1>3. ASSUME Acyclic(pathInstance) PROVE PhaseInv'
  <2>1. OrderInv /\ ForwardUpTo(pathSwept) /\ latest_finish = pathInstance.deadline
    BY <1>1, <1>3 DEF PathInv, PhaseInv
  <2>2. PICK n \in 0 .. JobCount - 1 : n = pathSwept
    BY <1>2
  <2>3. ForwardUpTo(n)
    BY <2>1, <2>2 DEF ForwardUpTo
  <2>4. ForwardUpTo(n + 1)'
    BY <1>2, <2>1, <2>2, <2>3, ForwardSweeps
  <2>5. OrderInv'
    BY <1>1, <2>1 DEF OrderInv
  <2>6. CASE n + 1 = JobCount
    <3>1. pathPhase' = "reverse" /\ pathSwept' = 0 /\ 0 \in 0 .. JobCount - 1
      BY <1>1, <2>2, <2>6, JobsCounted
    <3>2. ForwardUpTo(JobCount)'
      BY <2>4, <2>6
    <3>3. ReverseUpTo(0)'
      <4>1. pathInstance' \in LagInstance /\ latest_finish' = pathInstance'.deadline
        BY <1>1, <1>2, <2>1
      <4> QED
        BY <2>5, <4>1, ReverseBegins
    <3>4. ReverseUpTo(pathSwept)'
      BY <3>1, <3>3 DEF ReverseUpTo
    <3> QED
      BY <2>5, <3>1, <3>2, <3>4 DEF PhaseInv
  <2>7. CASE n + 1 # JobCount
    <3>1. pathPhase' = "forward" /\ pathSwept' = n + 1 /\ n + 1 \in 0 .. JobCount - 1
      BY <1>1, <2>2, <2>7, JobsCounted
    <3>2. ForwardUpTo(pathSwept)'
      BY <2>4, <3>1 DEF ForwardUpTo
    <3> QED
      BY <1>1, <2>1, <2>5, <3>1, <3>2 DEF PhaseInv
  <2> QED
    BY <2>6, <2>7
<1>4. pathPhase' \in {"forward", "reverse"}
  BY <1>1
<1>5. PlacesInv' /\ StartsBelow' /\ FinishesAbove'
  <2>1. StartsBelow'
    BY <1>2, ForwardBounds
  <2>2. PlacesInv'
    BY <1>1, <1>2 DEF PlacesInv, ReachedInOrder, Source, ReverseNeighbors
  <2>3. FinishesAbove'
    BY <1>1, <1>2 DEF FinishesAbove
  <2> QED
    BY <2>1, <2>2, <2>3
<1>6. pathSwept' \in 0 .. JobCount - 1
  BY <1>1, <1>2, JobsCounted
<1> QED
  BY <1>1, <1>2, <1>3, <1>4, <1>5, <1>6 DEF PathInv

LEMMA RelaxReverseKeeps ==
  ASSUME PathInv, RelaxReverse
  PROVE  PathInv'
<1>1. /\ pathPhase = "reverse" /\ pathStack = <<>>
      /\ UNCHANGED <<pathInstance, indices, pathStack, pathOrder, earliest_start, lagsDag>>
      /\ \/ pathPhase' = "throw"
         \/ /\ pathSwept' = pathSwept + 1
            /\ pathPhase' = IF pathSwept + 1 = JobCount THEN "count" ELSE "reverse"
  BY DEF RelaxReverse, sortVars, PathInv
<1>2. /\ pathInstance \in PathInstances /\ pathInstance \in LagInstance
      /\ PlacesInv /\ StartsBelow /\ FinishesAbove /\ pathSwept \in 0 .. JobCount - 1
  BY <1>1, InstancesKnown DEF PathInv
<1>3. ASSUME Acyclic(pathInstance) PROVE PhaseInv'
  <2>1. OrderInv /\ ReverseUpTo(pathSwept) /\ ForwardUpTo(JobCount)
    BY <1>1, <1>3 DEF PathInv, PhaseInv
  <2>2. PICK n \in 0 .. JobCount - 1 : n = pathSwept
    BY <1>2
  <2>3. ReverseUpTo(n)
    BY <2>1, <2>2 DEF ReverseUpTo
  <2>4. \/ pathPhase' = "throw"
        \/ /\ ReverseUpTo(n + 1)' /\ pathSwept' = n + 1
           /\ pathPhase' = IF n + 1 = JobCount THEN "count" ELSE "reverse"
    BY <1>2, <2>1, <2>2, <2>3, ReverseSweeps
  <2>5. OrderInv' /\ ForwardUpTo(JobCount)'
    BY <1>1, <2>1 DEF OrderInv, ForwardUpTo
  <2>6. CASE pathPhase' = "throw"
    BY <2>5, <2>6 DEF PhaseInv
  <2>7. CASE /\ ReverseUpTo(n + 1)' /\ pathSwept' = n + 1
             /\ pathPhase' = IF n + 1 = JobCount THEN "count" ELSE "reverse"
    <3>1. CASE n + 1 = JobCount
      <4>1. pathPhase' = "count" /\ ReverseUpTo(JobCount)'
        BY <2>7, <3>1
      <4> QED
        BY <2>5, <4>1 DEF PhaseInv
    <3>2. CASE n + 1 # JobCount
      <4>1. pathPhase' = "reverse" /\ pathSwept' = n + 1
        BY <2>7, <3>2
      <4>2. ReverseUpTo(pathSwept)'
        BY <2>7, <4>1 DEF ReverseUpTo
      <4> QED
        BY <2>5, <4>1, <4>2 DEF PhaseInv
    <3> QED
      BY <3>1, <3>2
  <2> QED
    BY <2>4, <2>6, <2>7
<1>4. PlacesInv' /\ StartsBelow' /\ FinishesAbove'
  <2>1. FinishesAbove'
    BY <1>2, ReverseBounds
  <2>2. PlacesInv'
    BY <1>1, <1>2 DEF PlacesInv, ReachedInOrder, Source, ReverseNeighbors
  <2>3. StartsBelow'
    BY <1>1, <1>2 DEF StartsBelow
  <2> QED
    BY <2>1, <2>2, <2>3
<1>5. pathPhase' = "throw" => LagSchedules(pathInstance') = {}
  BY <1>1, <1>2, ReverseBounds
<1>6. pathPhase' = "reverse" => pathSwept' \in 0 .. JobCount - 1
  BY <1>1, <1>2, JobsCounted
<1>7. pathPhase' \in {"throw", "count", "reverse"}
  BY <1>1
<1> QED
  BY <1>1, <1>2, <1>3, <1>4, <1>5, <1>6, <1>7 DEF PathInv

LEMMA CountKeeps ==
  ASSUME PathInv, Count
  PROVE  PathInv'
<1>1. /\ pathPhase = "count" /\ pathStack = <<>>
      /\ UNCHANGED <<pathInstance, indices, pathStack, pathOrder, earliest_start,
                     latest_finish, lagsDag>>
      /\ \/ /\ \E v \in Job : FinishedBy(v) = Job \/ StartedAfter(v) = Job
            /\ pathPhase' = "overrun"
         \/ /\ pathPhase' = "done"
            /\ predecessor_count' = [v \in Job |-> Cardinality(FinishedBy(v))]
            /\ successor_count' = [v \in Job |-> Cardinality(StartedAfter(v))]
  BY DEF Count, sortVars, PathInv
<1>2. pathInstance \in PathInstances /\ PlacesInv /\ StartsBelow /\ FinishesAbove
  BY <1>1 DEF PathInv
<1>3. \A v : FinishedBy(v)' = FinishedBy(v) /\ StartedAfter(v)' = StartedAfter(v)
  BY <1>1 DEF FinishedBy, StartedAfter
<1>4. ASSUME Acyclic(pathInstance) PROVE PhaseInv'
  <2>1. OrderInv /\ ForwardUpTo(JobCount) /\ ReverseUpTo(JobCount)
    BY <1>1, <1>4 DEF PathInv, PhaseInv
  <2>2. OrderInv' /\ ForwardUpTo(JobCount)' /\ ReverseUpTo(JobCount)'
    BY <1>1, <2>1 DEF OrderInv, ForwardUpTo, ReverseUpTo
  <2>3. pathPhase' = "overrun" =>
          (\E v \in Job : FinishedBy(v) = Job \/ StartedAfter(v) = Job)'
    BY <1>1, <1>3
  <2>4. pathPhase' = "done" => Counted'
    <3>1. ASSUME pathPhase' = "done" PROVE Counted'
      <4>1. /\ predecessor_count' = [v \in Job |-> Cardinality(FinishedBy(v)')]
            /\ successor_count' = [v \in Job |-> Cardinality(StartedAfter(v)')]
        BY <1>1, <1>3, <3>1
      <4> QED
        BY <4>1 DEF Counted
    <3> QED
      BY <3>1
  <2>5. pathPhase' \in {"done", "overrun"}
    BY <1>1
  <2> QED
    BY <2>2, <2>3, <2>4, <2>5 DEF PhaseInv
<1>5. PlacesInv' /\ StartsBelow' /\ FinishesAbove'
  BY <1>1, <1>2 DEF PlacesInv, ReachedInOrder, Source, ReverseNeighbors, StartsBelow,
                    FinishesAbove
<1>6. pathPhase' \in {"done", "overrun"}
  BY <1>1
<1> QED
  BY <1>1, <1>2, <1>4, <1>5, <1>6 DEF PathInv

LEMMA PathInvKept ==
  ASSUME PathInv, UNCHANGED pathVars
  PROVE  PathInv'
<1>1. /\ UNCHANGED <<pathInstance, pathPhase, pathRoot, pathStack, visited, indices, index>>
      /\ UNCHANGED <<pathOrder, pathSwept, earliest_start, latest_finish>>
      /\ UNCHANGED <<predecessor_count, successor_count, lagsDag>>
  BY DEF pathVars, sortVars, countVars
<1>2. SortInv' = SortInv
  <2>1. /\ (\A v : Source(v)' = Source(v)) /\ (\A f : Along(f)' = Along(f))
        /\ Indexed' = Indexed /\ \A v : OnStack(v)' = OnStack(v)
    BY <1>1 DEF Source, ReverseNeighbors, Along, Indexed, OnStack
  <2>2. Indexing' = Indexing
    BY <1>1, <2>1 DEF Indexing
  <2>3. Roots' = Roots
    BY <1>1, <2>1 DEF Roots
  <2>4. Search' = Search
    BY <1>1, <2>1 DEF Search
  <2> QED
    BY <2>2, <2>3, <2>4 DEF SortInv
<1>3. /\ OrderInv' = OrderInv
      /\ ForwardUpTo(pathSwept)' = ForwardUpTo(pathSwept)
      /\ ForwardUpTo(JobCount)' = ForwardUpTo(JobCount)
      /\ ReverseUpTo(pathSwept)' = ReverseUpTo(pathSwept)
      /\ ReverseUpTo(JobCount)' = ReverseUpTo(JobCount)
  BY <1>1 DEF OrderInv, ForwardUpTo, ReverseUpTo
<1>4. \A v : FinishedBy(v)' = FinishedBy(v) /\ StartedAfter(v)' = StartedAfter(v)
  BY <1>1 DEF FinishedBy, StartedAfter
<1>5. Counted' = Counted
  BY <1>1, <1>4 DEF Counted
<1>6. PhaseInv' = PhaseInv
  BY <1>1, <1>2, <1>3, <1>4, <1>5 DEF PhaseInv
<1>7. /\ PlacesInv' = PlacesInv /\ StartsBelow' = StartsBelow
      /\ FinishesAbove' = FinishesAbove
  BY <1>1 DEF PlacesInv, ReachedInOrder, Source, ReverseNeighbors, StartsBelow, FinishesAbove
<1> QED
  BY <1>1, <1>2, <1>6, <1>7 DEF PathInv

LEMMA PathInvNext ==
  ASSUME PathInv, [PathNext]_pathVars
  PROVE  PathInv'
  BY BeginKeeps, SearchSteps, EndSortKeeps, RelaxForwardKeeps, RelaxReverseKeeps,
     CountKeeps, PathInvKept DEF PathNext, SearchStep

-----------------------------------------------------------------------------
\* The schedules are within the sweeps; in a graph without cycles, so are all jobs.
LEMMA SchedulesBetween ==
  ASSUME pathInstance \in LagInstance, OrderInv, StartsBelow, FinishesAbove,
         NEW s \in LagSchedules(pathInstance), NEW v \in Job
  PROVE  /\ earliest_start[v] \in Nat /\ latest_finish[v] \in Nat /\ s[v] \in Nat
         /\ pathInstance.duration[v] \in Nat
         /\ earliest_start[v] <= s[v]
         /\ s[v] + pathInstance.duration[v] <= latest_finish[v]
<1>1. v \in Range(pathOrder)
  <2>1. indices[v] \in 0 .. JobCount - 1
    BY DEF OrderInv
  <2>2. indices[v] + 1 \in 1 .. JobCount
    BY <2>1, JobsCounted
  <2> QED
    BY <2>2 DEF OrderInv, Range
<1>2. s[v] \in Nat /\ pathInstance.duration[v] \in Nat
  BY ScheduleTypes
<1> QED
  BY <1>1, <1>2 DEF StartsBelow, FinishesAbove

LEMMA PathsAreBound == PathInv => PathsBound
  BY DEF PathInv, PathsBound, StartsBelow, FinishesAbove

LEMMA PathsAreRight == PathInv => PathsExact
<1> SUFFICES ASSUME PathInv, pathPhase \in {"done", "throw", "overrun"},
                    Acyclic(pathInstance)
             PROVE  PathsExact
  BY PathsAreBound DEF PathsExact
<1> DEFINE end(start, v) == start[v] + pathInstance.duration[v]
<1>1. /\ pathInstance \in LagInstance /\ OrderInv /\ ForwardUpTo(JobCount)
      /\ pathPhase # "throw" => ReverseUpTo(JobCount)
      /\ StartsBelow /\ FinishesAbove
      /\ pathPhase = "done" => Counted
      /\ pathPhase = "overrun" => \E v \in Job : FinishedBy(v) = Job \/ StartedAfter(v) = Job
  BY InstancesKnown DEF PathInv, PhaseInv
<1>2. lagsDag /\ Earliest(pathInstance, earliest_start)
  BY <1>1, ForwardEnds DEF OrderInv
<1>3. pathPhase # "throw" => Latest(pathInstance, latest_finish)
  BY <1>1, ReverseEnds
<1>4. ASSUME pathPhase # "throw", NEW s \in LagSchedules(pathInstance), NEW v \in Job
      PROVE  /\ earliest_start[v] \in Nat /\ latest_finish[v] \in Nat /\ s[v] \in Nat
             /\ pathInstance.duration[v] \in Nat
             /\ earliest_start[v] <= s[v] /\ end(s, v) <= latest_finish[v]
  BY <1>1, <1>4, SchedulesBetween
<1>5. ASSUME pathPhase # "throw", NEW s \in LagSchedules(pathInstance),
             NEW v \in Job, NEW u \in Job
      PROVE  /\ u \in FinishedBy(v) => end(s, u) <= s[v]
             /\ u \in StartedAfter(v) => end(s, v) <= s[u]
  <2>1. /\ earliest_start[v] \in Nat /\ latest_finish[v] \in Nat /\ s[v] \in Nat
        /\ pathInstance.duration[v] \in Nat
        /\ earliest_start[v] <= s[v] /\ end(s, v) <= latest_finish[v]
    BY <1>4, <1>5
  <2>2. /\ earliest_start[u] \in Nat /\ latest_finish[u] \in Nat /\ s[u] \in Nat
        /\ pathInstance.duration[u] \in Nat
        /\ earliest_start[u] <= s[u] /\ end(s, u) <= latest_finish[u]
    BY <1>4, <1>5
  <2>3. /\ u \in FinishedBy(v) => latest_finish[u] <= earliest_start[v]
        /\ u \in StartedAfter(v) => earliest_start[u] >= latest_finish[v]
    BY DEF FinishedBy, StartedAfter
  <2> QED
    BY <2>1, <2>2, <2>3
<1>6. ASSUME pathPhase = "overrun"
      PROVE  \E v \in Job :
               \/ \A start \in LagSchedules(pathInstance), u \in Job : end(start, u) <= start[v]
               \/ \A start \in LagSchedules(pathInstance), u \in Job : end(start, v) <= start[u]
  <2>1. PICK v \in Job : FinishedBy(v) = Job \/ StartedAfter(v) = Job
    BY <1>1, <1>6
  <2> HIDE DEF end
  <2> QED
    BY <1>5, <1>6, <2>1
<1>7. ASSUME pathPhase = "done", NEW s \in LagSchedules(pathInstance), NEW v \in Job
      PROVE  /\ predecessor_count[v] <= Cardinality({u \in Job : end(s, u) <= s[v]})
             /\ successor_count[v] <= Cardinality({u \in Job : end(s, v) <= s[u]})
  <2>1. PICK Earlier, Later : /\ Earlier = {u \in Job : end(s, u) <= s[v]}
                              /\ Later = {u \in Job : end(s, v) <= s[u]}
    OBVIOUS
  <2>2. IsFiniteSet(Earlier) /\ IsFiniteSet(Later)
    BY <2>1, JobsCounted, FS_Subset
  <2>3. FinishedBy(v) \subseteq Earlier /\ StartedAfter(v) \subseteq Later
    <3>1. FinishedBy(v) \subseteq Job /\ StartedAfter(v) \subseteq Job
      BY DEF FinishedBy, StartedAfter
    <3>2. \A u \in Job : /\ u \in FinishedBy(v) => end(s, u) <= s[v]
                         /\ u \in StartedAfter(v) => end(s, v) <= s[u]
      BY <1>5, <1>7
    <3> HIDE DEF end
    <3> QED
      BY <2>1, <3>1, <3>2
  <2>4. /\ Cardinality(FinishedBy(v)) <= Cardinality(Earlier)
        /\ Cardinality(StartedAfter(v)) <= Cardinality(Later)
    BY <2>2, <2>3, FS_Subset
  <2>5. /\ predecessor_count[v] = Cardinality(FinishedBy(v))
        /\ successor_count[v] = Cardinality(StartedAfter(v))
    BY <1>1, <1>7 DEF Counted
  <2> HIDE DEF end
  <2> QED
    BY <2>1, <2>4, <2>5
<1> QED
  BY <1>1, <1>2, <1>3, <1>6, <1>7, PathsAreBound DEF PathsExact

(***************************************************************************)
(* With any number of jobs: no feasible schedule of any instance is        *)
(* outside of what CriticalPathComputer finds for the jobs of its order,   *)
(* and its exception meets no instance that has one.  If the lags have no  *)
(* cycle, the sort, both sweeps and the counts of NecessaryOrderComputer   *)
(* are exactly right.                                                      *)
(***************************************************************************)
THEOREM PathsAreExact == PathSpec => []PathsExact
<1>1. PathSpec => []PathInv
  <2>1. PathInit => PathInv
    BY PathInvInit
  <2>2. PathInv /\ [PathNext]_pathVars => PathInv'
    BY PathInvNext
  <2> QED
    BY <2>1, <2>2, PTL DEF PathSpec
<1> QED
  BY <1>1, PathsAreRight, PTL

-----------------------------------------------------------------------------
(* What a depth first search visits.                                         *)

\* The jobs that n edges lead to at most.
LEMMA VisitedRounds ==
  ASSUME pathInstance \in LagInstance, NEW v \in Job
  PROVE  \E g \in [0 .. JobCount -> SUBSET Job] :
           /\ Visited(v) = g[JobCount]
           /\ g[0] = {v}
           /\ \A n \in 1 .. JobCount :
                g[n] = g[n - 1] \cup UNION {{e[2] : e \in Neighbors(u)} : u \in g[n - 1]}
<1> DEFINE Folded(g) == g = [n \in 0 .. JobCount |->
                               IF n = 0 THEN {v}
                               ELSE g[n - 1] \cup UNION {{e[2] : e \in Neighbors(u)} : u \in g[n - 1]}]
           g == CHOOSE g : Folded(g)
           Round(X) == X \cup UNION {{e[2] : e \in Neighbors(u)} : u \in X}
<1>1. Visited(v) = g[JobCount]
  BY DEF Visited
<1>2. \A X \in SUBSET Job : Round(X) \in SUBSET Job
  BY EdgeTypes DEF Neighbors
<1>3. JobCount \in Nat /\ 0 \in 0 .. JobCount /\ JobCount \in 0 .. JobCount
  BY JobsCounted
<1> HIDE DEF Round
<1> DEFINE step == [X \in SUBSET Job |-> Round(X)]
<1>4. step \in [SUBSET Job -> SUBSET Job] /\ {v} \in SUBSET Job
  BY <1>2
<1>5. PICK f \in [0 .. JobCount -> SUBSET Job] : Repeats(f, {v}, step, JobCount)
  <2> HIDE DEF step
  <2> QED
    BY <1>3, <1>4, Iterates
<1>6. f = [n \in 0 .. JobCount |-> IF n = 0 THEN {v} ELSE Round(f[n - 1])]
  <2>1. \A n \in 0 .. JobCount : f[n] = IF n = 0 THEN {v} ELSE step[f[n - 1]]
    <3> HIDE DEF step
    <3> QED
      BY <1>5 DEF Repeats
  <2>2. \A n \in 0 .. JobCount : n # 0 => f[n - 1] \in SUBSET Job
    <3> TAKE n \in 0 .. JobCount
    <3>1. n # 0 => n - 1 \in 0 .. JobCount
      BY <1>3
    <3> QED
      BY <3>1
  <2>3. \A n \in 0 .. JobCount : f[n] = IF n = 0 THEN {v} ELSE Round(f[n - 1])
    BY <2>1, <2>2
  <2> QED
    BY <2>3
<1>7. Folded(f)
  BY <1>6 DEF Round
<1>8. Folded(g)
  <2> HIDE DEF Folded
  <2> QED
    BY <1>7
<1>9. g = [n \in 0 .. JobCount |-> IF n = 0 THEN {v} ELSE Round(g[n - 1])]
  <2> HIDE DEF g
  <2> QED
    BY <1>8 DEF Round
<1> HIDE DEF g, Folded
<1>10. g[0] = {v} /\ \A n \in 1 .. JobCount : g[n] = Round(g[n - 1])
  <2>1. \A n \in 0 .. JobCount : g[n] = IF n = 0 THEN {v} ELSE Round(g[n - 1])
    BY <1>9
  <2>2. \A n \in 1 .. JobCount : n \in 0 .. JobCount /\ n # 0
    BY <1>3
  <2> QED
    BY <1>3, <2>1, <2>2
<1>11. g \in [0 .. JobCount -> SUBSET Job]
  <2> DEFINE H == {n \in 0 .. JobCount : g[n] \in SUBSET Job}
  <2>1. 0 \in H
    BY <1>3, <1>10
  <2>2. \A n \in 1 .. JobCount : n - 1 \in H => n \in H
    <3> TAKE n \in 1 .. JobCount
    <3>1. n \in 0 .. JobCount
      BY <1>3
    <3> QED
      BY <1>2, <1>10, <3>1
  <2>3. \A n \in 0 .. JobCount : n \in H
    <3> HIDE DEF H
    <3> QED
      BY <1>3, <2>1, <2>2, Induction
  <2>4. \A n \in 0 .. JobCount : g[n] \in SUBSET Job
    BY <2>3
  <2> QED
    BY <1>9, <2>4
<1> QED
  BY <1>1, <1>10, <1>11 DEF Round

\* It is the least set with v that no edge leads out of.
ClosedSet(X) == \A e \in pathInstance.lags : e[1] \in X => e[2] \in X

LEMMA VisitedIsLeast ==
  ASSUME pathInstance \in LagInstance, NEW v \in Job,
         NEW X, v \in X, ClosedSet(X)
  PROVE  Visited(v) \subseteq X /\ Visited(v) \subseteq Job /\ v \in Visited(v)
<1>1. PICK g \in [0 .. JobCount -> SUBSET Job] :
        /\ Visited(v) = g[JobCount]
        /\ g[0] = {v}
        /\ \A n \in 1 .. JobCount :
             g[n] = g[n - 1] \cup UNION {{e[2] : e \in Neighbors(u)} : u \in g[n - 1]}
  BY VisitedRounds
<1> DEFINE H == {n \in 0 .. JobCount : g[n] \subseteq X /\ v \in g[n]}
<1>2. JobCount \in Nat /\ 0 \in 0 .. JobCount /\ JobCount \in 0 .. JobCount
  BY JobsCounted
<1>3. 0 \in H
  BY <1>1, <1>2
<1>4. \A n \in 1 .. JobCount : n - 1 \in H => n \in H
  <2> TAKE n \in 1 .. JobCount
  <2>1. n \in 0 .. JobCount
    BY <1>2
  <2> QED
    BY <1>1, <2>1 DEF ClosedSet, Neighbors
<1>5. \A n \in 0 .. JobCount : n \in H
  <2> HIDE DEF H
  <2> QED
    BY <1>2, <1>3, <1>4, Induction
<1> QED
  BY <1>1, <1>2, <1>5

\* The numbers grow along the edges, so that there are rounds enough.
LEMMA VisitedIsClosed ==
  ASSUME pathInstance \in LagInstance, Acyclic(pathInstance), NEW v \in Job
  PROVE  ClosedSet(Visited(v))
<1>1. PICK g \in [0 .. JobCount -> SUBSET Job] :
        /\ Visited(v) = g[JobCount]
        /\ g[0] = {v}
        /\ \A n \in 1 .. JobCount :
             g[n] = g[n - 1] \cup UNION {{e[2] : e \in Neighbors(u)} : u \in g[n - 1]}
  BY VisitedRounds
<1>2. PICK f : Along(f)
  BY DEF Acyclic, Along
<1>3. /\ JobCount \in Nat
      /\ \A u \in Job : f[u] \in Nat /\ 1 <= f[u] /\ f[u] <= JobCount
      /\ \A e \in pathInstance.lags :
           e[1] \in Job /\ e[2] \in Job /\ f[e[1]] < f[e[2]]
  <2>1. \A u \in Job : f[u] \in 1 .. JobCount
    BY <1>2, JobsCounted DEF Along
  <2>2. \A e \in pathInstance.lags : e[1] \in Job /\ e[2] \in Job
    BY EdgeTypes
  <2>3. \A e \in pathInstance.lags : f[e[1]] < f[e[2]]
    BY <1>2 DEF Along
  <2> QED
    BY <2>1, <2>2, <2>3, JobsCounted
<1>4. \A n \in 1 .. JobCount : g[n - 1] \subseteq g[n]
  BY <1>1
<1>5. ASSUME NEW a \in 0 .. JobCount, NEW b \in 0 .. JobCount, a <= b
      PROVE  g[a] \subseteq g[b]
  <2> DEFINE H == {n \in 0 .. JobCount : a <= n => g[a] \subseteq g[n]}
  <2>1. 0 \in H
    BY <1>3
  <2>2. \A n \in 1 .. JobCount : n - 1 \in H => n \in H
    <3> TAKE n \in 1 .. JobCount
    <3>1. n \in 0 .. JobCount /\ (a <= n => a <= n - 1 \/ a = n)
      BY <1>3
    <3> QED
      BY <1>4, <3>1
  <2>3. \A n \in 0 .. JobCount : n \in H
    <3> HIDE DEF H
    <3> QED
      BY <1>3, <2>1, <2>2, Induction
  <2> QED
    BY <1>5, <2>3
<1> DEFINE H == {n \in 0 .. JobCount : \A u \in g[n] : u \in g[f[u]]}
<1>6. \A u \in Job : f[u] \in 0 .. JobCount
  BY <1>3
<1>7. 0 \in H
  <2>1. 0 \in 0 .. JobCount /\ f[v] \in 0 .. JobCount /\ 0 <= f[v]
    BY <1>3
  <2>2. g[0] \subseteq g[f[v]]
    BY <1>5, <2>1
  <2> QED
    BY <1>1, <2>1, <2>2
<1>8. ASSUME NEW n \in 1 .. JobCount, n - 1 \in H PROVE n \in H
  <2>1. n \in 0 .. JobCount /\ n - 1 \in 0 .. JobCount
    BY <1>3
  <2>2. ASSUME NEW u \in g[n] PROVE u \in g[f[u]]
    <3>1. CASE u \in g[n - 1]
      BY <1>8, <3>1
    <3>2. CASE u \notin g[n - 1]
      <4>1. PICK e \in pathInstance.lags : e[1] \in g[n - 1] /\ e[2] = u
        BY <1>1, <2>2, <3>2 DEF Neighbors
      <4>2. e[1] \in g[f[e[1]]]
        BY <1>8, <4>1
      <4>3. /\ f[e[1]] + 1 \in 1 .. JobCount /\ (f[e[1]] + 1) - 1 = f[e[1]]
            /\ f[e[1]] + 1 <= f[u] /\ f[u] \in 0 .. JobCount
        BY <1>3, <4>1
      <4>4. u \in g[f[e[1]] + 1]
        <5>1. PICK m \in 1 .. JobCount : m = f[e[1]] + 1 /\ m - 1 = f[e[1]]
          BY <4>3
        <5>2. e[1] \in g[m - 1] /\ e \in Neighbors(e[1])
          BY <4>2, <5>1 DEF Neighbors
        <5>3. u \in g[m]
          BY <1>1, <4>1, <5>2
        <5> QED
          BY <5>1, <5>3
      <4>5. g[f[e[1]] + 1] \subseteq g[f[u]]
        <5>1. f[e[1]] + 1 \in 0 .. JobCount
          BY <4>3
        <5> QED
          BY <1>5, <4>3, <5>1
      <4> QED
        BY <4>4, <4>5
    <3> QED
      BY <3>1, <3>2
  <2> QED
    BY <2>1, <2>2
<1>9. \A n \in 0 .. JobCount : n \in H
  <2> HIDE DEF H
  <2> QED
    BY <1>3, <1>7, <1>8, Induction
<1>10. ASSUME NEW e \in pathInstance.lags, e[1] \in Visited(v)
       PROVE  e[2] \in Visited(v)
  <2>1. e[1] \in g[f[e[1]]]
    <3>1. JobCount \in 0 .. JobCount
      BY <1>3
    <3> QED
      BY <1>1, <1>9, <1>10, <3>1
  <2>2. PICK m \in 1 .. JobCount : m = f[e[1]] + 1 /\ m - 1 = f[e[1]]
    <3>1. f[e[1]] + 1 \in 1 .. JobCount /\ (f[e[1]] + 1) - 1 = f[e[1]]
      BY <1>3
    <3> QED
      BY <3>1
  <2>3. e[1] \in g[m - 1] /\ e \in Neighbors(e[1])
    BY <2>1, <2>2 DEF Neighbors
  <2>4. e[2] \in g[m]
    BY <1>1, <2>3
  <2>5. g[m] \subseteq g[JobCount]
    <3>1. m \in 0 .. JobCount /\ JobCount \in 0 .. JobCount /\ m <= JobCount
      BY <1>3
    <3> QED
      BY <1>5, <3>1
  <2> QED
    BY <1>1, <2>4, <2>5
<1> QED
  BY <1>10 DEF ClosedSet

\* The windows are consistent if the sweeps leave them as they are.
LEMMA ConsistentWindows ==
  ASSUME NEW i \in LagInstance, Acyclic(i),
         NEW es \in [Job -> Nat], Earliest(i, es),
         NEW lf \in [Job -> Nat], Latest(i, lf)
  PROVE  (\A v \in Job : i.release[v] >= es[v] /\ i.deadline[v] <= lf[v])
           <=> NotTooEarly(i, i.release) /\ NotTooLate(i, i.deadline)
<1>1. /\ i.release \in [Job -> Nat] /\ i.deadline \in [Job -> Nat]
      /\ i.release \in [Job -> Int] /\ i.deadline \in [Job -> Int]
      /\ es \in [Job -> Int] /\ lf \in [Job -> Int]
  BY InstanceTypes
<1>2. ASSUME \A v \in Job : i.release[v] >= es[v] /\ i.deadline[v] <= lf[v]
      PROVE  NotTooEarly(i, i.release) /\ NotTooLate(i, i.deadline)
  <2>1. \A v \in Job : i.release[v] = es[v]
    <3> TAKE v \in Job
    <3>1. i.release[v] <= es[v]
      BY DEF Earliest, NotTooEarly
    <3> QED
      BY <1>1, <1>2, <3>1
  <2>2. \A v \in Job : i.deadline[v] = lf[v]
    <3> TAKE v \in Job
    <3>1. lf[v] <= i.deadline[v]
      BY DEF Latest, NotTooLate
    <3> QED
      BY <1>1, <1>2, <3>1
  <2>3. i.release = es /\ i.deadline = lf
    BY <1>1, <2>1, <2>2
  <2> QED
    BY <2>3 DEF Earliest, Latest
<1>3. ASSUME NotTooEarly(i, i.release), NotTooLate(i, i.deadline), NEW v \in Job
      PROVE  i.release[v] >= es[v] /\ i.deadline[v] <= lf[v]
  <2>1. es[v] <= i.release[v]
    BY <1>1, <1>3, EarliestBelow
  <2>2. i.deadline[v] <= lf[v]
    BY <1>1, <1>3, LatestAbove
  <2> QED
    BY <1>1, <2>1, <2>2
<1> QED
  BY <1>2, <1>3

\* Every job leads to a sink, and comes from a source.
LEMMA SinksReached ==
  ASSUME pathInstance \in LagInstance, Acyclic(pathInstance), NEW v \in Job
  PROVE  \E u \in Sinks : u \in Visited(v)
<1>1. PICK f : Along(f)
  BY DEF Acyclic, Along
<1>2. \A u \in Job : f[u] \in Nat /\ JobCount - f[u] \in Nat
  <2>1. \A u \in Job : f[u] \in 1 .. JobCount
    BY <1>1, JobsCounted DEF Along
  <2> QED
    BY <2>1, JobsCounted
<1> DEFINE Left == {JobCount - f[u] : u \in Visited(v)}
<1>3. /\ v \in Visited(v) /\ Visited(v) \subseteq Job /\ ClosedSet(Visited(v))
  <2>1. ClosedSet(Job)
    BY EdgeTypes DEF ClosedSet
  <2> QED
    BY <2>1, VisitedIsLeast, VisitedIsClosed
<1>4. Left \subseteq Nat /\ Left # {}
  BY <1>2, <1>3
<1>5. PICK u \in Visited(v) : \A w \in Visited(v) : JobCount - f[u] <= JobCount - f[w]
  <2>1. PICK m \in Left : \A x \in Left : m <= x
    <3> HIDE DEF Left
    <3> QED
      BY <1>4, LeastNumber
  <2> QED
    BY <2>1
<1>6. u \in Sinks
  <2>1. ASSUME NEW e \in pathInstance.lags, e[1] = u PROVE FALSE
    <3>1. e[2] \in Visited(v) /\ u \in Visited(v)
      BY <1>3, <1>5, <2>1 DEF ClosedSet
    <3>2. JobCount - f[u] <= JobCount - f[e[2]]
      BY <1>5, <3>1
    <3>3. f[u] < f[e[2]]
      BY <1>1, <2>1 DEF Along
    <3>4. PICK x, y : x = f[u] /\ y = f[e[2]]
      OBVIOUS
    <3>5. x \in Nat /\ y \in Nat /\ x < y /\ JobCount - x <= JobCount - y
      BY <1>2, <1>3, <3>1, <3>2, <3>3, <3>4
    <3> QED
      BY <3>5, JobsCounted
  <2> QED
    BY <1>3, <1>5, <2>1 DEF Sinks, Neighbors
<1> QED
  BY <1>5, <1>6

LEMMA SourceExists ==
  ASSUME pathInstance \in LagInstance, Acyclic(pathInstance)
  PROVE  \E u \in Sources : TRUE
<1>1. PICK f : Along(f)
  BY DEF Acyclic, Along
<1>2. \A u \in Job : f[u] \in Nat
  BY <1>1, JobsCounted DEF Along
<1>3. {f[u] : u \in Job} \subseteq Nat /\ {f[u] : u \in Job} # {}
  <2>1. 1 \in Job
    BY JobsCounted
  <2> QED
    BY <1>2, <2>1
<1>4. PICK u \in Job : \A w \in Job : f[u] <= f[w]
  <2>1. PICK m \in {f[u] : u \in Job} : \A x \in {f[u] : u \in Job} : m <= x
    BY <1>3, LeastNumber
  <2> QED
    BY <2>1
<1>5. ASSUME NEW e \in pathInstance.lags, e[2] = u PROVE FALSE
  <2>1. e[1] \in Job /\ f[e[1]] < f[u] /\ f[u] <= f[e[1]]
    BY <1>1, <1>4, <1>5, EdgeTypes DEF Along
  <2>2. f[e[1]] \in Nat /\ f[u] \in Nat
    BY <1>2, <2>1
  <2> QED
    BY <2>1, <2>2
<1> QED
  BY <1>4, <1>5 DEF Sources, ReverseNeighbors

LEMMA DummiesFound ==
  ASSUME pathInstance \in LagInstance, Acyclic(pathInstance)
  PROVE  HasDummyStartEnd <=>
           \E first, last \in Job : \A v \in Job :
             v \in Visited(first) /\ last \in Visited(v)
<1>1. /\ Sources \subseteq Job /\ Sinks \subseteq Job
      /\ IsFiniteSet(Sources) /\ IsFiniteSet(Sinks)
  BY JobsCounted, FS_Subset DEF Sources, Sinks
<1>2. ASSUME HasDummyStartEnd
      PROVE  \E first, last \in Job : \A v \in Job :
               v \in Visited(first) /\ last \in Visited(v)
  <2>1. /\ Cardinality(Sources) = 1 /\ Cardinality(Sinks) <= 1
        /\ \A v \in Sources : Visited(v) = Job
    BY <1>2 DEF HasDummyStartEnd
  <2>2. PICK first \in Sources : TRUE
    BY SourceExists
  <2>3. PICK last \in Sinks : TRUE
    <3>1. 1 \in Job
      BY JobsCounted
    <3> QED
      BY <3>1, SinksReached
  <2>4. \A u \in Sinks : u = last
    <3> TAKE u \in Sinks
    <3>1. ASSUME u # last PROVE FALSE
      <4>1. IsFiniteSet(Sinks \ {u}) /\ Cardinality(Sinks \ {u}) = Cardinality(Sinks) - 1
        BY <1>1, FS_RemoveElement
      <4>2. Cardinality((Sinks \ {u}) \ {last}) = Cardinality(Sinks \ {u}) - 1
        <5>1. last \in Sinks \ {u}
          BY <3>1
        <5> QED
          BY <4>1, <5>1, FS_RemoveElement
      <4>3. Cardinality((Sinks \ {u}) \ {last}) \in Nat /\ Cardinality(Sinks) \in Nat
        <5>1. IsFiniteSet((Sinks \ {u}) \ {last})
          BY <4>1, FS_RemoveElement
        <5> QED
          BY <1>1, <5>1, FS_CardinalityType
      <4> QED
        BY <2>1, <4>1, <4>2, <4>3
    <3> QED
      BY <3>1
  <2>5. \A v \in Job : v \in Visited(first) /\ last \in Visited(v)
    BY <2>1, <2>4, SinksReached
  <2> QED
    BY <1>1, <2>5
<1>3. ASSUME NEW first \in Job, NEW last \in Job,
             \A v \in Job : v \in Visited(first) /\ last \in Visited(v)
      PROVE  HasDummyStartEnd
  <2>1. Sources = {first}
    <3> DEFINE X == {first} \cup {v \in Job : ReverseNeighbors(v) # {}}
    <3>1. ClosedSet(X)
      BY EdgeTypes DEF ClosedSet, ReverseNeighbors
    <3>2. Visited(first) \subseteq X
      <4>1. first \in X
        OBVIOUS
      <4> HIDE DEF X
      <4> QED
        BY <3>1, <4>1, VisitedIsLeast
    <3>3. \A v \in Sources : v = first
      BY <1>3, <3>2 DEF Sources
    <3> QED
      BY <3>3, SourceExists
  <2>2. \A u \in Sinks : u = last
    <3> TAKE u \in Sinks
    <3>1. ClosedSet({u}) /\ u \in Job
      BY DEF ClosedSet, Sinks, Neighbors
    <3>2. Visited(u) \subseteq {u}
      <4>1. u \in {u}
        OBVIOUS
      <4> QED
        BY <3>1, <4>1, VisitedIsLeast
    <3> QED
      BY <1>3, <3>1, <3>2
  <2>3. Cardinality(Sources) = 1
    BY <2>1, FS_Singleton
  <2>4. Cardinality(Sinks) <= 1
    <3>1. Sinks \subseteq {last}
      BY <2>2
    <3>2. IsFiniteSet({last}) /\ Cardinality({last}) = 1
      BY FS_Singleton
    <3>3. Cardinality(Sinks) <= Cardinality({last})
      BY <3>1, <3>2, FS_Subset
    <3> QED
      BY <3>2, <3>3
  <2>5. Visited(first) = Job
    <3>1. ClosedSet(Job)
      BY EdgeTypes DEF ClosedSet
    <3>2. Visited(first) \subseteq Job
      BY <3>1, VisitedIsLeast
    <3> QED
      BY <1>3, <3>2
  <2> QED
    BY <2>1, <2>3, <2>4, <2>5 DEF HasDummyStartEnd
<1> QED
  BY <1>2, <1>3

-----------------------------------------------------------------------------
(* TraitsBuilder.                                                            *)

\* The traits are those of the instance and its sweeps.
BuiltTraits ==
  \E extension \in Extensions, others \in ResourceFlags :
    traits = {f \in DOMAIN Built(extension) : Built(extension)[f]} \cup others

TraitsInv ==
  /\ PathInv
  /\ routePhase # "off" => pathPhase \in {"done", "overrun"} /\ BuiltTraits

LEMMA TraitsInvInit == TraitsInit => TraitsInv
  BY PathInvInit DEF TraitsInit, TraitsInv

LEMMA TraitsInvNext ==
  ASSUME TraitsInv, [TraitsNext]_traitsVars
  PROVE  TraitsInv'
<1>1. CASE PathNext /\ UNCHANGED routeVars
  <2>1. PathInv'
    BY <1>1, PathInvNext DEF TraitsInv
  <2>2. pathPhase \notin {"done", "overrun"}
    <3>1. SearchStep => pathStack # <<>> \/ pathPhase = "sort"
      BY DEF SearchStep, NextRoot, Descend, Backtrack
    <3>2. Begin \/ EndSort \/ RelaxForward \/ RelaxReverse \/ Count =>
            pathPhase \in {"new", "sort", "forward", "reverse", "count"}
      BY DEF Begin, EndSort, RelaxForward, RelaxReverse, Count
    <3> QED
      BY <1>1, <3>1, <3>2 DEF TraitsInv, PathInv, PathNext, SearchStep
  <2>3. routePhase = "off" /\ routePhase' = "off"
    BY <1>1, <2>2 DEF TraitsInv, routeVars
  <2> QED
    BY <2>1, <2>3 DEF TraitsInv
<1>2. CASE BuildTraits
  <2>1. UNCHANGED pathVars /\ pathPhase \in {"done", "overrun"}
    BY <1>2 DEF BuildTraits
  <2>2. PathInv'
    BY <2>1, PathInvKept DEF TraitsInv
  <2>3. UNCHANGED <<pathInstance, pathPhase, earliest_start, latest_finish, lagsDag>>
    BY <2>1 DEF pathVars
  <2>4. \A x : Built(x)' = Built(x)
    BY <2>3 DEF Built, HasDummyStartEnd, Sources, Sinks, Visited, Neighbors, ReverseNeighbors,
                Common
  <2>5. PICK extension \in Extensions, others \in ResourceFlags :
          traits' = {f \in DOMAIN Built(extension) : Built(extension)[f]} \cup others
    BY <1>2 DEF BuildTraits
  <2>6. BuiltTraits'
    BY <2>4, <2>5 DEF BuiltTraits
  <2> QED
    BY <2>1, <2>2, <2>3, <2>6 DEF TraitsInv
<1>3. CASE /\ UNCHANGED <<pathVars, traits>>
           /\ routePhase # "off" \/ UNCHANGED routePhase
  <2>1. PathInv'
    BY <1>3, PathInvKept DEF TraitsInv
  <2>2. UNCHANGED <<pathInstance, pathPhase, earliest_start, latest_finish, lagsDag, traits>>
    BY <1>3 DEF pathVars
  <2>3. \A x : Built(x)' = Built(x)
    BY <2>2 DEF Built, HasDummyStartEnd, Sources, Sinks, Visited, Neighbors, ReverseNeighbors,
                Common
  <2>4. BuiltTraits' = BuiltTraits
    BY <2>2, <2>3 DEF BuiltTraits
  <2> QED
    BY <1>3, <2>1, <2>2, <2>4 DEF TraitsInv
<1>4. AskForRoute \/ SearchRoute \/ WalkRoute =>
        UNCHANGED <<pathVars, traits>> /\ routePhase # "off"
  BY DEF AskForRoute, SearchRoute, WalkRoute
<1>5. UNCHANGED traitsVars => UNCHANGED <<pathVars, traits, routePhase>>
  BY DEF traitsVars, routeVars
<1> QED
  BY <1>1, <1>2, <1>3, <1>4, <1>5 DEF TraitsNext

\* What the flags of TraitsBuilder stand for.
LEMMA FlagsOfTraits ==
  ASSUME TraitsInv, routePhase # "off"
  PROVE  LET i == pathInstance
         IN  /\ "NO_LAGS" \in traits <=> i.lags = {}
             /\ "LAGS_ONLY_SUCCESSORS" \in traits <=> \A e \in i.lags : e[3] = i.duration[e[1]]
             /\ "LAGS_ONLY_GREATER_DURATION" \in traits <=>
                  \A e \in i.lags : e[3] >= i.duration[e[1]]
             /\ "LAGS_ONLY_POSITIVE" \in traits <=> \A e \in i.lags : e[3] >= 0
             /\ "LAGS_DAG" \in traits <=> lagsDag
             /\ "CONSISTENT_WINDOWS" \in traits <=>
                  \A v \in Job : i.release[v] >= earliest_start[v]
                                   /\ i.deadline[v] <= latest_finish[v]
             /\ "DUMMY_START_END" \in traits <=> HasDummyStartEnd
<1>1. PICK extension \in Extensions, others \in ResourceFlags :
        traits = {f \in DOMAIN Built(extension) : Built(extension)[f]} \cup others
  BY DEF TraitsInv, BuiltTraits
<1>2. others \subseteq {"NO_DRAIN", "ZERO_AVAILABILITY", "FLAT_AVAILABILITY", "FLAT_OVERSHOOT"}
  BY TraitsAssumption
<1> DEFINE i == pathInstance
<1>3. /\ "NO_LAGS" \in traits <=> i.lags = {}
      /\ "LAGS_ONLY_SUCCESSORS" \in traits <=> \A e \in i.lags : e[3] = i.duration[e[1]]
      /\ "LAGS_ONLY_GREATER_DURATION" \in traits <=> \A e \in i.lags : e[3] >= i.duration[e[1]]
      /\ "LAGS_ONLY_POSITIVE" \in traits <=> \A e \in i.lags : e[3] >= 0
      /\ "LAGS_DAG" \in traits <=> lagsDag
      /\ "CONSISTENT_WINDOWS" \in traits <=>
           \A v \in Job : i.release[v] >= earliest_start[v] /\ i.deadline[v] <= latest_finish[v]
      /\ "DUMMY_START_END" \in traits <=> HasDummyStartEnd
  <2>1. PICK B : B = Built(extension)
    OBVIOUS
  <2>2. /\ DOMAIN B = {"NO_LAGS", "LAGS_ONLY_SUCCESSORS", "LAGS_ONLY_GREATER_DURATION",
                       "LAGS_ONLY_POSITIVE", "LAGS_DAG", "COMMON_RELEASE", "COMMON_DEADLINE",
                       "COMMON_DURATION", "CONSISTENT_WINDOWS", "DUMMY_START_END",
                       "NO_WINDOW_EXTENSION", "WINDOW_EXTENSION_JOBS_UNLIMITED"}
        /\ B["NO_LAGS"] = (i.lags = {})
        /\ B["LAGS_ONLY_SUCCESSORS"] = (\A e \in i.lags : e[3] = i.duration[e[1]])
        /\ B["LAGS_ONLY_GREATER_DURATION"] = (\A e \in i.lags : e[3] >= i.duration[e[1]])
        /\ B["LAGS_ONLY_POSITIVE"] = (\A e \in i.lags : e[3] >= 0)
        /\ B["LAGS_DAG"] = lagsDag
        /\ B["CONSISTENT_WINDOWS"] =
             (\A v \in Job : i.release[v] >= earliest_start[v] /\ i.deadline[v] <= latest_finish[v])
        /\ B["DUMMY_START_END"] = HasDummyStartEnd
    BY <2>1, Zenon DEF Built
  <2>3. \A f : f \notin {"NO_DRAIN", "ZERO_AVAILABILITY", "FLAT_AVAILABILITY", "FLAT_OVERSHOOT"} =>
                 (f \in traits <=> f \in DOMAIN B /\ B[f])
    BY <1>1, <1>2, <2>1
  <2> HIDE DEF i
  <2>4. /\ "NO_LAGS" \in traits <=> B["NO_LAGS"]
        /\ "LAGS_ONLY_SUCCESSORS" \in traits <=> B["LAGS_ONLY_SUCCESSORS"]
        /\ "LAGS_ONLY_GREATER_DURATION" \in traits <=> B["LAGS_ONLY_GREATER_DURATION"]
        /\ "LAGS_ONLY_POSITIVE" \in traits <=> B["LAGS_ONLY_POSITIVE"]
        /\ "LAGS_DAG" \in traits <=> B["LAGS_DAG"]
        /\ "CONSISTENT_WINDOWS" \in traits <=> B["CONSISTENT_WINDOWS"]
        /\ "DUMMY_START_END" \in traits <=> B["DUMMY_START_END"]
    BY <2>2, <2>3
  <2> QED
    BY <2>2, <2>4, Zenon
<1> QED
  BY <1>3

\* Along a walk behind a source the places of the order never fall, and only those
\* of different jobs differ.
LEMMA NoCycleBehindSource ==
  ASSUME pathInstance \in LagInstance, PlacesInv, lagsDag,
         NEW s \in Sources, NEW v \in Job, NEW w \in Job,
         v \in Visited(s), w \in Visited(v), v \in Visited(w)
  PROVE  v = w
<1>1. PICK R \in SUBSET Job :
        /\ \A u \in Job : Source(u) => u \in R
        /\ \A e \in pathInstance.lags :
             e[1] \in R => e[2] \in R /\ indices[e[1]] <= indices[e[2]]
        /\ \A u, x \in R : indices[u] = indices[x] => u = x
  BY DEF PlacesInv, ReachedInOrder
<1>2. \A u \in Job : indices[u] \in Nat
  BY DEF PlacesInv
<1>3. v \in R
  <2>1. s \in Job /\ s \in R /\ ClosedSet(R)
    BY <1>1 DEF Sources, Source, ClosedSet
  <2> QED
    BY <2>1, VisitedIsLeast
<1>4. ASSUME NEW u \in R, NEW x \in Job, x \in Visited(u)
      PROVE  x \in R /\ indices[u] <= indices[x]
  <2> DEFINE X == {y \in R : indices[u] <= indices[y]}
  <2>1. u \in Job /\ u \in X
    BY <1>2
  <2>2. ASSUME NEW e \in pathInstance.lags, e[1] \in X
        PROVE  e[2] \in X
    <3>1. /\ e[2] \in R /\ indices[e[1]] <= indices[e[2]] /\ indices[u] <= indices[e[1]]
          /\ e[1] \in Job /\ e[2] \in Job
      BY <1>1, <2>2
    <3>2. indices[u] \in Nat /\ indices[e[1]] \in Nat /\ indices[e[2]] \in Nat
      BY <1>2, <3>1
    <3> QED
      BY <3>1, <3>2
  <2>3. ClosedSet(X)
    BY <2>2 DEF ClosedSet
  <2>4. Visited(u) \subseteq X
    <3> HIDE DEF X
    <3> QED
      BY <2>1, <2>3, VisitedIsLeast
  <2> QED
    BY <1>4, <2>4
<1>5. w \in R /\ indices[v] <= indices[w]
  BY <1>3, <1>4
<1>6. indices[w] <= indices[v]
  BY <1>4, <1>5
<1>7. indices[v] = indices[w]
  BY <1>2, <1>5, <1>6
<1> QED
  BY <1>1, <1>3, <1>5, <1>7

LEMMA TraitsAreRight == TraitsInv => TraitsTrue
<1> SUFFICES ASSUME TraitsInv, routePhase # "off"
             PROVE  TraitsTrue
  BY DEF TraitsTrue
<1> DEFINE i == pathInstance
<1>1. pathInstance \in LagInstance /\ PlacesInv
  BY InstancesKnown DEF TraitsInv, PathInv
<1>2. /\ "NO_LAGS" \in traits <=> i.lags = {}
      /\ "LAGS_ONLY_SUCCESSORS" \in traits <=> \A e \in i.lags : e[3] = i.duration[e[1]]
      /\ "LAGS_ONLY_GREATER_DURATION" \in traits <=> \A e \in i.lags : e[3] >= i.duration[e[1]]
      /\ "LAGS_ONLY_POSITIVE" \in traits <=> \A e \in i.lags : e[3] >= 0
      /\ "LAGS_DAG" \in traits <=> lagsDag
      /\ "CONSISTENT_WINDOWS" \in traits <=>
           \A v \in Job : i.release[v] >= earliest_start[v] /\ i.deadline[v] <= latest_finish[v]
      /\ "DUMMY_START_END" \in traits <=> HasDummyStartEnd
  BY FlagsOfTraits
<1>3. "LAGS_DAG" \in traits =>
        \A s \in Sources, v, w \in Job :
          v \in Visited(s) /\ w \in Visited(v) /\ v \in Visited(w) => v = w
  BY <1>1, <1>2, NoCycleBehindSource
<1>4. "DUMMY_START_END" \in traits => \E first \in Job : Visited(first) = Job
  <2>1. ASSUME HasDummyStartEnd PROVE \E first \in Job : Visited(first) = Job
    <3>1. Sources \subseteq Job /\ IsFiniteSet(Sources)
      BY JobsCounted, FS_Subset DEF Sources
    <3>2. Sources # {}
      BY <2>1, FS_EmptySet DEF HasDummyStartEnd
    <3> QED
      BY <2>1, <3>1, <3>2 DEF HasDummyStartEnd
  <2> QED
    BY <1>2, <2>1
<1>5. /\ "NO_LAGS" \in traits => "LAGS_ONLY_SUCCESSORS" \in traits
      /\ "NO_LAGS" \in traits => "LAGS_DAG" \in traits
      /\ "LAGS_ONLY_SUCCESSORS" \in traits => "LAGS_ONLY_GREATER_DURATION" \in traits
      /\ "LAGS_ONLY_GREATER_DURATION" \in traits => "LAGS_ONLY_POSITIVE" \in traits
  <2>1. \A e \in i.lags : e[3] \in Int /\ i.duration[e[1]] \in Nat
    BY <1>1, EdgeTypes, InstanceTypes
  <2>2. i.lags = {} => lagsDag
    BY <1>1 DEF PlacesInv
  <2>3. (\A e \in i.lags : e[3] = i.duration[e[1]]) => \A e \in i.lags : e[3] >= i.duration[e[1]]
    BY <2>1
  <2>4. (\A e \in i.lags : e[3] >= i.duration[e[1]]) => \A e \in i.lags : e[3] >= 0
    BY <2>1
  <2> QED
    BY <1>2, <2>2, <2>3, <2>4
<1>6. \A p \in {<<"NO_LAGS", "LAGS_ONLY_SUCCESSORS">>, <<"NO_LAGS", "LAGS_DAG">>,
                <<"LAGS_ONLY_SUCCESSORS", "LAGS_ONLY_GREATER_DURATION">>,
                <<"LAGS_ONLY_GREATER_DURATION", "LAGS_ONLY_POSITIVE">>} :
        p[1] \in traits => p[2] \in traits
  BY <1>5
<1>7. ASSUME Acyclic(pathInstance)
      PROVE  /\ "LAGS_DAG" \in traits
             /\ "CONSISTENT_WINDOWS" \in traits <=>
                  NotTooEarly(i, i.release) /\ NotTooLate(i, i.deadline)
             /\ "DUMMY_START_END" \in traits <=>
                  \E first, last \in Job :
                    \A v \in Job : v \in Visited(first) /\ last \in Visited(v)
  <2>1. OrderInv /\ ForwardUpTo(JobCount) /\ ReverseUpTo(JobCount)
    BY <1>7 DEF TraitsInv, PathInv, PhaseInv
  <2>2. Earliest(i, earliest_start) /\ Latest(i, latest_finish)
    BY <1>1, <2>1, ForwardEnds, ReverseEnds
  <2>3. earliest_start \in [Job -> Nat] /\ latest_finish \in [Job -> Nat]
    BY <2>1 DEF ForwardUpTo, ReverseUpTo
  <2>4. (\A v \in Job : i.release[v] >= earliest_start[v] /\ i.deadline[v] <= latest_finish[v])
          <=> NotTooEarly(i, i.release) /\ NotTooLate(i, i.deadline)
    BY <1>1, <1>7, <2>2, <2>3, ConsistentWindows
  <2>5. HasDummyStartEnd <=>
          \E first, last \in Job : \A v \in Job : v \in Visited(first) /\ last \in Visited(v)
    BY <1>1, <1>7, DummiesFound
  <2>6. lagsDag
    BY <2>1 DEF OrderInv
  <2> QED
    BY <1>2, <2>4, <2>5, <2>6
<1> QED
  BY <1>3, <1>4, <1>6, <1>7 DEF TraitsTrue

(***************************************************************************)
(* TraitsBuilder, for every instance and every graph of lags: LAGS_DAG is  *)
(* never set over a cycle of several jobs that a source leads to,          *)
(* DUMMY_START_END never without a job that leads to all, and the          *)
(* implications between the flags hold.  If the lags have no cycle,        *)
(* LAGS_DAG is set, and CONSISTENT_WINDOWS and DUMMY_START_END are set     *)
(* exactly if they are true.                                               *)
(***************************************************************************)
THEOREM TraitsAreTrue == TraitsSpec => []TraitsTrue
<1>1. TraitsSpec => []TraitsInv
  <2>1. TraitsInit => TraitsInv
    BY TraitsInvInit
  <2>2. TraitsInv /\ [TraitsNext]_traitsVars => TraitsInv'
    BY TraitsInvNext
  <2> QED
    BY <2>1, <2>2, PTL DEF TraitsSpec
<1> QED
  BY <1>1, TraitsAreRight, PTL

-----------------------------------------------------------------------------
(* TraitsRouter: the profiles that n transformers lead to.                   *)

Successors(X) ==
  {Transformed(q[1], q[2]) : q \in {r \in X \X Transformers : Matches(r[1], r[2])}}

\* All flags that a profile may have.
Flags == traits \cup {"DUMMY_START_END", "NO_WINDOW_EXTENSION", "COMMON_RELEASE",
                      "COMMON_DEADLINE", "CONSISTENT_WINDOWS"}

LEMMA TransformedFlags ==
  ASSUME NEW p \in SUBSET Flags, NEW t \in Transformers
  PROVE  Transformed(p, t) \in SUBSET Flags
<1>1. Adds[t] \subseteq Flags
  BY DEF Adds, Transformers, Flags
<1> QED
  BY <1>1 DEF Transformed

LEMMA SuccessorsFlags ==
  ASSUME NEW X \in SUBSET SUBSET Flags
  PROVE  Successors(X) \in SUBSET SUBSET Flags
<1> SUFFICES ASSUME NEW q \in X \X Transformers
             PROVE  Transformed(q[1], q[2]) \in SUBSET Flags
  BY DEF Successors
<1> QED
  BY TransformedFlags

ReachedBy(g, N) ==
  /\ Reached(N) = g[N]
  /\ g[0] = {traits}
  /\ \A n \in 1 .. N : g[n] = g[n - 1] \cup Successors(g[n - 1])

LEMMA ReachedRounds ==
  ASSUME NEW N \in Nat
  PROVE  \E g : ReachedBy(g, N)
<1> DEFINE S == SUBSET SUBSET Flags
           Folded(g) == g = [k \in 0 .. N |->
                               IF k = 0 THEN {traits}
                               ELSE g[k - 1] \cup
                                      {Transformed(q[1], q[2]) :
                                         q \in {r \in g[k - 1] \X Transformers : Matches(r[1], r[2])}}]
           g == CHOOSE g : Folded(g)
           step == [X \in S |-> X \cup Successors(X)]
<1>1. Reached(N) = g[N]
  BY DEF Reached
<1>2. step \in [S -> S] /\ {traits} \in S
  <2>1. \A X \in S : X \cup Successors(X) \in S
    BY SuccessorsFlags
  <2>2. {traits} \in S
    BY DEF Flags
  <2> HIDE DEF S
  <2> QED
    BY <2>1, <2>2
<1>3. PICK f \in [0 .. N -> S] : Repeats(f, {traits}, step, N)
  <2> HIDE DEF step, S
  <2> QED
    BY <1>2, Iterates
<1>4. f = [k \in 0 .. N |-> IF k = 0 THEN {traits} ELSE f[k - 1] \cup Successors(f[k - 1])]
  <2>1. \A n \in 0 .. N : f[n] = IF n = 0 THEN {traits} ELSE step[f[n - 1]]
    <3> HIDE DEF step, S
    <3> QED
      BY <1>3 DEF Repeats
  <2>2. \A n \in 0 .. N : n # 0 => f[n - 1] \in S
    <3> HIDE DEF S, step
    <3> TAKE n \in 0 .. N
    <3>1. n # 0 => n - 1 \in 0 .. N
      OBVIOUS
    <3> QED
      BY <3>1
  <2>3. \A n \in 0 .. N : f[n] = IF n = 0 THEN {traits} ELSE f[n - 1] \cup Successors(f[n - 1])
    <3> HIDE DEF S
    <3> QED
      BY <2>1, <2>2
  <2> HIDE DEF S, step
  <2> QED
    BY <2>3
<1>5. Folded(f)
  BY <1>4 DEF Successors
<1>6. Folded(g)
  <2> HIDE DEF Folded
  <2> QED
    BY <1>5
<1>7. g = [k \in 0 .. N |-> IF k = 0 THEN {traits} ELSE g[k - 1] \cup Successors(g[k - 1])]
  <2> HIDE DEF g
  <2> QED
    BY <1>6 DEF Successors
<1> HIDE DEF g, Folded
<1>8. g[0] = {traits} /\ \A n \in 1 .. N : g[n] = g[n - 1] \cup Successors(g[n - 1])
  <2>1. \A n \in 0 .. N : g[n] = IF n = 0 THEN {traits} ELSE g[n - 1] \cup Successors(g[n - 1])
    BY <1>7
  <2>2. 0 \in 0 .. N /\ \A n \in 1 .. N : n \in 0 .. N /\ n # 0
    OBVIOUS
  <2> QED
    BY <2>1, <2>2
<1>9. ReachedBy(g, N)
  BY <1>1, <1>8 DEF ReachedBy
<1> QED
  BY <1>9

LEMMA ReachedNext ==
  /\ Reached(0) = {traits}
  /\ \A n \in Nat : Reached(n + 1) = Reached(n) \cup Successors(Reached(n))
<1>1. Reached(0) = {traits}
  <2>1. 0 \in Nat
    OBVIOUS
  <2> QED
    BY <2>1, ReachedRounds DEF ReachedBy
<1>2. ASSUME NEW n \in Nat
      PROVE  Reached(n + 1) = Reached(n) \cup Successors(Reached(n))
  <2>1. PICK g : ReachedBy(g, n)
    BY ReachedRounds
  <2>2. PICK h : ReachedBy(h, n + 1)
    <3>1. n + 1 \in Nat
      OBVIOUS
    <3> QED
      BY <3>1, ReachedRounds
  <2> DEFINE H == {k \in 0 .. n : g[k] = h[k]}
  <2>3. 0 \in H
    <3>1. g[0] = {traits} /\ h[0] = {traits} /\ 0 \in 0 .. n
      BY <2>1, <2>2 DEF ReachedBy
    <3> QED
      BY <3>1
  <2>4. \A k \in 1 .. n : k - 1 \in H => k \in H
    <3> TAKE k \in 1 .. n
    <3>1. k \in 1 .. n + 1 /\ k \in 0 .. n
      OBVIOUS
    <3>2. /\ g[k] = g[k - 1] \cup Successors(g[k - 1])
          /\ h[k] = h[k - 1] \cup Successors(h[k - 1])
      BY <2>1, <2>2, <3>1 DEF ReachedBy
    <3> QED
      BY <3>1, <3>2
  <2>5. \A k \in 0 .. n : k \in H
    <3> HIDE DEF H
    <3> QED
      BY <2>3, <2>4, Induction
  <2>6. g[n] = h[n]
    <3>1. n \in 0 .. n
      OBVIOUS
    <3> QED
      BY <2>5, <3>1
  <2>7. h[n + 1] = h[n] \cup Successors(h[n])
    <3>1. PICK m : m = n + 1
      OBVIOUS
    <3>2. m \in 1 .. n + 1 /\ m - 1 = n
      BY <3>1
    <3> QED
      BY <2>2, <3>1, <3>2 DEF ReachedBy
  <2> QED
    BY <2>1, <2>2, <2>6, <2>7 DEF ReachedBy
<1> QED
  BY <1>1, <1>2

-----------------------------------------------------------------------------
\* What a transformer requires is nothing that another one changes.
LEMMA MatchesStay ==
  ASSUME NEW p, NEW t \in Transformers, Matches(p, t), NEW u \in Transformers
  PROVE  Matches(Transformed(p, t), u) <=> Matches(p, u)
<1>1. /\ Requires[u] \subseteq {"LAGS_DAG", "NO_WINDOW_EXTENSION"}
      /\ "NO_WINDOW_EXTENSION" \in Requires[t] /\ "NO_WINDOW_EXTENSION" \in Adds[t]
      /\ "LAGS_DAG" \notin Adds[t] /\ "LAGS_DAG" \notin Removes[t]
  BY DEF Requires, Adds, Removes, Transformers
<1>2. "NO_WINDOW_EXTENSION" \in p
  BY <1>1 DEF Matches
<1>3. "NO_WINDOW_EXTENSION" \in Transformed(p, t)
  BY <1>1 DEF Transformed
<1>4. "LAGS_DAG" \in Transformed(p, t) <=> "LAGS_DAG" \in p
  BY <1>1 DEF Transformed
<1> QED
  BY <1>1, <1>2, <1>3, <1>4 DEF Matches

\* A transformer makes its first application redundant if it is applied again.
LEMMA Redundant ==
  ASSUME NEW p, NEW a, NEW b, NEW c
  PROVE  /\ Transformed(Transformed(p, a), a) = Transformed(p, a)
         /\ Transformed(Transformed(Transformed(p, a), b), a)
              = Transformed(Transformed(p, b), a)
         /\ Transformed(Transformed(Transformed(Transformed(p, a), b), c), a)
              = Transformed(Transformed(Transformed(p, b), c), a)
<1>1. Transformed(Transformed(p, a), a) = Transformed(p, a)
  BY DEF Transformed
<1>2. Transformed(Transformed(Transformed(p, a), b), a) = Transformed(Transformed(p, b), a)
  BY DEF Transformed
<1>3. Transformed(Transformed(Transformed(Transformed(p, a), b), c), a)
        = Transformed(Transformed(Transformed(p, b), c), a)
  BY DEF Transformed
<1> QED
  BY <1>1, <1>2, <1>3

LEMMA OneMore ==
  ASSUME NEW n \in Nat, NEW p \in Reached(n), NEW t \in Transformers, Matches(p, t)
  PROVE  Transformed(p, t) \in Reached(n + 1)
<1>1. <<p, t>> \in Reached(n) \X Transformers /\ Matches(<<p, t>>[1], <<p, t>>[2])
  OBVIOUS
<1>2. Transformed(<<p, t>>[1], <<p, t>>[2]) \in Successors(Reached(n))
  BY <1>1 DEF Successors
<1> QED
  BY <1>2, ReachedNext

\* How a profile that takes one more transformer is reached.
LEMMA LastOne ==
  ASSUME NEW n \in Nat, NEW p \in Reached(n + 1), p \notin Reached(n)
  PROVE  \E q \in Reached(n) : \E t \in Transformers :
           Matches(q, t) /\ p = Transformed(q, t)
<1>1. p \in Successors(Reached(n))
  BY ReachedNext
<1>2. PICK r \in Reached(n) \X Transformers :
        Matches(r[1], r[2]) /\ p = Transformed(r[1], r[2])
  BY <1>1 DEF Successors
<1> QED
  BY <1>2

LEMMA ReachedGrows ==
  ASSUME NEW n \in Nat
  PROVE  Reached(n) \subseteq Reached(n + 1)
  BY ReachedNext

\* Three transformers reach everything.
LEMMA ThreeAreEnough ==
  \A p \in Reached(3) : \A t \in Transformers :
    Matches(p, t) => Transformed(p, t) \in Reached(3)
<1> DEFINE T(q, u) == Transformed(q, u)
<1>0. /\ 0 \in Nat /\ 1 \in Nat /\ 2 \in Nat /\ 3 \in Nat
      /\ 0 + 1 = 1 /\ 1 + 1 = 2 /\ 2 + 1 = 3
  OBVIOUS
<1>1. Reached(0) \subseteq Reached(1) /\ Reached(1) \subseteq Reached(2)
      /\ Reached(2) \subseteq Reached(3)
  BY <1>0, ReachedGrows
<1>2. SUFFICES ASSUME NEW p \in Reached(3), p \notin Reached(2),
                      NEW t \in Transformers, Matches(p, t)
               PROVE  T(p, t) \in Reached(3)
  BY <1>0, OneMore
<1>3. PICK q2 \in Reached(2) : \E c \in Transformers : Matches(q2, c) /\ p = T(q2, c)
  BY <1>0, <1>2, LastOne
<1>4. PICK c \in Transformers : Matches(q2, c) /\ p = T(q2, c)
  BY <1>3
<1>5. q2 \notin Reached(1)
  BY <1>0, <1>2, <1>4, OneMore
<1>6. PICK q1 \in Reached(1) : \E b \in Transformers : Matches(q1, b) /\ q2 = T(q1, b)
  BY <1>0, <1>5, LastOne
<1>7. PICK b \in Transformers : Matches(q1, b) /\ q2 = T(q1, b)
  BY <1>6
<1>8. q1 \notin Reached(0)
  BY <1>0, <1>5, <1>7, OneMore
<1>9. PICK q0 \in Reached(0) : \E a \in Transformers : Matches(q0, a) /\ q1 = T(q0, a)
  BY <1>0, <1>8, LastOne
<1>10. PICK a \in Transformers : Matches(q0, a) /\ q1 = T(q0, a)
  BY <1>9
<1>11. \A u \in Transformers : /\ Matches(q1, u) <=> Matches(q0, u)
                               /\ Matches(q2, u) <=> Matches(q0, u)
                               /\ Matches(p, u) <=> Matches(q0, u)
  BY <1>4, <1>7, <1>10, MatchesStay
<1>12. Matches(q0, a) /\ Matches(q0, b) /\ Matches(q0, c) /\ Matches(q0, t)
  BY <1>2, <1>4, <1>7, <1>10, <1>11
<1>13. \A x, y \in Transformers : Matches(q0, x) /\ Matches(q0, y) =>
         /\ T(q0, x) \in Reached(1) /\ Matches(T(q0, x), y)
         /\ T(T(q0, x), y) \in Reached(2)
         /\ \A z \in Transformers : Matches(q0, z) => Matches(T(T(q0, x), y), z)
  <2> TAKE x \in Transformers, y \in Transformers
  <2> HAVE Matches(q0, x) /\ Matches(q0, y)
  <2>1. T(q0, x) \in Reached(1)
    BY <1>0, OneMore
  <2>2. Matches(T(q0, x), y)
    BY MatchesStay
  <2>3. T(T(q0, x), y) \in Reached(2)
    BY <1>0, <2>1, <2>2, OneMore
  <2>4. \A z \in Transformers : Matches(q0, z) => Matches(T(T(q0, x), y), z)
    BY <2>2, MatchesStay
  <2> QED
    BY <2>1, <2>2, <2>3, <2>4
<1>14. t = c \/ t = b \/ t = a \/ a = b \/ b = c \/ a = c
  BY DEF Transformers
<1>15. T(p, t) = T(T(T(T(q0, a), b), c), t)
  BY <1>4, <1>7, <1>10
<1>16. CASE t = c
  <2>1. T(p, t) = p
    BY <1>4, <1>16, Redundant
  <2> QED
    BY <2>1
<1>17. CASE t = b
  <2>1. T(p, t) = T(T(q1, c), b)
    BY <1>4, <1>7, <1>17, Redundant
  <2>2. T(q1, c) = T(T(q0, a), c)
    BY <1>10
  <2>3. T(q1, c) \in Reached(2) /\ Matches(T(q1, c), b)
    BY <1>12, <1>13, <2>2
  <2> QED
    BY <1>0, <2>1, <2>3, OneMore
<1>18. CASE t = a
  <2>1. T(p, t) = T(T(T(q0, b), c), a)
    BY <1>15, <1>18, Redundant
  <2>2. T(T(q0, b), c) \in Reached(2) /\ Matches(T(T(q0, b), c), a)
    BY <1>12, <1>13
  <2> QED
    BY <1>0, <2>1, <2>2, OneMore
<1>19. CASE a = b
  <2>1. q2 = q1
    BY <1>7, <1>10, <1>19, Redundant
  <2> QED
    BY <1>5, <2>1
<1>20. CASE b = c
  <2>1. p = q2
    BY <1>4, <1>7, <1>20, Redundant
  <2> QED
    BY <1>2, <2>1
<1>21. CASE a = c
  <2>1. p = T(T(q0, b), a)
    BY <1>4, <1>7, <1>10, <1>21, Redundant
  <2>2. p \in Reached(2)
    BY <1>12, <1>13, <2>1
  <2> QED
    BY <1>2, <2>2
<1> QED
  BY <1>14, <1>16, <1>17, <1>18, <1>19, <1>20, <1>21

LEMMA NothingNew ==
  /\ \A n \in Nat : Reached(n) \subseteq Reached(3)
  /\ Reached(4) = Reached(3)
<1>1. Successors(Reached(3)) \subseteq Reached(3)
  BY ThreeAreEnough DEF Successors
<1>2. ASSUME NEW n \in Nat PROVE Reached(n) \subseteq Reached(3)
  <2> DEFINE H == {k \in 0 .. n : Reached(k) \subseteq Reached(3)}
  <2>1. 0 \in H
    <3>1. /\ 0 \in Nat /\ 1 \in Nat /\ 2 \in Nat /\ 0 + 1 = 1 /\ 1 + 1 = 2 /\ 2 + 1 = 3
          /\ 0 \in 0 .. n
      OBVIOUS
    <3> QED
      BY <3>1, ReachedGrows
  <2>2. \A k \in 1 .. n : k - 1 \in H => k \in H
    <3> TAKE k \in 1 .. n
    <3> HAVE k - 1 \in H
    <3>1. PICK m \in Nat : m = k - 1 /\ m + 1 = k /\ k \in 0 .. n
      <4>1. k - 1 \in Nat /\ (k - 1) + 1 = k /\ k \in 0 .. n
        OBVIOUS
      <4> QED
        BY <4>1
    <3>2. Reached(k) = Reached(m) \cup Successors(Reached(m))
      BY <3>1, ReachedNext
    <3>3. Reached(m) \subseteq Reached(3)
      BY <3>1
    <3>4. Successors(Reached(m)) \subseteq Successors(Reached(3))
      BY <3>3 DEF Successors
    <3> QED
      BY <1>1, <3>1, <3>2, <3>3, <3>4
  <2>3. \A k \in 0 .. n : k \in H
    <3> HIDE DEF H
    <3> QED
      BY <2>1, <2>2, Induction
  <2>4. n \in 0 .. n
    OBVIOUS
  <2> QED
    BY <2>3, <2>4
<1>3. Reached(4) = Reached(3)
  <2>1. 3 \in Nat /\ 3 + 1 = 4 /\ 4 \in Nat
    OBVIOUS
  <2> QED
    BY <1>2, <2>1, ReachedGrows
<1> QED
  BY <1>2, <1>3

-----------------------------------------------------------------------------
(* The search: profiles are found in the order of their depths.              *)

\* It takes n transformers to reach p.
Depth(p, n) == p \in Reached(n) /\ \A m \in Nat : m < n => p \notin Reached(m)

LEMMA ReachedOrdered ==
  ASSUME NEW m \in Nat, NEW n \in Nat, m <= n
  PROVE  Reached(m) \subseteq Reached(n)
<1> DEFINE H == {k \in 0 .. n : m <= k => Reached(m) \subseteq Reached(k)}
<1>1. 0 \in H
  BY DEF H
<1>2. \A k \in 1 .. n : k - 1 \in H => k \in H
  <2> TAKE k \in 1 .. n
  <2> HAVE k - 1 \in H
  <2>1. PICK j \in Nat : j = k - 1 /\ j + 1 = k /\ k \in 0 .. n /\ (m <= k => m <= j \/ m = k)
    <3>1. k - 1 \in Nat /\ (k - 1) + 1 = k /\ k \in 0 .. n /\ (m <= k => m <= k - 1 \/ m = k)
      OBVIOUS
    <3> QED
      BY <3>1
  <2>2. Reached(j) \subseteq Reached(k)
    BY <2>1, ReachedGrows
  <2> QED
    BY <2>1, <2>2
<1>3. \A k \in 0 .. n : k \in H
  <2> HIDE DEF H
  <2> QED
    BY <1>1, <1>2, Induction
<1>4. n \in 0 .. n
  OBVIOUS
<1> QED
  BY <1>3, <1>4

LEMMA DepthNext ==
  ASSUME NEW n \in Nat, NEW p, p \in Reached(n + 1), p \notin Reached(n)
  PROVE  Depth(p, n + 1)
<1>1. ASSUME NEW m \in Nat, m < n + 1 PROVE p \notin Reached(m)
  <2>1. m <= n
    BY <1>1
  <2> QED
    BY <2>1, ReachedOrdered
<1> QED
  BY <1>1 DEF Depth

\* What TraitsRouter's queue and the set of the profiles found so far are like
\* while the transformers before the next one have been tried on the first
\* profile of the queue.
Expanded(p, F) == \A t \in Transformers : Matches(p, t) => Transformed(p, t) \in F

QueueInv(k, Q, F, next) ==
  /\ Q \in Seq(F) /\ Len(Q) >= 1
  /\ Depth(Q[1], k)
  /\ \A j \in 1 .. Len(Q) : Depth(Q[j], k) \/ Depth(Q[j], k + 1)
  /\ \A i, j \in 1 .. Len(Q) : i < j /\ Depth(Q[i], k + 1) => Depth(Q[j], k + 1)
  /\ Reached(k) \subseteq F /\ F \subseteq Reached(k + 1)
  /\ \A p \in F : (\A j \in 1 .. Len(Q) : Q[j] # p) => Expanded(p, F)
  /\ \A m \in 1 .. 3 : m < next /\ Matches(Q[1], routeOrder[m]) =>
                         Transformed(Q[1], routeOrder[m]) \in F

\* One depth excludes the next.
LEMMA DepthOnce ==
  ASSUME NEW n \in Nat, NEW p, Depth(p, n + 1)
  PROVE  p \notin Reached(n)
<1>1. n < n + 1
  OBVIOUS
<1> QED
  BY <1>1 DEF Depth

\* A profile that is found is put at the end.
LEMMA Enqueued ==
  ASSUME NEW k \in 0 .. 3, NEW Q, NEW F, NEW next \in 1 .. 3, QueueInv(k, Q, F, next),
         routeOrder \in [1 .. 3 -> Transformers],
         NEW t \in Transformers, Matches(Q[1], t),
         Transformed(Q[1], t) \notin F
  PROVE  LET out == Transformed(Q[1], t)
         IN  /\ QueueInv(k, Append(Q, out), F \cup {out}, next)
             /\ Depth(out, k + 1) /\ k + 1 \in 1 .. 3
<1> DEFINE out == Transformed(Q[1], t)
           R == Append(Q, out)
           G == F \cup {out}
<1>1. /\ Q \in Seq(F) /\ Len(Q) \in Nat /\ Len(Q) >= 1 /\ k \in Nat
      /\ Q[1] \in Reached(k)
  BY DEF QueueInv, Depth
<1>2. out \in Reached(k + 1) /\ out \notin Reached(k)
  BY <1>1, OneMore DEF QueueInv
<1>3. Depth(out, k + 1)
  BY <1>1, <1>2, DepthNext
<1>4. k + 1 \in 1 .. 3
  <2>1. k # 3
    <3>1. ASSUME k = 3 PROVE FALSE
      <4>1. k + 1 = 4
        BY <3>1
      <4> QED
        BY <1>2, <3>1, <4>1, NothingNew
    <3> QED
      BY <3>1
  <2> QED
    BY <2>1
<1> HIDE DEF out
<1>5. /\ R \in Seq(G) /\ Len(R) = Len(Q) + 1
      /\ \A j \in 1 .. Len(Q) : R[j] = Q[j]
      /\ R[Len(Q) + 1] = out
  <2>1. Q \in Seq(G) /\ out \in G
    BY <1>1
  <2> HIDE DEF G
  <2> QED
    BY <1>1, <2>1
<1> HIDE DEF R
<1>6. 1 \in 1 .. Len(Q) /\ R[1] = Q[1]
  BY <1>1, <1>5
<1>7. ASSUME NEW j \in 1 .. Len(R)
      PROVE  (j \in 1 .. Len(Q) /\ R[j] = Q[j]) \/ (j = Len(Q) + 1 /\ R[j] = out)
  <2>1. j \in 1 .. Len(Q) \/ j = Len(Q) + 1
    BY <1>1, <1>5
  <2> QED
    BY <1>5, <2>1
<1>8. \A j \in 1 .. Len(R) : Depth(R[j], k) \/ Depth(R[j], k + 1)
  BY <1>3, <1>7 DEF QueueInv
<1>9. ASSUME NEW i \in 1 .. Len(R), NEW j \in 1 .. Len(R), i < j, Depth(R[i], k + 1)
      PROVE  Depth(R[j], k + 1)
  <2>1. CASE j = Len(Q) + 1
    BY <1>3, <1>5, <2>1
  <2>2. CASE j \in 1 .. Len(Q)
    <3>1. i \in 1 .. Len(Q)
      BY <1>1, <1>9, <2>2
    <3> QED
      BY <1>5, <1>9, <2>2, <3>1 DEF QueueInv
  <2> QED
    BY <1>7, <2>1, <2>2
<1>10. Reached(k) \subseteq G /\ G \subseteq Reached(k + 1)
  BY <1>2 DEF QueueInv
<1>11. ASSUME NEW p \in G, \A j \in 1 .. Len(R) : R[j] # p
       PROVE  Expanded(p, G)
  <2>1. p # out
    <3>1. Len(Q) + 1 \in 1 .. Len(R)
      BY <1>1, <1>5
    <3> QED
      BY <1>5, <1>11, <3>1
  <2>2. \A j \in 1 .. Len(Q) : j \in 1 .. Len(R)
    BY <1>1, <1>5
  <2>3. p \in F /\ \A j \in 1 .. Len(Q) : Q[j] # p
    BY <1>5, <1>11, <2>1, <2>2
  <2>4. Expanded(p, F)
    BY <2>3 DEF QueueInv
  <2> QED
    BY <2>4 DEF Expanded
<1>12. \A m \in 1 .. 3 : m < next /\ Matches(R[1], routeOrder[m]) =>
                           Transformed(R[1], routeOrder[m]) \in G
  BY <1>6 DEF QueueInv
<1>13. Len(R) >= 1 /\ Depth(R[1], k)
  BY <1>1, <1>5, <1>6 DEF QueueInv
<1>14. QueueInv(k, R, G, next)
  BY <1>5, <1>8, <1>9, <1>10, <1>11, <1>12, <1>13 DEF QueueInv
<1> QED
  BY <1>3, <1>4, <1>14 DEF R, out

\* The next transformer has been tried, too.
LEMMA Tried ==
  ASSUME NEW k \in 0 .. 3, NEW Q, NEW F, NEW next \in 1 .. 3, QueueInv(k, Q, F, next),
         Matches(Q[1], routeOrder[next]) => Transformed(Q[1], routeOrder[next]) \in F
  PROVE  QueueInv(k, Q, F, next + 1)
<1>1. \A m \in 1 .. 3 : m < next + 1 /\ Matches(Q[1], routeOrder[m]) =>
                          Transformed(Q[1], routeOrder[m]) \in F
  <2> TAKE m \in 1 .. 3
  <2> HAVE m < next + 1 /\ Matches(Q[1], routeOrder[m])
  <2>1. m < next \/ m = next
    OBVIOUS
  <2> QED
    BY <2>1 DEF QueueInv
<1> QED
  BY <1>1 DEF QueueInv

\* After the last transformer, the first profile leaves the queue.
LEMMA Dequeued ==
  ASSUME NEW k \in 0 .. 3, NEW Q, NEW F, QueueInv(k, Q, F, 4),
         routeOrder \in [1 .. 3 -> Transformers], Range(routeOrder) = Transformers
  PROVE  IF Tail(Q) = <<>>
         THEN \A p \in F : Expanded(p, F)
         ELSE \E l \in 0 .. 3 : QueueInv(l, Tail(Q), F, 1)
<1> DEFINE R == Tail(Q)
<1>1. /\ Q \in Seq(F) /\ Len(Q) \in Nat /\ Len(Q) >= 1 /\ Q # <<>>
      /\ k \in Nat /\ k + 1 \in Nat
  BY DEF QueueInv
<1>2. /\ R \in Seq(F) /\ Len(R) = Len(Q) - 1
      /\ \A j \in 1 .. Len(R) : R[j] = Q[j + 1] /\ j + 1 \in 1 .. Len(Q)
  BY <1>1
<1>3. R = <<>> <=> Len(R) = 0
  <2>1. \A s \in Seq(F) : s = <<>> <=> Len(s) = 0
    OBVIOUS
  <2> QED
    BY <1>2, <2>1, Zenon
<1> HIDE DEF R
<1>4. Expanded(Q[1], F)
  <2> SUFFICES ASSUME NEW t \in Transformers, Matches(Q[1], t)
               PROVE  Transformed(Q[1], t) \in F
    BY DEF Expanded
  <2>1. PICK m \in 1 .. 3 : routeOrder[m] = t
    BY DEF Range
  <2>2. m < 4
    OBVIOUS
  <2> QED
    BY <2>1, <2>2 DEF QueueInv
<1>5. ASSUME NEW p \in F, \A j \in 1 .. Len(R) : R[j] # p
      PROVE  Expanded(p, F)
  <2>1. CASE p = Q[1]
    BY <1>4, <2>1
  <2>2. CASE p # Q[1]
    <3>1. \A j \in 1 .. Len(Q) : Q[j] # p
      <4> TAKE j \in 1 .. Len(Q)
      <4>1. CASE j = 1
        BY <2>2, <4>1
      <4>2. CASE j # 1
        <5>1. PICK i \in 1 .. Len(R) : i = j - 1 /\ i + 1 = j
          <6>1. j - 1 \in 1 .. Len(R) /\ (j - 1) + 1 = j
            BY <1>1, <1>2, <4>2
          <6> QED
            BY <6>1
        <5> QED
          BY <1>2, <1>5, <5>1
      <4> QED
        BY <4>1, <4>2
    <3> QED
      BY <3>1 DEF QueueInv
  <2> QED
    BY <2>1, <2>2
<1>6. CASE R = <<>>
  <2>1. 1 .. Len(R) = {}
    BY <1>3, <1>6
  <2>2. \A p \in F : Expanded(p, F)
    BY <1>5, <2>1
  <2> QED
    BY <1>6, <2>2 DEF R
<1>7. CASE R # <<>>
  <2>1. Len(R) >= 1 /\ 1 \in 1 .. Len(R) /\ Len(R) \in Nat
    BY <1>1, <1>2, <1>3, <1>7
  <2>2. \A j \in 1 .. Len(R) : Depth(R[j], k) \/ Depth(R[j], k + 1)
    BY <1>2 DEF QueueInv
  <2>3. ASSUME NEW i \in 1 .. Len(R), NEW j \in 1 .. Len(R), i < j, Depth(R[i], k + 1)
        PROVE  Depth(R[j], k + 1)
    <3>1. /\ R[i] = Q[i + 1] /\ R[j] = Q[j + 1] /\ i + 1 \in 1 .. Len(Q)
          /\ j + 1 \in 1 .. Len(Q) /\ i + 1 < j + 1
      BY <1>2, <2>3
    <3> QED
      BY <2>3, <3>1 DEF QueueInv
  <2>4. \A m \in 1 .. 3 : ~ (m < 1)
    OBVIOUS
  <2>5. CASE Depth(R[1], k)
    <3>1. QueueInv(k, R, F, 1)
      BY <1>2, <1>5, <2>1, <2>2, <2>3, <2>4, <2>5 DEF QueueInv
    <3> QED
      BY <1>7, <3>1 DEF R
  <2>6. CASE ~ Depth(R[1], k)
    <3>1. Depth(R[1], k + 1)
      BY <2>1, <2>2, <2>6
    <3>2. \A j \in 1 .. Len(R) : Depth(R[j], k + 1)
      <4> TAKE j \in 1 .. Len(R)
      <4>1. j = 1 \/ 1 < j
        BY <2>1
      <4> QED
        BY <2>1, <2>3, <3>1, <4>1
    <3>3. Reached(k + 1) \subseteq F
      <4> SUFFICES ASSUME NEW p \in Reached(k + 1), p \notin Reached(k) PROVE p \in F
        BY DEF QueueInv
      <4>1. PICK q \in Reached(k) : \E t \in Transformers :
              Matches(q, t) /\ p = Transformed(q, t)
        BY <1>1, LastOne
      <4>2. q \in F
        BY DEF QueueInv
      <4>3. \A j \in 1 .. Len(R) : R[j] # q
        BY <1>1, <3>2, DepthOnce
      <4>4. Expanded(q, F)
        BY <1>5, <4>2, <4>3
      <4> QED
        BY <4>1, <4>4 DEF Expanded
    <3>4. F \subseteq Reached(k + 1 + 1)
      BY <1>1, ReachedGrows DEF QueueInv
    <3>5. k + 1 \in 0 .. 3
      <4>1. ASSUME k = 3 PROVE FALSE
        <5>1. k + 1 = 4 /\ 3 < 4 /\ 3 \in Nat
          BY <4>1
        <5>2. R[1] \in Reached(4) /\ R[1] \notin Reached(3)
          BY <3>1, <5>1 DEF Depth
        <5> QED
          BY <5>2, NothingNew
      <4> QED
        BY <4>1
    <3>6. \A j \in 1 .. Len(R) : Depth(R[j], k + 1) \/ Depth(R[j], k + 1 + 1)
      BY <3>2
    <3>7. \A i, j \in 1 .. Len(R) : i < j /\ Depth(R[i], k + 1 + 1) => Depth(R[j], k + 1 + 1)
      <4>1. \A i \in 1 .. Len(R) : ~ Depth(R[i], k + 1 + 1)
        <5> TAKE i \in 1 .. Len(R)
        <5>1. R[i] \in Reached(k + 1)
          BY <3>2 DEF Depth
        <5> QED
          BY <1>1, <5>1, DepthOnce
      <4> QED
        BY <4>1
    <3>8. \A m \in 1 .. 3 : m < 1 /\ Matches(R[1], routeOrder[m]) =>
                            Transformed(R[1], routeOrder[m]) \in F
      BY <2>4
    <3>9. QueueInv(k + 1, R, F, 1)
      BY <1>2, <1>5, <2>1, <3>1, <3>3, <3>4, <3>6, <3>7, <3>8, Zenon DEF QueueInv
    <3> QED
      BY <1>7, <3>5, <3>9 DEF R
  <2> QED
    BY <2>5, <2>6
<1> QED
  BY <1>6, <1>7

-----------------------------------------------------------------------------
(* The tree of the profiles found, and the paths that end in it.             *)

OrderRight == routeOrder \in [1 .. 3 -> Transformers] /\ Range(routeOrder) = Transformers

\* Every profile but the first comes from one that takes one transformer less.
TreeRight(tree) ==
  /\ traits \in DOMAIN tree
  /\ \A p \in DOMAIN tree :
       p # traits => LET t == tree[p][1]
                         q == tree[p][2]
                     IN  /\ t \in Transformers /\ q \in DOMAIN tree
                         /\ Matches(q, t) /\ p = Transformed(q, t)
                         /\ \E n \in 0 .. 2 : Depth(q, n) /\ Depth(p, n + 1)

\* ps are the profiles that path leads from p to an accepted one.
LeadsBy(ps, p, path) ==
  /\ ps[0] = p
  /\ \A j \in 1 .. Len(path) : /\ Matches(ps[j - 1], path[j])
                               /\ ps[j] = Transformed(ps[j - 1], path[j])
  /\ Fulfills(ps[Len(path)])

Leads(p, path) == \E ps : LeadsBy(ps, p, path)

LEMMA TreeGrows ==
  ASSUME NEW tree, TreeRight(tree), NEW q \in DOMAIN tree, NEW t \in Transformers,
         Matches(q, t), Transformed(q, t) \notin DOMAIN tree,
         NEW n \in 0 .. 2, Depth(q, n), Depth(Transformed(q, t), n + 1)
  PROVE  /\ TreeRight(WithInput(tree, Transformed(q, t), t, q))
         /\ DOMAIN WithInput(tree, Transformed(q, t), t, q)
              = DOMAIN tree \cup {Transformed(q, t)}
<1> DEFINE out == Transformed(q, t)
           new == WithInput(tree, out, t, q)
<1>1. /\ DOMAIN new = DOMAIN tree \cup {out}
      /\ new[out] = <<t, q>>
      /\ \A p \in DOMAIN tree : p # out => new[p] = tree[p]
  BY DEF WithInput
<1>2. out \notin DOMAIN tree /\ Depth(out, n + 1)
  OBVIOUS
<1>3. ASSUME NEW p \in DOMAIN new, p # traits
      PROVE  LET u == new[p][1]
                 r == new[p][2]
             IN  /\ u \in Transformers /\ r \in DOMAIN new
                 /\ Matches(r, u) /\ p = Transformed(r, u)
                 /\ \E m \in 0 .. 2 : Depth(r, m) /\ Depth(p, m + 1)
  <2>1. CASE p = out
    <3>1. new[p][1] = t /\ new[p][2] = q
      BY <1>1, <2>1
    <3>2. \E m \in 0 .. 2 : Depth(q, m) /\ Depth(p, m + 1)
      BY <1>2, <2>1
    <3>3. p = Transformed(q, t) /\ q \in DOMAIN new
      BY <1>1, <2>1
    <3> HIDE DEF new, out
    <3> QED
      BY <3>1, <3>2, <3>3
  <2>2. CASE p # out
    <3>1. p \in DOMAIN tree /\ new[p] = tree[p]
      BY <1>1, <2>2
    <3> HIDE DEF new, out
    <3> QED
      BY <1>1, <1>3, <3>1 DEF TreeRight
  <2> QED
    BY <2>1, <2>2
<1>4. traits \in DOMAIN new
  BY <1>1 DEF TreeRight
<1> HIDE DEF new
<1>5. TreeRight(new)
  BY <1>3, <1>4 DEF TreeRight
<1> QED
  BY <1>1, <1>5 DEF new

\* Profiles take one number of transformers.
LEMMA DepthIsOne ==
  ASSUME NEW p, NEW m \in Nat, NEW n \in Nat, Depth(p, m), Depth(p, n)
  PROVE  m = n
<1>1. ~ (m < n) /\ ~ (n < m)
  BY DEF Depth
<1> QED
  BY <1>1

LEMMA DepthOfFirst ==
  ASSUME NEW p, NEW n \in Nat, Depth(p, n)
  PROVE  p = traits <=> n = 0
<1>1. Reached(0) = {traits}
  BY ReachedNext
<1>2. CASE n = 0
  BY <1>1, <1>2 DEF Depth
<1>3. CASE n # 0
  <2>1. 0 < n
    BY <1>3
  <2> QED
    BY <1>1, <1>3, <2>1 DEF Depth
<1> QED
  BY <1>2, <1>3

\* A path with one more transformer in front.
LEMMA LeadsFurther ==
  ASSUME NEW q, NEW t \in Transformers, Matches(q, t),
         NEW path \in Seq(Transformers), Leads(Transformed(q, t), path)
  PROVE  /\ Leads(q, <<t>> \o path)
         /\ <<t>> \o path \in Seq(Transformers)
         /\ Len(<<t>> \o path) = Len(path) + 1
<1> DEFINE longer == <<t>> \o path
<1>1. /\ longer \in Seq(Transformers) /\ Len(longer) = Len(path) + 1 /\ Len(path) \in Nat
      /\ longer[1] = t
      /\ \A j \in 1 .. Len(path) : longer[j + 1] = path[j]
  OBVIOUS
<1> HIDE DEF longer
<1>2. PICK ps : LeadsBy(ps, Transformed(q, t), path)
  BY DEF Leads
<1> DEFINE qs == [j \in 0 .. Len(path) + 1 |-> IF j = 0 THEN q ELSE ps[j - 1]]
<1>3. qs[0] = q
  BY <1>1
<1>4. \A j \in 1 .. Len(path) + 1 : qs[j] = ps[j - 1]
  BY <1>1
<1> HIDE DEF qs
<1>5. ASSUME NEW j \in 1 .. Len(longer)
      PROVE  Matches(qs[j - 1], longer[j]) /\ qs[j] = Transformed(qs[j - 1], longer[j])
  <2>1. CASE j = 1
    <3>1. j - 1 = 0 /\ j \in 1 .. Len(path) + 1
      BY <1>1, <2>1
    <3>2. qs[j - 1] = q /\ longer[j] = t /\ qs[j] = ps[0]
      BY <1>1, <1>3, <1>4, <2>1, <3>1
    <3> QED
      BY <1>2, <3>2 DEF LeadsBy
  <2>2. CASE j # 1
    <3>1. PICK i \in 1 .. Len(path) : i + 1 = j /\ i = j - 1 /\ j \in 1 .. Len(path) + 1
                                      /\ i \in 1 .. Len(path) + 1
      <4>1. /\ j - 1 \in 1 .. Len(path) /\ (j - 1) + 1 = j /\ j \in 1 .. Len(path) + 1
            /\ j - 1 \in 1 .. Len(path) + 1
        BY <1>1, <2>2
      <4> QED
        BY <4>1
    <3>2. qs[j - 1] = ps[i - 1] /\ longer[j] = path[i] /\ qs[j] = ps[i]
      BY <1>1, <1>4, <3>1
    <3> QED
      BY <1>2, <3>2 DEF LeadsBy
  <2> QED
    BY <2>1, <2>2
<1>6. Fulfills(qs[Len(longer)])
  <2>1. Len(path) + 1 \in 1 .. Len(path) + 1 /\ (Len(path) + 1) - 1 = Len(path)
    BY <1>1
  <2>2. qs[Len(longer)] = ps[Len(path)]
    BY <1>1, <1>4, <2>1
  <2> QED
    BY <1>2, <2>2 DEF LeadsBy
<1>7. LeadsBy(qs, q, longer)
  BY <1>3, <1>5, <1>6 DEF LeadsBy
<1> QED
  BY <1>1, <1>7 DEF Leads, longer

\* A path that leads from the traits gives what RoutesExact says of it.
LEMMA AfterLeads ==
  ASSUME route \in Seq(Transformers), NEW ps, LeadsBy(ps, traits, route),
         NEW n \in 0 .. Len(route)
  PROVE  After(n) = ps[n]
<1> DEFINE Folded(g) == g = [k \in 0 .. n |->
                               IF k = 0 THEN traits ELSE Transformed(g[k - 1], route[k])]
           f == [k \in 0 .. n |-> ps[k]]
           h == CHOOSE g : Folded(g)
<1>0. n \in Nat /\ Len(route) \in Nat
  OBVIOUS
<1>1. After(n) = h[n]
  BY DEF After
<1>2. Folded(f)
  <2>1. ASSUME NEW k \in 0 .. n
        PROVE  f[k] = IF k = 0 THEN traits ELSE Transformed(f[k - 1], route[k])
    <3>1. CASE k = 0
      BY <3>1 DEF LeadsBy
    <3>2. CASE k # 0
      <4>1. k \in 1 .. Len(route) /\ k - 1 \in 0 .. n
        BY <1>0, <3>2
      <4>2. ps[k] = Transformed(ps[k - 1], route[k])
        BY <4>1 DEF LeadsBy
      <4> QED
        BY <3>2, <4>1, <4>2
    <3> QED
      BY <3>1, <3>2
  <2> QED
    BY <2>1
<1>3. Folded(h)
  <2> HIDE DEF f, Folded
  <2>1. \E g : Folded(g)
    BY <1>2
  <2> QED
    BY <2>1
<1> HIDE DEF h
<1> DEFINE H == {k \in 0 .. n : h[k] = ps[k]}
<1>4. 0 \in H
  <2>1. 0 \in 0 .. n
    BY <1>0
  <2>2. h[0] = traits
    BY <1>3, <2>1
  <2> QED
    BY <2>1, <2>2 DEF LeadsBy
<1>5. \A k \in 1 .. n : k - 1 \in H => k \in H
  <2> TAKE k \in 1 .. n
  <2> HAVE k - 1 \in H
  <2>1. k \in 0 .. n /\ k # 0 /\ k \in 1 .. Len(route)
    BY <1>0
  <2>2. h[k] = Transformed(h[k - 1], route[k])
    BY <1>3, <2>1
  <2>3. ps[k] = Transformed(ps[k - 1], route[k])
    BY <2>1 DEF LeadsBy
  <2> QED
    BY <2>1, <2>2, <2>3
<1>6. \A k \in 0 .. n : k \in H
  <2> HIDE DEF H, Folded
  <2> QED
    BY <1>0, <1>4, <1>5, Induction
<1>7. n \in 0 .. n
  BY <1>0
<1> QED
  BY <1>1, <1>6, <1>7

-----------------------------------------------------------------------------
(* The router.                                                               *)

Searching ==
  /\ OrderRight /\ routeNext \in 1 .. 3 /\ route = <<>>
  /\ TreeRight(routeTree)
  /\ \E k \in 0 .. 3 : QueueInv(k, routeQueue, DOMAIN routeTree, routeNext)
  /\ \A p \in DOMAIN routeTree : ~ Fulfills(p)

\* The rest of a path of n transformers, of which m are still to come.
WalkingBack(m, n) ==
  /\ m + Len(route) = n
  /\ Depth(routeProfile, m)
  /\ \A p \in Reached(n - 1) : ~ Fulfills(p)

Walking ==
  /\ route \in Seq(Transformers)
  /\ TreeRight(routeTree) /\ routeProfile \in DOMAIN routeTree
  /\ Leads(routeProfile, route)
  /\ \E m, n \in 1 .. 3 : WalkingBack(m, n)

Routed ==
  /\ route \in Seq(Transformers)
  /\ Leads(traits, route)
  /\ route # <<>> => \A p \in Reached(Len(route) - 1) : ~ Fulfills(p)

RouteInv ==
  /\ routePhase \in {"off", "built", "search", "walk", "done", "none"}
  /\ routePhase \in {"off", "built"} => routeNext = 1 /\ route = <<>>
  /\ routePhase = "search" => Searching
  /\ routePhase = "walk" => Walking
  /\ routePhase = "done" => Routed
  /\ routePhase = "none" => \A p \in Reached(3) : ~ Fulfills(p)

LEMMA RouteInvInit == TraitsInit => RouteInv
  BY DEF TraitsInit, RouteInv

\* The invariant's parts do not see the variables of the builder.
LEMMA RouteInvKept ==
  ASSUME RouteInv, UNCHANGED routeVars
  PROVE  RouteInv'
<1>1. UNCHANGED <<traits, request, routePhase, routeOrder, routeQueue, routeNext, routeTree,
                  routeProfile, route>>
  BY DEF routeVars
<1>2. \A n : Reached(n)' = Reached(n)
  BY <1>1 DEF Reached
<1>3. \A p, n : Depth(p, n)' = Depth(p, n)
  BY <1>2 DEF Depth
<1>4. \A p : Fulfills(p)' = Fulfills(p)
  BY <1>1 DEF Fulfills
<1>5. \A tree : TreeRight(tree)' = TreeRight(tree)
  BY <1>1, <1>3 DEF TreeRight
<1>6. \A p, path : Leads(p, path)' = Leads(p, path)
  BY <1>4 DEF Leads, LeadsBy
<1>7. \A k, Q, F, next : QueueInv(k, Q, F, next)' = QueueInv(k, Q, F, next)
  BY <1>1, <1>2, <1>3 DEF QueueInv, Expanded
<1>8. Searching' = Searching
  BY <1>1, <1>4, <1>5, <1>7 DEF Searching, OrderRight
<1>9. \A m, n : WalkingBack(m, n)' = WalkingBack(m, n)
  BY <1>1, <1>2, <1>3, <1>4 DEF WalkingBack
<1>10. Walking' = Walking
  BY <1>1, <1>5, <1>6, <1>9 DEF Walking
<1>11. Routed' = Routed
  BY <1>1, <1>2, <1>4, <1>6 DEF Routed
<1> QED
  BY <1>1, <1>2, <1>4, <1>8, <1>10, <1>11 DEF RouteInv

\* The queue of the first profile alone.
LEMMA SearchBegins ==
  QueueInv(0, <<traits>>, {traits}, 1)
<1> DEFINE Q == <<traits>>
           F == {traits}
<1>1. /\ Q \in Seq(F) /\ Len(Q) = 1 /\ Q[1] = traits
      /\ 1 \in 1 .. 1 /\ \A j \in 1 .. 1 : j = 1
  OBVIOUS
<1>2. Reached(0) = {traits} /\ Reached(0) \subseteq Reached(0 + 1)
  <2>1. 0 \in Nat
    OBVIOUS
  <2> QED
    BY <2>1, ReachedNext, ReachedGrows
<1>3. Depth(traits, 0)
  <2>1. \A m \in Nat : ~ (m < 0)
    OBVIOUS
  <2> QED
    BY <1>2, <2>1 DEF Depth
<1>4. \A i, j \in 1 .. Len(Q) : ~ (i < j)
  BY <1>1
<1>5. \A m \in 1 .. 3 : ~ (m < 1)
  OBVIOUS
<1>6. \A p \in F : ~ \A j \in 1 .. Len(Q) : Q[j] # p
  BY <1>1
<1>7. Reached(0) \subseteq F /\ F \subseteq Reached(0 + 1)
  BY <1>2
<1>8. \A j \in 1 .. Len(Q) : Depth(Q[j], 0) \/ Depth(Q[j], 0 + 1)
  BY <1>1, <1>3
<1>9. Len(Q) >= 1
  BY <1>1
<1> HIDE DEF Q, F
<1>10. QueueInv(0, Q, F, 1)
  BY <1>1, <1>3, <1>4, <1>5, <1>6, <1>7, <1>8, <1>9 DEF QueueInv
<1> QED
  BY <1>10 DEF Q, F

LEMMA RouteAsked ==
  ASSUME RouteInv, AskForRoute
  PROVE  RouteInv'
<1>1. /\ routePhase = "built" /\ routeNext = 1 /\ route = <<>>
      /\ UNCHANGED <<traits, routeNext, route>>
      /\ routeOrder' \in [1 .. 3 -> Transformers] /\ Range(routeOrder') = Transformers
      /\ routeQueue' = <<traits>>
      /\ routeTree' = [p \in {traits} |-> <<"none", traits>>]
      /\ routePhase' = IF request' \subseteq traits THEN "done" ELSE "search"
  BY DEF AskForRoute, RouteInv
<1>2. CASE request' \subseteq traits
  <2>1. Leads(traits, <<>>)'
    <3> DEFINE ps == [j \in 0 .. 0 |-> traits]
    <3>1. Len(<<>>) = 0 /\ ps[0] = traits /\ 1 .. 0 = {}
      OBVIOUS
    <3>2. Fulfills(traits)' /\ (ps[0])' = traits' /\ traits' = traits
      BY <1>1, <1>2 DEF Fulfills
    <3> SUFFICES \E qs : /\ qs[0] = traits'
                         /\ \A j \in 1 .. Len(<<>>) :
                              /\ Matches(qs[j - 1], (<<>>)[j])
                              /\ qs[j] = Transformed(qs[j - 1], (<<>>)[j])
                         /\ request' \subseteq qs[Len(<<>>)]
      BY DEF Leads, LeadsBy, Fulfills
    <3> WITNESS ps
    <3> HIDE DEF ps
    <3> QED
      BY <1>1, <1>2, <3>1
  <2>2. <<>> \in Seq(Transformers)
    OBVIOUS
  <2>3. Routed'
    BY <1>1, <2>1, <2>2 DEF Routed
  <2> QED
    BY <1>1, <1>2, <2>3 DEF RouteInv
<1>3. CASE ~ (request' \subseteq traits)
  <2>1. \A n : Reached(n)' = Reached(n)
    BY <1>1 DEF Reached
  <2>2. \A p, n : Depth(p, n)' = Depth(p, n)
    BY <2>1 DEF Depth
  <2>3. QueueInv(0, <<traits>>, {traits}, 1)'
    <3>1. QueueInv(0, <<traits>>, {traits}, 1)
      BY SearchBegins
    <3>2. \A m \in 1 .. 3 : ~ (m < 1)
      OBVIOUS
    <3> QED
      BY <1>1, <2>1, <2>2, <3>1, <3>2 DEF QueueInv, Expanded
  <2>4. DOMAIN routeTree' = {traits} /\ traits' = traits
    BY <1>1
  <2>5. TreeRight(routeTree)'
    BY <2>4 DEF TreeRight
  <2>6. \A p \in DOMAIN routeTree' : ~ Fulfills(p)'
    BY <1>3, <2>4 DEF Fulfills
  <2>7. \E k \in 0 .. 3 : QueueInv(k, routeQueue, DOMAIN routeTree, routeNext)'
    <3>1. 0 \in 0 .. 3
      OBVIOUS
    <3>2. QueueInv(0, routeQueue, DOMAIN routeTree, routeNext)'
      BY <1>1, <2>3, <2>4
    <3> QED
      BY <3>1, <3>2
  <2>8. 1 \in 1 .. 3
    OBVIOUS
  <2>9. Searching'
    BY <1>1, <2>5, <2>6, <2>7, <2>8 DEF Searching, OrderRight
  <2> QED
    BY <1>1, <1>3, <2>9 DEF RouteInv
<1> QED
  BY <1>2, <1>3


\* What a step of the router that leaves its question alone leaves alone, too.
LEMMA SameQuestion ==
  ASSUME UNCHANGED <<traits, request, routeOrder>>
  PROVE  /\ \A n : Reached(n)' = Reached(n)
         /\ \A p, n : Depth(p, n)' = Depth(p, n)
         /\ \A p : Fulfills(p)' = Fulfills(p)
         /\ \A tree : TreeRight(tree)' = TreeRight(tree)
         /\ \A p, path : Leads(p, path)' = Leads(p, path)
         /\ \A k, Q, F, next : QueueInv(k, Q, F, next)' = QueueInv(k, Q, F, next)
<1>1. \A n : Reached(n)' = Reached(n)
  BY DEF Reached
<1>2. \A p, n : Depth(p, n)' = Depth(p, n)
  BY <1>1 DEF Depth
<1>3. \A p : Fulfills(p)' = Fulfills(p)
  BY DEF Fulfills
<1>4. \A tree : TreeRight(tree)' = TreeRight(tree)
  BY <1>2 DEF TreeRight
<1>5. \A p, path : Leads(p, path)' = Leads(p, path)
  BY <1>3 DEF Leads, LeadsBy
<1>6. \A k, Q, F, next : QueueInv(k, Q, F, next)' = QueueInv(k, Q, F, next)
  BY <1>1, <1>2 DEF QueueInv, Expanded
<1> QED
  BY <1>1, <1>2, <1>3, <1>4, <1>5, <1>6

\* An empty queue has seen everything.
LEMMA NothingLeft ==
  ASSUME NEW F, traits \in F, \A p \in F : Expanded(p, F)
  PROVE  Reached(3) \subseteq F
<1>1. ASSUME NEW n \in Nat, Reached(n) \subseteq F PROVE Reached(n + 1) \subseteq F
  <2>1. ASSUME NEW p \in Reached(n + 1), p \notin Reached(n) PROVE p \in F
    <3>1. PICK q \in Reached(n) : \E t \in Transformers :
            Matches(q, t) /\ p = Transformed(q, t)
      BY <2>1, LastOne
    <3>2. q \in F
      BY <1>1
    <3> QED
      BY <3>1, <3>2 DEF Expanded
  <2> QED
    BY <1>1, <2>1
<1>2. /\ 0 \in Nat /\ 1 \in Nat /\ 2 \in Nat /\ 0 + 1 = 1 /\ 1 + 1 = 2 /\ 2 + 1 = 3
  OBVIOUS
<1>3. Reached(0) \subseteq F
  BY ReachedNext
<1>4. Reached(1) \subseteq F
  BY <1>1, <1>2, <1>3
<1>5. Reached(2) \subseteq F
  BY <1>1, <1>2, <1>4
<1> QED
  BY <1>1, <1>2, <1>5

LEMMA RouteSearched ==
  ASSUME RouteInv, SearchRoute
  PROVE  RouteInv'
<1> DEFINE profile == Head(routeQueue)
           t == routeOrder[routeNext]
           out == Transformed(profile, t)
           fresh == Matches(profile, t) /\ out \notin DOMAIN routeTree
           queued == IF fresh THEN Append(routeQueue, out) ELSE routeQueue
           found == fresh /\ Fulfills(out)
           tree == IF fresh THEN WithInput(routeTree, out, t, profile) ELSE routeTree
<1>1. /\ routePhase = "search"
      /\ routeTree' = tree
      /\ routeQueue' = (IF found \/ routeNext = 3 THEN Tail(queued) ELSE queued)
      /\ routeNext' = (IF routeNext = 3 THEN 1 ELSE routeNext + 1)
      /\ routeProfile' = (IF found THEN out ELSE routeProfile)
      /\ routePhase' = (IF found THEN "walk"
                        ELSE IF routeQueue' = <<>> THEN "none" ELSE "search")
      /\ UNCHANGED <<traits, request, routeOrder, route>>
  BY DEF SearchRoute
<1>2. Searching
  BY <1>1 DEF RouteInv
<1>3. PICK k \in 0 .. 3 : QueueInv(k, routeQueue, DOMAIN routeTree, routeNext)
  BY <1>2 DEF Searching
<1>4. /\ OrderRight /\ routeNext \in 1 .. 3 /\ route = <<>> /\ TreeRight(routeTree)
      /\ t \in Transformers /\ \A p \in DOMAIN routeTree : ~ Fulfills(p)
  BY <1>2 DEF Searching, OrderRight
<1>5. /\ routeQueue \in Seq(DOMAIN routeTree) /\ Len(routeQueue) \in Nat /\ Len(routeQueue) >= 1
      /\ routeQueue # <<>> /\ profile = routeQueue[1] /\ profile \in DOMAIN routeTree
      /\ Depth(profile, k) /\ Reached(k) \subseteq DOMAIN routeTree
  <2>1. routeQueue \in Seq(DOMAIN routeTree) /\ Len(routeQueue) >= 1
    BY <1>3 DEF QueueInv
  <2> DEFINE F == DOMAIN routeTree
  <2>2. Len(routeQueue) \in Nat /\ routeQueue # <<>> /\ 1 \in 1 .. Len(routeQueue)
        /\ profile = routeQueue[1] /\ routeQueue[1] \in F
    <3> HIDE DEF F
    <3>1. routeQueue \in Seq(F)
      BY <2>1 DEF F
    <3> QED
      BY <2>1, <3>1
  <2> QED
    BY <1>3, <2>1, <2>2 DEF QueueInv
<1> HIDE DEF profile, t
<1>6. fresh => /\ Depth(out, k + 1) /\ k + 1 \in 1 .. 3
               /\ QueueInv(k, Append(routeQueue, out), DOMAIN routeTree \cup {out}, routeNext)
               /\ TreeRight(tree) /\ DOMAIN tree = DOMAIN routeTree \cup {out}
  <2> HAVE fresh
  <2>1. /\ QueueInv(k, Append(routeQueue, out), DOMAIN routeTree \cup {out}, routeNext)
        /\ Depth(out, k + 1) /\ k + 1 \in 1 .. 3
    <3>1. Matches(routeQueue[1], t) /\ Transformed(routeQueue[1], t) \notin DOMAIN routeTree
      BY <1>5
    <3> QED
      BY <1>3, <1>4, <1>5, <3>1, Enqueued DEF OrderRight
  <2>2. k \in 0 .. 2
    BY <2>1
  <2>3. TreeRight(tree) /\ DOMAIN tree = DOMAIN routeTree \cup {out}
    BY <1>4, <1>5, <2>1, <2>2, TreeGrows
  <2> QED
    BY <2>1, <2>3
<1>7. /\ TreeRight(tree) /\ QueueInv(k, queued, DOMAIN tree, routeNext)
      /\ DOMAIN routeTree \subseteq DOMAIN tree
  <2>1. CASE fresh
    BY <1>6, <2>1
  <2>2. CASE ~ fresh
    BY <1>3, <1>4, <2>2
  <2> QED
    BY <2>1, <2>2
<1>8. queued[1] = profile /\ (Matches(profile, t) => out \in DOMAIN tree)
  <2>1. CASE fresh
    <3> DEFINE S == DOMAIN routeTree \cup {out}
    <3>1. routeQueue \in Seq(S) /\ out \in S
      BY <1>5
    <3> HIDE DEF S, out
    <3>2. Append(routeQueue, out)[1] = routeQueue[1]
      BY <1>5, <3>1
    <3> QED
      BY <1>5, <1>6, <2>1, <3>2
  <2>2. CASE ~ fresh
    BY <1>5, <2>2
  <2> QED
    BY <2>1, <2>2
<1>9. QueueInv(k, queued, DOMAIN tree, routeNext + 1)
  <2>1. Matches(queued[1], routeOrder[routeNext]) =>
          Transformed(queued[1], routeOrder[routeNext]) \in DOMAIN tree
    BY <1>8 DEF t
  <2> HIDE DEF queued, tree
  <2> QED
    BY <1>4, <1>7, <2>1, Tried
<1>10. /\ \A n : Reached(n)' = Reached(n)
       /\ \A p, n : Depth(p, n)' = Depth(p, n)
       /\ \A p : Fulfills(p)' = Fulfills(p)
       /\ \A r : TreeRight(r)' = TreeRight(r)
       /\ \A p, path : Leads(p, path)' = Leads(p, path)
       /\ \A j, Q, F, next : QueueInv(j, Q, F, next)' = QueueInv(j, Q, F, next)
  BY <1>1, SameQuestion
<1>11. CASE found
  <2>1. /\ routeProfile' = out /\ routeTree' = tree /\ route' = <<>> /\ routePhase' = "walk"
        /\ out \in DOMAIN tree /\ Fulfills(out) /\ fresh
    BY <1>1, <1>4, <1>6, <1>11
  <2>2. Leads(out, <<>>)
    <3> DEFINE ps == [j \in 0 .. 0 |-> out]
    <3>1. Len(<<>>) = 0 /\ ps[0] = out /\ 1 .. 0 = {}
      OBVIOUS
    <3> HIDE DEF ps
    <3>2. LeadsBy(ps, out, <<>>)
      BY <2>1, <3>1 DEF LeadsBy
    <3> QED
      BY <3>2 DEF Leads
  <2>3. \E m, n \in 1 .. 3 : WalkingBack(m, n)'
    <3>1. PICK n \in 1 .. 3 : n = k + 1 /\ n - 1 = k
      BY <1>6, <2>1
    <3>2. n + Len(<<>>) = n
      OBVIOUS
    <3>3. \A p \in Reached(n - 1) : ~ Fulfills(p)
      BY <1>4, <1>5, <3>1
    <3>4. Depth(out, n)
      BY <1>6, <2>1, <3>1
    <3> HIDE DEF out
    <3>5. WalkingBack(n, n)'
      BY <1>10, <2>1, <3>2, <3>3, <3>4 DEF WalkingBack
    <3> QED
      BY <3>5
  <2>4. <<>> \in Seq(Transformers)
    OBVIOUS
  <2> HIDE DEF out, tree
  <2>5. Walking'
    BY <1>7, <1>10, <2>1, <2>2, <2>3, <2>4 DEF Walking
  <2> QED
    BY <2>1, <2>5 DEF RouteInv
<1>12. CASE ~ found
  <2>1. \A p \in DOMAIN tree : ~ Fulfills(p)
    <3>1. CASE fresh
      BY <1>4, <1>6, <1>12, <3>1
    <3>2. CASE ~ fresh
      BY <1>4, <3>2
    <3> QED
      BY <3>1, <3>2
  <2>2. /\ routeTree' = tree /\ route' = <<>>
        /\ routeQueue' = (IF routeNext = 3 THEN Tail(queued) ELSE queued)
        /\ routePhase' = (IF routeQueue' = <<>> THEN "none" ELSE "search")
        /\ routeNext' \in 1 .. 3
    BY <1>1, <1>4, <1>12
  <2>3. OrderRight'
    BY <1>1, <1>4 DEF OrderRight
  <2> HIDE DEF tree, queued
  <2>4. IF routeQueue' = <<>>
        THEN \A p \in DOMAIN tree : Expanded(p, DOMAIN tree)
        ELSE \E j \in 0 .. 3 : QueueInv(j, routeQueue', DOMAIN tree, routeNext')
    <3>1. CASE routeNext = 3
      <4>1. routeQueue' = Tail(queued) /\ routeNext' = 1 /\ routeNext + 1 = 4
        BY <1>1, <2>2, <3>1
      <4>2. QueueInv(k, queued, DOMAIN tree, 4)
        BY <1>9, <4>1
      <4> QED
        BY <1>4, <4>1, <4>2, Dequeued DEF OrderRight
    <3>2. CASE routeNext # 3
      <4>1. routeQueue' = queued /\ routeNext' = routeNext + 1
        BY <1>1, <2>2, <3>2
      <4>2. queued # <<>>
        <5>1. queued \in Seq(DOMAIN tree) /\ Len(queued) >= 1
          BY <1>9 DEF QueueInv
        <5> QED
          BY <5>1
      <4> QED
        BY <1>9, <4>1, <4>2
    <3> QED
      BY <3>1, <3>2
  <2>5. CASE routeQueue' = <<>>
    <3>1. traits \in DOMAIN tree /\ \A p \in DOMAIN tree : Expanded(p, DOMAIN tree)
      BY <1>7, <2>4, <2>5 DEF TreeRight
    <3>2. Reached(3) \subseteq DOMAIN tree
      BY <3>1, NothingLeft
    <3> QED
      BY <1>10, <2>1, <2>2, <2>5, <3>2 DEF RouteInv
  <2>6. CASE routeQueue' # <<>>
    <3>1. \E j \in 0 .. 3 : QueueInv(j, routeQueue', DOMAIN tree, routeNext')
      BY <2>4, <2>6
    <3>2. \E j \in 0 .. 3 : QueueInv(j, routeQueue, DOMAIN routeTree, routeNext)'
      <4>1. PICK j \in 0 .. 3 : QueueInv(j, routeQueue', DOMAIN tree, routeNext')
        BY <3>1
      <4>2. QueueInv(j, routeQueue, DOMAIN routeTree, routeNext)'
        BY <1>1, <1>10, <2>2, <4>1 DEF QueueInv, Expanded
      <4> QED
        BY <4>2
    <3>3. Searching'
      BY <1>7, <1>10, <2>1, <2>2, <2>3, <3>2 DEF Searching
    <3> QED
      BY <2>2, <2>6, <3>3 DEF RouteInv
  <2> QED
    BY <2>5, <2>6
<1> QED
  BY <1>11, <1>12

LEMMA RouteWalked ==
  ASSUME RouteInv, WalkRoute
  PROVE  RouteInv'
<1> DEFINE t == routeTree[routeProfile][1]
           q == routeTree[routeProfile][2]
<1>1. /\ routePhase = "walk" /\ route' = <<t>> \o route /\ routeProfile' = q
      /\ routePhase' = (IF Len(route) > 2 THEN "exit"
                        ELSE IF q = traits THEN "done" ELSE "walk")
      /\ UNCHANGED <<traits, request, routeOrder, routeTree>>
  BY DEF WalkRoute
<1>2. Walking
  BY <1>1 DEF RouteInv
<1>3. PICK m \in 1 .. 3, n \in 1 .. 3 : WalkingBack(m, n)
  BY <1>2 DEF Walking
<1>4. routeProfile # traits
  BY <1>3, DepthOfFirst DEF WalkingBack
<1>5. /\ t \in Transformers /\ q \in DOMAIN routeTree
      /\ Matches(q, t) /\ routeProfile = Transformed(q, t)
      /\ \E j \in 0 .. 2 : Depth(q, j) /\ Depth(routeProfile, j + 1)
  BY <1>2, <1>4 DEF Walking, TreeRight
<1> HIDE DEF t, q
<1>6. PICK j \in 0 .. 2 : Depth(q, j) /\ Depth(routeProfile, j + 1)
  BY <1>5
<1>7. j + 1 = m
  <2>1. j + 1 \in Nat /\ m \in Nat /\ Depth(routeProfile, m)
    BY <1>3 DEF WalkingBack
  <2> QED
    BY <1>6, <2>1, DepthIsOne
<1>8. /\ route \in Seq(Transformers) /\ Len(route) \in Nat /\ m + Len(route) = n
      /\ Len(route) <= 2 /\ Leads(routeProfile, route)
  <2>1. route \in Seq(Transformers) /\ m + Len(route) = n /\ Leads(routeProfile, route)
    BY <1>2, <1>3 DEF Walking, WalkingBack
  <2>2. Len(route) \in Nat
    BY <2>1
  <2> QED
    BY <2>1, <2>2
<1>9. /\ Leads(q, route') /\ route' \in Seq(Transformers)
      /\ Len(route') = Len(route) + 1
  BY <1>1, <1>5, <1>8, LeadsFurther
<1>10. /\ \A i : Reached(i)' = Reached(i)
       /\ \A p, i : Depth(p, i)' = Depth(p, i)
       /\ \A p : Fulfills(p)' = Fulfills(p)
       /\ \A r : TreeRight(r)' = TreeRight(r)
       /\ \A p, path : Leads(p, path)' = Leads(p, path)
  BY <1>1, SameQuestion
<1>11. \A p \in Reached(n - 1) : ~ Fulfills(p)
  BY <1>3 DEF WalkingBack
<1>12. j + Len(route') = n
  BY <1>7, <1>8, <1>9
<1>13. CASE q = traits
  <2>1. j = 0
    BY <1>6, <1>13, DepthOfFirst
  <2>2. Len(route') = n
    BY <1>8, <1>9, <1>12, <2>1
  <2>3. Leads(traits, route)'
    BY <1>1, <1>9, <1>10, <1>13 DEF Leads, LeadsBy, Fulfills
  <2>4. Routed'
    BY <1>9, <1>10, <1>11, <2>2, <2>3 DEF Routed
  <2>5. routePhase' = "done"
    BY <1>1, <1>8, <1>13
  <2> QED
    BY <2>4, <2>5 DEF RouteInv
<1>14. CASE q # traits
  <2>1. j \in 1 .. 3
    BY <1>6, <1>14, DepthOfFirst
  <2>2. WalkingBack(j, n)'
    BY <1>1, <1>6, <1>10, <1>11, <1>12 DEF WalkingBack
  <2>3. Leads(routeProfile, route)'
    BY <1>1, <1>9, <1>10 DEF Leads, LeadsBy, Fulfills
  <2>4. TreeRight(routeTree)' /\ routeProfile' \in DOMAIN routeTree'
    BY <1>1, <1>2, <1>5, <1>10 DEF Walking, TreeRight
  <2>5. Walking'
    BY <1>9, <2>1, <2>2, <2>3, <2>4 DEF Walking
  <2>6. routePhase' = "walk"
    BY <1>1, <1>8, <1>14
  <2> QED
    BY <2>5, <2>6 DEF RouteInv
<1> QED
  BY <1>13, <1>14


LEMMA RouteInvNext ==
  ASSUME RouteInv, [TraitsNext]_traitsVars
  PROVE  RouteInv'
<1>1. CASE UNCHANGED routeVars
  BY <1>1, RouteInvKept
<1>2. CASE BuildTraits
  BY <1>2 DEF BuildTraits, RouteInv
<1>3. CASE AskForRoute
  BY <1>3, RouteAsked
<1>4. CASE SearchRoute
  BY <1>4, RouteSearched
<1>5. CASE WalkRoute
  BY <1>5, RouteWalked
<1>6. UNCHANGED traitsVars => UNCHANGED routeVars
  BY DEF traitsVars
<1> QED
  BY <1>1, <1>2, <1>3, <1>4, <1>5, <1>6 DEF TraitsNext

LEMMA RoutesAreRight == RouteInv => RoutesExact
<1> SUFFICES ASSUME RouteInv PROVE RoutesExact
  OBVIOUS
<1>1. routePhase # "exit"
  BY DEF RouteInv
<1>2. ASSUME routePhase = "done"
      PROVE  /\ \A n \in DOMAIN route : Requires[route[n]] \subseteq After(n - 1)
             /\ request \subseteq After(Len(route))
             /\ route # <<>> => \A p \in Reached(Len(route) - 1) : ~ request \subseteq p
  <2>1. Routed
    BY <1>2 DEF RouteInv
  <2>2. route \in Seq(Transformers) /\ Len(route) \in Nat /\ DOMAIN route = 1 .. Len(route)
    BY <2>1 DEF Routed
  <2>3. PICK ps : LeadsBy(ps, traits, route)
    BY <2>1 DEF Routed, Leads
  <2>4. \A n \in 0 .. Len(route) : After(n) = ps[n]
    BY <2>2, <2>3, AfterLeads
  <2>5. ASSUME NEW n \in 1 .. Len(route)
        PROVE  Requires[route[n]] \subseteq After(n - 1)
    <3>1. n - 1 \in 0 .. Len(route)
      BY <2>2
    <3>2. Matches(ps[n - 1], route[n])
      BY <2>3 DEF LeadsBy
    <3> QED
      BY <2>4, <3>1, <3>2 DEF Matches
  <2>6. request \subseteq After(Len(route))
    <3>1. Len(route) \in 0 .. Len(route)
      BY <2>2
    <3> QED
      BY <2>3, <2>4, <3>1 DEF LeadsBy, Fulfills
  <2>7. route # <<>> => \A p \in Reached(Len(route) - 1) : ~ request \subseteq p
    BY <2>1 DEF Routed, Fulfills
  <2> QED
    BY <2>2, <2>5, <2>6, <2>7
<1>3. ASSUME routePhase = "none", NEW p \in Reached(8) PROVE ~ request \subseteq p
  <2>1. 8 \in Nat
    OBVIOUS
  <2>2. p \in Reached(3)
    BY <1>3, <2>1, NothingNew
  <2> QED
    BY <1>3, <2>2 DEF RouteInv, Fulfills
<1> QED
  BY <1>1, <1>2, <1>3 DEF RoutesExact

(***************************************************************************)
(* TraitsRouter finds a path of transformers whenever there is one, and    *)
(* one of the shortest; every transformer of it finds what it requires,    *)
(* and the solver accepts the profile at the end.  The exit of get_path()  *)
(* is never taken: no profile takes more than three transformers.          *)
(***************************************************************************)
THEOREM RoutesAreShortest == TraitsSpec => []RoutesExact
<1>1. TraitsInit => RouteInv
  BY RouteInvInit
<1>2. RouteInv /\ [TraitsNext]_traitsVars => RouteInv'
  BY RouteInvNext
<1>3. RouteInv => RoutesExact
  BY RoutesAreRight
<1> QED
  BY <1>1, <1>2, <1>3, PTL DEF TraitsSpec

=============================================================================
