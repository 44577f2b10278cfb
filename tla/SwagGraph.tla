----------------------------- MODULE SwagGraph -----------------------------
(***************************************************************************)
(* The graph of SWAGSolver as swag/swag.cpp lays it out: two families of   *)
(* lists that hold indices into each other.  adjacency_list[s] has an      *)
(* entry for every edge out of s with the place of the edge in the list of *)
(* its target, rev_adjacency_list[t] an entry for every edge into t with   *)
(* the place in the list of its source.  bulk_delete() closes the gaps by  *)
(* moving last entries forward, which changes the indices it is working    *)
(* with: the changes are collected and applied in a later pass.            *)
(*                                                                         *)
(* Module Swag, which searches, has a set of edges instead.  This module   *)
(* shows that the lists always stand for such a set.                       *)
(***************************************************************************)
EXTENDS Integers, Sequences

CONSTANTS
  GraphJobs,    \* the number of jobs
  GraphLags,    \* the edges of the lag graph, in the order of edges()
  GraphOthers,  \* the edges that may be inserted besides
  GraphMax      \* bounds the edges out of one job

GraphJob == 1 .. GraphJobs

ASSUME GraphAssumption ==
  /\ GraphJobs \in Nat \ {0}
  /\ GraphLags \in Seq(GraphJob \X GraphJob)
  /\ \A i, j \in DOMAIN GraphLags : GraphLags[i] = GraphLags[j] => i = j
  /\ GraphOthers \subseteq GraphJob \X GraphJob
  /\ GraphMax \in Nat

VARIABLES
  adjacency_list, rev_adjacency_list,
  base_adjacency_list, base_rev_adjacency_list,
  forward_deletion_buckets, reverse_deletion_buckets,
  forward_pointers_changed, reverse_pointers_changed,
  graphPass,   \* where the program is: initialize_graph(), the search, or one
               \* of the three passes of bulk_delete()
  graphRow,    \* the job whose list the pass has arrived at
  graphEdges   \* the edges the solver has asked for: source, target and
               \* whether they are permanent.  Not in the code.

lists == <<adjacency_list, rev_adjacency_list>>
baseLists == <<base_adjacency_list, base_rev_adjacency_list>>
buckets == <<forward_deletion_buckets, reverse_deletion_buckets>>
changes == <<forward_pointers_changed, reverse_pointers_changed>>
graphVars ==
  <<lists, baseLists, buckets, changes, graphPass, graphRow, graphEdges>>

Out == [t : GraphJob, rev_index : Nat \ {0}, permanent : BOOLEAN]
In == [s : GraphJob, forward_index : Nat \ {0}]
Change == (Nat \ {0}) \X (Nat \ {0})

GraphTypeOK ==
  /\ adjacency_list \in [GraphJob -> Seq(Out)]
  /\ rev_adjacency_list \in [GraphJob -> Seq(In)]
  /\ base_adjacency_list \in [GraphJob -> Seq(Out)]
  /\ base_rev_adjacency_list \in [GraphJob -> Seq(In)]
  /\ forward_deletion_buckets \in [GraphJob -> SUBSET (Nat \ {0})]
  /\ reverse_deletion_buckets \in [GraphJob -> SUBSET (Nat \ {0})]
  /\ forward_pointers_changed \in [GraphJob -> Seq(Change)]
  /\ reverse_pointers_changed \in [GraphJob -> Seq(Change)]
  /\ graphPass \in {"initialize", "search", "forward", "reverse", "repoint"}
  /\ graphRow \in Nat
  /\ graphEdges \subseteq GraphJob \X GraphJob \X BOOLEAN

Nowhere == [j \in GraphJob |-> {}]
Nothing == [j \in GraphJob |-> <<>>]

GraphInit ==
  /\ adjacency_list = Nothing
  /\ rev_adjacency_list = Nothing
  /\ base_adjacency_list = Nothing
  /\ base_rev_adjacency_list = Nothing
  /\ forward_deletion_buckets = Nowhere
  /\ reverse_deletion_buckets = Nowhere
  /\ forward_pointers_changed = Nothing
  /\ reverse_pointers_changed = Nothing
  /\ graphPass = "initialize"
  /\ graphRow = 1
  /\ graphEdges = {}

-----------------------------------------------------------------------------
(***************************************************************************)
(* Inserting edges                                                         *)
(***************************************************************************)

InsertEdge(s, t, permanent) ==
  /\ rev_adjacency_list' =
       [rev_adjacency_list EXCEPT ![t] =
          Append(@, [s |-> s, forward_index |-> Len(adjacency_list[s]) + 1])]
  /\ adjacency_list' =
       [adjacency_list EXCEPT ![s] =
          Append(@, [t |-> t, rev_index |-> Len(rev_adjacency_list[t]) + 1,
                     permanent |-> permanent])]
  /\ graphEdges' = graphEdges \cup {<<s, t, permanent>>}

\* The loop of initialize_graph(); graphRow counts the edges of the lag graph.
InitializeEdge ==
  /\ graphPass = "initialize"
  /\ graphRow \in DOMAIN GraphLags
  /\ InsertEdge(GraphLags[graphRow][1], GraphLags[graphRow][2], TRUE)
  /\ graphRow' = graphRow + 1
  /\ UNCHANGED <<baseLists, buckets, changes, graphPass>>

InitializeBase ==
  /\ graphPass = "initialize"
  /\ graphRow \notin DOMAIN GraphLags
  /\ base_adjacency_list' = adjacency_list
  /\ base_rev_adjacency_list' = rev_adjacency_list
  /\ graphPass' = "search"
  /\ graphRow' = 1
  /\ UNCHANGED <<lists, buckets, changes, graphEdges>>

\* insert_edge(), which inserts no edge that is there already: that is
\* NoParallelEdges of module Swag.
Insert(s, t) ==
  /\ graphPass = "search"
  /\ \A permanent \in BOOLEAN : <<s, t, permanent>> \notin graphEdges
  /\ Len(adjacency_list[s]) < GraphMax
  /\ InsertEdge(s, t, FALSE)
  /\ UNCHANGED <<baseLists, buckets, changes, graphPass, graphRow>>

\* reset(): the graph of the beginning is copied back.
ResetGraph ==
  /\ graphPass = "search"
  /\ adjacency_list' = base_adjacency_list
  /\ rev_adjacency_list' = base_rev_adjacency_list
  /\ graphEdges' = {e \in graphEdges : e[3] = TRUE}
  /\ UNCHANGED <<baseLists, buckets, changes, graphPass, graphRow>>

-----------------------------------------------------------------------------
(***************************************************************************)
(* Deleting edges                                                          *)
(***************************************************************************)

Removable ==
  {c \in GraphJob \X (1 .. GraphMax) :
     /\ c[2] \in DOMAIN adjacency_list[c[1]]
     /\ ~adjacency_list[c[1]][c[2]].permanent}

\* The entry of an edge in the list of its target, which create_new_candidate_
\* edges() reaches through the edge it holds a pointer to.
Counterpart(edge) == rev_adjacency_list[edge.t][edge.rev_index]

\* The places of the chosen edges go into the buckets.  An edge may be in both
\* sets of edges to delete: it is in its bucket twice then, and bulk_delete()
\* skips the second time.
RequestDeletion(chosen) ==
  LET edges == {adjacency_list[c[1]][c[2]] : c \in chosen}
  IN  /\ graphPass = "search"
      /\ chosen # {}
      /\ forward_deletion_buckets' =
           [s \in GraphJob |->
              {Counterpart(e).forward_index :
                 e \in {d \in edges : Counterpart(d).s = s}}]
      /\ reverse_deletion_buckets' =
           [t \in GraphJob |->
              {e.rev_index : e \in {d \in edges : d.t = t}}]
      /\ forward_pointers_changed' = Nothing
      /\ reverse_pointers_changed' = Nothing
      /\ graphEdges' =
           graphEdges \
             {<<c[1], adjacency_list[c[1]][c[2]].t, FALSE>> : c \in chosen}
      /\ graphPass' = "forward"
      /\ graphRow' = 1
      /\ UNCHANGED <<lists, baseLists>>

\* Mutant: the entry itself moves, not the last one.
CloseGapInPlace(list, k) == [i \in 1 .. Len(list) - 1 |-> list[i]]

\* The last entry of a list moves to place k, or k is the last itself.
CloseGap(list, k) ==
  [i \in 1 .. Len(list) - 1 |-> IF i = k THEN list[Len(list)] ELSE list[i]]

\* Mutant: from the left to the right.
Leftmost(k, bucket) == \A j \in bucket : k <= j

\* The entries are deleted from the right to the left.
Rightmost(k, bucket) == \A j \in bucket : j <= k

NextRow(pass, next) ==
  IF graphRow < GraphJobs
    THEN graphRow' = graphRow + 1 /\ graphPass' = pass
    ELSE graphRow' = 1 /\ graphPass' = next

\* Pass 1: one index of the current bucket.
DeleteForward(k) ==
  LET s == graphRow
      list == adjacency_list[s]
      moved == list[Len(list)]
  IN  /\ Rightmost(k, forward_deletion_buckets[s])
      /\ adjacency_list' = [adjacency_list EXCEPT ![s] = CloseGap(list, k)]
      /\ reverse_pointers_changed' =
           IF k = Len(list) THEN reverse_pointers_changed
           ELSE [reverse_pointers_changed EXCEPT ![moved.t] =
                   Append(@, <<moved.rev_index, k>>)]
      /\ forward_deletion_buckets' =
           [forward_deletion_buckets EXCEPT ![s] = @ \ {k}]
      /\ UNCHANGED <<rev_adjacency_list, baseLists, reverse_deletion_buckets,
                     forward_pointers_changed, graphPass, graphRow, graphEdges>>

ForwardRowDone ==
  /\ graphPass = "forward"
  /\ forward_deletion_buckets[graphRow] = {}
  /\ NextRow("forward", "reverse")
  /\ UNCHANGED <<lists, baseLists, buckets, changes, graphEdges>>

\* Pass 2: the changes of pass 1 to the list of t ...
ApplyForwardIndex ==
  LET t == graphRow
      change == Head(reverse_pointers_changed[t])
  IN  /\ graphPass = "reverse"
      /\ reverse_pointers_changed[t] # <<>>
      /\ rev_adjacency_list' =
           [rev_adjacency_list EXCEPT ![t][change[1]].forward_index = change[2]]
      /\ reverse_pointers_changed' =
           [reverse_pointers_changed EXCEPT ![t] = Tail(@)]
      /\ UNCHANGED <<adjacency_list, baseLists, buckets,
                     forward_pointers_changed, graphPass, graphRow, graphEdges>>

\* ... and then one index of its bucket.
DeleteReverse(k) ==
  LET t == graphRow
      list == rev_adjacency_list[t]
      moved == list[Len(list)]
  IN  /\ reverse_pointers_changed[t] = <<>>
      /\ Rightmost(k, reverse_deletion_buckets[t])
      /\ rev_adjacency_list' =
           [rev_adjacency_list EXCEPT ![t] = CloseGap(list, k)]
      /\ forward_pointers_changed' =
           IF k = Len(list) THEN forward_pointers_changed
           ELSE [forward_pointers_changed EXCEPT ![moved.s] =
                   Append(@, <<moved.forward_index, k>>)]
      /\ reverse_deletion_buckets' =
           [reverse_deletion_buckets EXCEPT ![t] = @ \ {k}]
      /\ UNCHANGED <<adjacency_list, baseLists, forward_deletion_buckets,
                     reverse_pointers_changed, graphPass, graphRow, graphEdges>>

ReverseRowDone ==
  /\ graphPass = "reverse"
  /\ reverse_pointers_changed[graphRow] = <<>>
  /\ reverse_deletion_buckets[graphRow] = {}
  /\ NextRow("reverse", "repoint")
  /\ UNCHANGED <<lists, baseLists, buckets, changes, graphEdges>>

\* Pass 3: the changes of pass 2.
ApplyRevIndex ==
  LET s == graphRow
      change == Head(forward_pointers_changed[s])
  IN  /\ graphPass = "repoint"
      /\ forward_pointers_changed[s] # <<>>
      /\ adjacency_list' =
           [adjacency_list EXCEPT ![s][change[1]].rev_index = change[2]]
      /\ forward_pointers_changed' =
           [forward_pointers_changed EXCEPT ![s] = Tail(@)]
      /\ UNCHANGED <<rev_adjacency_list, baseLists, buckets,
                     reverse_pointers_changed, graphPass, graphRow, graphEdges>>

RepointRowDone ==
  /\ graphPass = "repoint"
  /\ forward_pointers_changed[graphRow] = <<>>
  /\ NextRow("repoint", "search")
  /\ UNCHANGED <<lists, baseLists, buckets, changes, graphEdges>>

GraphNext ==
  \/ InitializeEdge
  \/ InitializeBase
  \/ \E e \in GraphOthers : Insert(e[1], e[2])
  \/ ResetGraph
  \/ \E chosen \in SUBSET Removable : RequestDeletion(chosen)
  \/ /\ graphPass = "forward"
     /\ \E k \in forward_deletion_buckets[graphRow] : DeleteForward(k)
  \/ ForwardRowDone
  \/ ApplyForwardIndex
  \/ /\ graphPass = "reverse"
     /\ \E k \in reverse_deletion_buckets[graphRow] : DeleteReverse(k)
  \/ ReverseRowDone
  \/ ApplyRevIndex
  \/ RepointRowDone

GraphSpec == GraphInit /\ [][GraphNext]_graphVars

-----------------------------------------------------------------------------
(***************************************************************************)
(* Properties                                                              *)
(***************************************************************************)

\* The two entries of every edge lead to each other.
Mutual(out, in) ==
  /\ \A s \in GraphJob : \A i \in DOMAIN out[s] :
       LET e == out[s][i]
       IN  /\ e.rev_index \in DOMAIN in[e.t]
           /\ in[e.t][e.rev_index] = [s |-> s, forward_index |-> i]
  /\ \A t \in GraphJob : \A r \in DOMAIN in[t] :
       LET e == in[t][r]
       IN  /\ e.forward_index \in DOMAIN out[e.s]
           /\ out[e.s][e.forward_index].t = t
           /\ out[e.s][e.forward_index].rev_index = r

\* The lists hold these edges and no others, each of them once.
Hold(out, edges) ==
  /\ \A s, t \in GraphJob : \A permanent \in BOOLEAN :
       <<s, t, permanent>> \in edges <=>
         \E i \in DOMAIN out[s] : out[s][i].t = t /\ out[s][i].permanent = permanent
  /\ \A s \in GraphJob : \A i, j \in DOMAIN out[s] :
       out[s][i].t = out[s][j].t => i = j

\* While the solver searches, the two entries of an edge lead to each other:
\* find_edges_to_delete_backwards() and create_new_candidate_edges() go from
\* one to the other without a check.
IndicesInverse ==
  graphPass = "search" => Mutual(adjacency_list, rev_adjacency_list)

\* While the solver searches, the lists hold exactly the edges that were
\* inserted and not deleted since, each of them once and with its permanence:
\* moving entries into gaps loses none and brings none back.
EdgesInLists == graphPass = "search" => Hold(adjacency_list, graphEdges)
=============================================================================
