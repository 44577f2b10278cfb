---------------------------- MODULE ClusterProofs ----------------------------
(***************************************************************************)
(* The merger copies every row, and no row more often than it was started, *)
(* for every number of nodes, of rows and of interruptions, and every size *)
(* of the chunks.  What it has copied refers to a configuration that it may *)
(* be taken for; and of the tasks with one hash the nodes run as many as   *)
(* there are.                                                              *)
(***************************************************************************)
EXTENDS Cluster, SumProofs, TLAPS

Rows(k) == DOMAIN nodeRows[k]

\* How often a row, or the error rows, of a source may have been copied before
\* the present run of the merger has come to it, and after.
Before(n) == n \in 0 .. mergeLosses
After(n) == n \in 1 .. mergeLosses + 1

MergeTypes ==
  /\ mergePhase \in {"off", "load", "copy", "errors", "lost", "done"}
  /\ mergeSource \in Node
  /\ firstId \in Nat
  /\ chunk \in Nat \X Nat
  /\ mergeLosses \in Nat
  /\ nodeRows \in [Node -> Seq(ClusterTask)]
  /\ nodeStatus \in [Node -> {"new", "running", "again", "lost", "ended"}]
  /\ errorCopies \in [Node -> Nat]
  /\ remaining \in [Node -> SUBSET ClusterTask]
  /\ partition \in [Node -> SUBSET ClusterTask]

\* The sources stand still once the merger runs.
SourcesRest ==
  mergePhase # "off" =>
    /\ \A k \in Node : nodeStatus[k] \in {"ended", "lost"}
    /\ DOMAIN copies = Node
    /\ \A k \in Node : copies[k] \in [Rows(k) -> Nat]

NotStarted ==
  mergePhase = "off" =>
    /\ mergeSource = 0 /\ firstId = 0 /\ mergeLosses = 0
    /\ \A k \in Node : errorCopies[k] = 0

\* The sources before the present one, and those after it.
OtherSources ==
  mergePhase \in {"load", "copy", "errors"} =>
    /\ \A k \in Node : k < mergeSource =>
         After(errorCopies[k]) /\ \A id \in Rows(k) : After(copies[k][id])
    /\ \A k \in Node : k > mergeSource =>
         Before(errorCopies[k]) /\ \A id \in Rows(k) : Before(copies[k][id])
    /\ Before(errorCopies[mergeSource])

\* In the present source the border between the two is first_id, and the first
\* id of the chunk while there is one in the queue.
Copies(id) == copies[mergeSource][id]

PresentSource ==
  /\ mergePhase = "load" =>
       \A id \in Rows(mergeSource) :
         IF id < firstId THEN After(Copies(id)) ELSE Before(Copies(id))
  /\ mergePhase = "copy" =>
       /\ \A id \in Rows(mergeSource) :
            IF id < chunk[1] THEN After(Copies(id)) ELSE Before(Copies(id))
       /\ chunk[2] <= Len(nodeRows[mergeSource])
       /\ chunk[2] < firstId
       /\ \/ chunk[2] = Len(nodeRows[mergeSource])
          \/ chunk[2] + 1 = chunk[1] + ChunkSize /\ firstId = chunk[2] + 1
  /\ mergePhase = "errors" => \A id \in Rows(mergeSource) : After(Copies(id))

Stopped ==
  /\ mergePhase = "lost" => \A k \in Node :
       Before(errorCopies[k]) /\ \A id \in Rows(k) : Before(copies[k][id])
  /\ mergePhase = "done" => \A k \in Node :
       After(errorCopies[k]) /\ \A id \in Rows(k) : After(copies[k][id])

MergeInv ==
  MergeTypes /\ SourcesRest /\ NotStarted /\ OtherSources /\ PresentSource /\ Stopped

-----------------------------------------------------------------------------
LEMMA ConstantsTyped == /\ NodeCount \in Nat \ {0} /\ ChunkSize \in Nat \ {0}
                        /\ 0 \in Node /\ Node \subseteq Nat
  BY ClusterAssumption, SMT DEF ClusterAssumption, Node

LEMMA InitMerge == ClusterInit => MergeInv
<1> SUFFICES ASSUME ClusterInit PROVE MergeInv
  OBVIOUS
<1> USE DEF ClusterInit
<1>1. MergeTypes
  BY ConstantsTyped DEF MergeTypes
<1>2. SourcesRest /\ NotStarted /\ OtherSources /\ PresentSource /\ Stopped
  BY DEF SourcesRest, NotStarted, OtherSources, PresentSource, Stopped
<1> QED
  BY <1>1, <1>2 DEF MergeInv

-----------------------------------------------------------------------------
(* Steps of the nodes: while one of them is running, no merge has begun.      *)

LEMMA StartIsTyped ==
  ASSUME MergeTypes, NEW k \in Node, Start(k)
  PROVE  MergeTypes'
<1>1. /\ remaining' \in [Node -> SUBSET ClusterTask]
      /\ partition' \in [Node -> SUBSET ClusterTask]
  BY DEF Start, Partitions, MergeTypes
<1> QED
  BY <1>1 DEF Start, MergeTypes, mergeVars, destVars

LEMMA RunTaskIsTyped ==
  ASSUME MergeTypes, NEW k \in Node, RunTask(k)
  PROVE  MergeTypes'
<1>1. PICK t \in remaining[k] :
        /\ remaining' = [remaining EXCEPT ![k] = @ \ {t}]
        /\ nodeRows' = nodeRows \/ nodeRows' = [nodeRows EXCEPT ![k] = Append(@, t)]
  BY DEF RunTask
<1>2. t \in ClusterTask /\ nodeRows[k] \in Seq(ClusterTask)
  BY <1>1 DEF MergeTypes
<1>3. Append(nodeRows[k], t) \in Seq(ClusterTask)
  BY <1>2
<1>4. nodeRows' \in [Node -> Seq(ClusterTask)]
  BY <1>1, <1>3 DEF MergeTypes
<1>5. remaining' \in [Node -> SUBSET ClusterTask]
  BY <1>1 DEF MergeTypes
<1> QED
  BY <1>4, <1>5 DEF RunTask, MergeTypes, mergeVars, destVars

NodeStep ==
  Submit \/ \E k \in Node :
    Start(k) \/ RunTask(k) \/ EndNode(k) \/ LoseNode(k) \/ Relaunch(k)

LEMMA NodeStepsMerge ==
  ASSUME MergeInv, NodeStep
  PROVE  MergeInv'
<1>1. UNCHANGED <<mergeVars, destVars>>
  BY DEF NodeStep, Submit, Start, RunTask, EndNode, LoseNode, Relaunch
<1>2. MergeTypes'
  <2>1. CASE Submit
    BY <2>1 DEF Submit, MergeInv, MergeTypes, mergeVars, destVars
  <2>2. ASSUME NEW k \in Node, Start(k) \/ RunTask(k)
        PROVE  MergeTypes'
    BY <2>2, StartIsTyped, RunTaskIsTyped DEF MergeInv
  <2>3. ASSUME NEW k \in Node, EndNode(k) \/ LoseNode(k) \/ Relaunch(k)
        PROVE  MergeTypes'
    <3>1. nodeStatus' \in [Node -> {"new", "running", "again", "lost", "ended"}]
      BY <2>3 DEF EndNode, LoseNode, Relaunch, MergeInv, MergeTypes
    <3>2. nodeRows' = nodeRows /\ remaining' \in [Node -> SUBSET ClusterTask]
      BY <2>3 DEF EndNode, LoseNode, Relaunch, MergeInv, MergeTypes
    <3>3. partition' = partition
      BY <2>3 DEF EndNode, LoseNode, Relaunch
    <3> QED
      BY <1>1, <3>1, <3>2, <3>3 DEF MergeInv, MergeTypes, mergeVars, destVars
  <2> QED
    BY <2>1, <2>2, <2>3 DEF NodeStep
<1>3. SourcesRest'
  <2>1. CASE mergePhase = "off"
    BY <1>1, <2>1 DEF SourcesRest, mergeVars
  <2>2. CASE mergePhase # "off"
    <3>1. /\ \A k \in Node : nodeStatus[k] \in {"ended", "lost"}
          /\ DOMAIN copies = Node
          /\ \A k \in Node : copies[k] \in [Rows(k) -> Nat]
      BY <2>2 DEF MergeInv, SourcesRest
    <3>2. nodeStatus' = nodeStatus /\ nodeRows' = nodeRows
      BY <2>2, <3>1 DEF NodeStep, Submit, Start, RunTask, EndNode, LoseNode, Relaunch
    <3> QED
      BY <1>1, <3>1, <3>2 DEF SourcesRest, Rows, destVars
  <2> QED
    BY <2>1, <2>2
<1>4. mergePhase # "off" => nodeRows' = nodeRows
  <2>1. mergePhase # "off" => \A k \in Node : nodeStatus[k] \in {"ended", "lost"}
    BY DEF MergeInv, SourcesRest
  <2> QED
    BY <2>1 DEF NodeStep, Submit, Start, RunTask, EndNode, LoseNode, Relaunch
<1>5. NotStarted'
  BY <1>1 DEF MergeInv, NotStarted, mergeVars, destVars
<1>6. OtherSources' /\ PresentSource' /\ Stopped'
  <2>1. CASE mergePhase = "off"
    BY <1>1, <2>1 DEF OtherSources, PresentSource, Stopped, mergeVars
  <2>2. CASE mergePhase # "off"
    BY <1>1, <1>4, <2>2 DEF MergeInv, OtherSources, PresentSource, Stopped, Rows,
       Copies, Before, After, mergeVars, destVars
  <2> QED
    BY <2>1, <2>2
<1> QED
  BY <1>2, <1>3, <1>5, <1>6 DEF MergeInv

-----------------------------------------------------------------------------
(* Steps of the merger                                                       *)

LEMMA StartMergeStep ==
  ASSUME MergeInv, StartMerge
  PROVE  MergeInv'
<1> USE DEF StartMerge, nodeVars
<1>1. MergeTypes'
  BY DEF MergeInv, MergeTypes
<1>2. SourcesRest' /\ NotStarted'
  BY DEF MergeInv, SourcesRest, NotStarted, Rows
<1>3. /\ mergeSource = 0 /\ firstId = 0 /\ mergeLosses = 0
      /\ \A k \in Node : errorCopies[k] = 0
  BY DEF MergeInv, NotStarted
<1>4. \A k \in Node : \A id \in Rows(k) : copies'[k][id] = 0
  BY DEF Rows
<1>5. \A k \in Node : Before(errorCopies[k])' /\ \A id \in Rows(k) : Before(copies[k][id])'
  BY <1>3, <1>4 DEF Before
<1>6. \A k \in Node : ~ (k < 0)
  BY DEF Node
<1>7. OtherSources'
  BY <1>3, <1>5, <1>6, ConstantsTyped DEF OtherSources, Rows
<1>8. PresentSource'
  <2>1. \A id \in Rows(mergeSource) : id \in Nat /\ ~ (id < 1) /\ ~ (id < 0)
    BY DEF Rows, MergeInv, MergeTypes
  <2> QED
    BY <1>3, <1>5, <2>1, ConstantsTyped DEF PresentSource, Copies, Rows
<1>9. Stopped'
  BY DEF Stopped
<1> QED
  BY <1>1, <1>2, <1>7, <1>8, <1>9 DEF MergeInv

LEMMA LaterIdBounds ==
  ASSUME NEW a \in Nat, NEW b \in Nat
  PROVE  /\ LaterId(a, b) \in Nat
         /\ LaterId(a, b) >= a /\ LaterId(a, b) >= b
         /\ LaterId(a, b) = a \/ LaterId(a, b) = b
  BY DEF LaterId

LEMMA LoadChunkStep ==
  ASSUME MergeInv, LoadChunk
  PROVE  MergeInv'
<1> DEFINE rows  == Len(nodeRows[mergeSource])
           least == LaterId(firstId, 1)
<1>1. /\ rows \in Nat /\ firstId \in Nat /\ ChunkSize \in Nat \ {0}
      /\ Rows(mergeSource) = 1 .. rows
  BY ConstantsTyped DEF MergeInv, MergeTypes, Rows
<1>2. least \in Nat /\ least >= 1 /\ least >= firstId
      /\ (least = firstId \/ (least = 1 /\ firstId = 0))
  <2>1. /\ least \in Nat /\ least >= firstId /\ least >= 1
        /\ least = firstId \/ least = 1
    BY <1>1, LaterIdBounds
  <2> QED
    BY <1>1, <2>1
<1>3. /\ chunk'[1] = least
      /\ chunk'[2] = IF least + ChunkSize - 1 < rows THEN least + ChunkSize - 1 ELSE rows
      /\ chunk' = <<chunk'[1], chunk'[2]>>
      /\ firstId' = LaterId(firstId, chunk'[2] + 1)
      /\ mergePhase = "load" /\ mergePhase' = "copy"
      /\ UNCHANGED <<nodeVars, destVars, mergeSource, mergeLosses>>
  BY DEF LoadChunk
<1>4. chunk'[2] \in Nat /\ chunk'[2] <= rows
  BY <1>1, <1>2, <1>3
<1>5. /\ firstId' \in Nat /\ chunk'[2] < firstId'
      /\ \/ chunk'[2] = rows
         \/ chunk'[2] + 1 = least + ChunkSize /\ firstId' = chunk'[2] + 1
  BY <1>1, <1>2, <1>3, <1>4 DEF LaterId
<1>6. MergeTypes'
  BY <1>2, <1>3, <1>4, <1>5 DEF MergeInv, MergeTypes, nodeVars, destVars
<1>7. SourcesRest' /\ NotStarted' /\ OtherSources' /\ Stopped'
  BY <1>3 DEF MergeInv, SourcesRest, NotStarted, OtherSources, Stopped, Rows,
     Before, After, nodeVars, destVars
<1>8. PresentSource'
  <2>1. \A id \in 1 .. rows : (id < least) = (id < firstId)
    BY <1>1, <1>2
  <2>2. \A id \in 1 .. rows :
          IF id < chunk'[1] THEN After(Copies(id))' ELSE Before(Copies(id))'
    BY <1>1, <1>3, <2>1 DEF MergeInv, PresentSource, After, Before, Copies, nodeVars,
       destVars
  <2> QED
    BY <1>1, <1>3, <1>4, <1>5, <2>2 DEF PresentSource, Rows, Copies, nodeVars
<1> QED
  BY <1>6, <1>7, <1>8 DEF MergeInv

LEMMA CopyChunkStep ==
  ASSUME MergeInv, CopyChunk
  PROVE  MergeInv'
<1> DEFINE rows == Len(nodeRows[mergeSource])
<1>1. /\ rows \in Nat /\ firstId \in Nat /\ ChunkSize \in Nat \ {0}
      /\ chunk[1] \in Nat /\ chunk[2] \in Nat /\ mergeLosses \in Nat
      /\ Rows(mergeSource) = 1 .. rows /\ mergeSource \in Node
  BY ConstantsTyped DEF MergeInv, MergeTypes, Rows
<1>2. /\ mergePhase = "copy"
      /\ mergePhase' = IF chunk[2] + 1 - chunk[1] < ChunkSize THEN "errors" ELSE "load"
      /\ UNCHANGED <<nodeVars, errorCopies, mergeSource, firstId, chunk, mergeLosses>>
  BY DEF CopyChunk
<1>3. /\ DOMAIN copies = Node
      /\ \A k \in Node : copies[k] \in [Rows(k) -> Nat]
  BY <1>2 DEF MergeInv, SourcesRest
<1>4. /\ DOMAIN copies' = Node
      /\ \A k \in Node : k # mergeSource => copies'[k] = copies[k]
      /\ copies'[mergeSource] =
           [id \in 1 .. rows |-> IF id \in chunk[1] .. chunk[2]
                                 THEN copies[mergeSource][id] + 1
                                 ELSE copies[mergeSource][id]]
  <2>1. DOMAIN copies[mergeSource] = 1 .. rows
    BY <1>1, <1>3
  <2>2. copies' = [copies EXCEPT ![mergeSource] =
          [id \in DOMAIN @ |-> IF id \in Loaded THEN @[id] + 1 ELSE @[id]]]
    BY DEF CopyChunk
  <2> QED
    BY <1>1, <1>3, <2>1, <2>2 DEF Loaded
<1>5. MergeTypes'
  BY <1>2 DEF MergeInv, MergeTypes, nodeVars
<1>6. SourcesRest'
  <2>1. copies'[mergeSource] \in [1 .. rows -> Nat]
    BY <1>1, <1>3, <1>4
  <2> QED
    BY <1>1, <1>2, <1>3, <1>4, <2>1 DEF MergeInv, SourcesRest, Rows, nodeVars
<1>7. NotStarted' /\ Stopped'
  BY <1>2 DEF NotStarted, Stopped
<1>8. OtherSources'
  <2>1. \A k \in Node : k < mergeSource \/ k > mergeSource => k # mergeSource
    BY <1>1, ConstantsTyped
  <2> QED
    BY <1>1, <1>2, <1>4, <2>1 DEF MergeInv, OtherSources, Rows, Before, After, nodeVars
<1>9. PresentSource'
  <2>1. /\ \A id \in 1 .. rows :
             IF id < chunk[1] THEN After(Copies(id)) ELSE Before(Copies(id))
        /\ chunk[2] <= rows /\ chunk[2] < firstId
        /\ \/ chunk[2] = rows
           \/ chunk[2] + 1 = chunk[1] + ChunkSize /\ firstId = chunk[2] + 1
    BY <1>1, <1>2 DEF MergeInv, PresentSource
  <2>2. ASSUME NEW id \in 1 .. rows
        PROVE  /\ id <= chunk[2] => After(Copies(id))'
               /\ id > chunk[2] /\ ~ (id < chunk[1]) => Before(Copies(id))'
               /\ id < chunk[1] => After(Copies(id))'
    <3>1. copies[mergeSource][id] \in Nat
      BY <1>1, <1>3
    <3>2. copies'[mergeSource][id] =
            IF id \in chunk[1] .. chunk[2] THEN copies[mergeSource][id] + 1
            ELSE copies[mergeSource][id]
      BY <1>4
    <3>3. IF id < chunk[1] THEN copies[mergeSource][id] \in 1 .. mergeLosses + 1
          ELSE copies[mergeSource][id] \in 0 .. mergeLosses
      BY <2>1 DEF Copies, After, Before
    <3>4. /\ id <= chunk[2] => copies'[mergeSource][id] \in 1 .. mergeLosses + 1
          /\ id > chunk[2] /\ ~ (id < chunk[1]) =>
               copies'[mergeSource][id] \in 0 .. mergeLosses
          /\ id < chunk[1] => copies'[mergeSource][id] \in 1 .. mergeLosses + 1
      BY <1>1, <3>1, <3>2, <3>3
    <3> QED
      BY <1>2, <3>4 DEF Copies, After, Before
  <2>3. CASE chunk[2] + 1 - chunk[1] < ChunkSize
    <3>1. chunk[2] = rows
      BY <1>1, <2>1, <2>3
    <3>2. \A id \in 1 .. rows : After(Copies(id))'
      BY <1>1, <2>2, <3>1
    <3> QED
      BY <1>1, <1>2, <2>3, <3>2 DEF PresentSource, Rows, Copies, nodeVars
  <2>4. CASE ~ (chunk[2] + 1 - chunk[1] < ChunkSize)
    <3>1. \A id \in 1 .. rows :
            IF id < firstId THEN After(Copies(id))' ELSE Before(Copies(id))'
      <4>1. ASSUME NEW id \in 1 .. rows
            PROVE  /\ id < firstId => id <= chunk[2]
                   /\ ~ (id < firstId) => id > chunk[2] /\ ~ (id < chunk[1])
        BY <1>1, <2>1, <2>4
      <4> QED
        BY <2>2, <4>1
    <3> QED
      BY <1>1, <1>2, <2>4, <3>1 DEF PresentSource, Rows, Copies, nodeVars
  <2> QED
    BY <2>3, <2>4
<1> QED
  BY <1>5, <1>6, <1>7, <1>8, <1>9 DEF MergeInv

LEMMA CopyErrorsStep ==
  ASSUME MergeInv, CopyErrors
  PROVE  MergeInv'
<1>1. /\ mergePhase = "errors" /\ firstId' = 0
      /\ UNCHANGED <<nodeVars, copies, destLinks, chunk, mergeLosses>>
      /\ errorCopies' = [errorCopies EXCEPT ![mergeSource] = @ + 1]
      /\ \/ mergeSource = NodeCount - 1 /\ mergePhase' = "done" /\ mergeSource' = mergeSource
         \/ /\ mergeSource # NodeCount - 1
            /\ mergePhase' = "load" /\ mergeSource' = mergeSource + 1
  BY DEF CopyErrors
<1>2. /\ mergeSource \in Node /\ mergeLosses \in Nat
      /\ errorCopies \in [Node -> Nat]
  BY DEF MergeInv, MergeTypes
<1>3. mergeSource' \in Node
  BY <1>1, <1>2, ConstantsTyped DEF Node
<1>4. /\ errorCopies' \in [Node -> Nat]
      /\ errorCopies'[mergeSource] = errorCopies[mergeSource] + 1
      /\ \A k \in Node : k # mergeSource => errorCopies'[k] = errorCopies[k]
  BY <1>1, <1>2
<1>5. MergeTypes'
  BY <1>1, <1>3, <1>4 DEF MergeInv, MergeTypes, nodeVars
<1>6. SourcesRest' /\ NotStarted'
  BY <1>1 DEF MergeInv, SourcesRest, NotStarted, Rows, nodeVars
\* The sources up to the present one are finished, those after it untouched.
<1>7. \A k \in Node : k <= mergeSource =>
        After(errorCopies[k])' /\ \A id \in Rows(k) : After(copies[k][id])'
  <2>1. ASSUME NEW k \in Node, k < mergeSource
        PROVE  After(errorCopies[k])' /\ \A id \in Rows(k) : After(copies[k][id])'
    <3>1. k # mergeSource
      BY <1>2, <2>1, ConstantsTyped
    <3> QED
      BY <1>1, <1>4, <2>1, <3>1 DEF MergeInv, OtherSources, Rows, After, nodeVars
  <2>2. errorCopies'[mergeSource] \in 1 .. mergeLosses + 1
    <3>1. errorCopies[mergeSource] \in 0 .. mergeLosses
      BY <1>1 DEF MergeInv, OtherSources, Before
    <3> QED
      BY <1>2, <1>4, <3>1
  <2>3. \A id \in Rows(mergeSource) : copies[mergeSource][id] \in 1 .. mergeLosses + 1
    BY <1>1 DEF MergeInv, PresentSource, Copies, After
  <2>4. ASSUME NEW k \in Node, k <= mergeSource
        PROVE  k < mergeSource \/ k = mergeSource
    BY <1>2, <2>4, ConstantsTyped
  <2> QED
    BY <1>1, <2>1, <2>2, <2>3, <2>4 DEF After, Rows, nodeVars
<1>8. \A k \in Node : k > mergeSource =>
        Before(errorCopies[k])' /\ \A id \in Rows(k) : Before(copies[k][id])'
  <2>1. ASSUME NEW k \in Node, k > mergeSource
        PROVE  k # mergeSource
    BY <1>2, <2>1, ConstantsTyped
  <2> QED
    BY <1>1, <1>4, <2>1 DEF MergeInv, OtherSources, Rows, Before, nodeVars
<1>9. Rows(mergeSource') \subseteq Nat
  BY <1>3 DEF MergeInv, MergeTypes, Rows
<1>10. CASE mergeSource = NodeCount - 1
  <2>1. \A k \in Node : k <= mergeSource
    BY <1>10, ConstantsTyped DEF Node
  <2>2. mergePhase' = "done"
    BY <1>1, <1>10
  <2>3. OtherSources' /\ PresentSource'
    BY <2>2 DEF OtherSources, PresentSource
  <2>4. Stopped'
    BY <1>1, <1>7, <2>1, <2>2 DEF Stopped, Rows, nodeVars
  <2> QED
    BY <1>5, <1>6, <2>3, <2>4 DEF MergeInv
<1>11. CASE mergeSource # NodeCount - 1
  <2>1. mergePhase' = "load" /\ mergeSource' = mergeSource + 1
    BY <1>1, <1>11
  <2>2. \A k \in Node : /\ k < mergeSource' => k <= mergeSource
                        /\ k >= mergeSource' => k > mergeSource
    BY <1>2, <2>1, ConstantsTyped
  <2>3. mergeSource' >= mergeSource' /\ \A k \in Node : k > mergeSource' => k >= mergeSource'
    BY <1>3, ConstantsTyped
  <2>4. Stopped'
    BY <2>1 DEF Stopped
  <2>5. OtherSources'
    BY <1>1, <1>3, <1>7, <1>8, <2>1, <2>2, <2>3 DEF OtherSources, Rows, nodeVars
  <2>6. PresentSource'
    <3>1. \A id \in Rows(mergeSource)' : ~ (id < firstId')
      BY <1>1, <1>9 DEF Rows, nodeVars
    <3>2. \A id \in Rows(mergeSource)' : Before(Copies(id))'
      BY <1>1, <1>3, <1>8, <2>2, <2>3 DEF Rows, Copies, nodeVars
    <3> QED
      BY <2>1, <3>1, <3>2 DEF PresentSource, Rows, Copies
  <2> QED
    BY <1>5, <1>6, <2>4, <2>5, <2>6 DEF MergeInv
<1> QED
  BY <1>10, <1>11

LEMMA LoseMergeStep ==
  ASSUME MergeInv, LoseMerge
  PROVE  MergeInv'
<1>1. /\ mergePhase \in {"load", "copy", "errors"} /\ mergePhase' = "lost"
      /\ mergeLosses' = mergeLosses + 1
      /\ UNCHANGED <<nodeVars, copies, errorCopies, destLinks, mergeSource, firstId,
                     chunk>>
  BY DEF LoseMerge
<1>2. mergeLosses \in Nat /\ mergeSource \in Node
  BY DEF MergeInv, MergeTypes
<1>3. MergeTypes'
  BY <1>1, <1>2 DEF MergeInv, MergeTypes, nodeVars
<1>4. SourcesRest' /\ NotStarted' /\ OtherSources' /\ PresentSource'
  BY <1>1 DEF MergeInv, SourcesRest, NotStarted, OtherSources, PresentSource, Rows,
     nodeVars
<1>5. ASSUME NEW n, Before(n) \/ After(n)
      PROVE  n \in 0 .. mergeLosses + 1
  BY <1>2, <1>5 DEF Before, After
<1>6. ASSUME NEW k \in Node
      PROVE  /\ Before(errorCopies[k]) \/ After(errorCopies[k])
             /\ \A id \in Rows(k) : Before(copies[k][id]) \/ After(copies[k][id])
  <2>1. k < mergeSource \/ k > mergeSource \/ k = mergeSource
    BY <1>2, ConstantsTyped
  <2>2. CASE k = mergeSource
    BY <1>1, <2>2 DEF MergeInv, OtherSources, PresentSource, Copies
  <2>3. CASE k < mergeSource \/ k > mergeSource
    BY <1>1, <2>3 DEF MergeInv, OtherSources
  <2> QED
    BY <2>1, <2>2, <2>3
<1>7. \A k \in Node : /\ errorCopies[k] \in 0 .. mergeLosses + 1
                      /\ \A id \in Rows(k) : copies[k][id] \in 0 .. mergeLosses + 1
  BY <1>5, <1>6
<1>8. Stopped'
  BY <1>1, <1>7 DEF Stopped, Before, Rows, nodeVars
<1> QED
  BY <1>3, <1>4, <1>8 DEF MergeInv

LEMMA RestartMergeStep ==
  ASSUME MergeInv, RestartMerge
  PROVE  MergeInv'
<1>1. /\ mergePhase = "lost" /\ mergePhase' = "load"
      /\ mergeSource' = 0 /\ firstId' = 0
      /\ UNCHANGED <<nodeVars, destVars, chunk, mergeLosses>>
  BY DEF RestartMerge
<1>2. MergeTypes'
  BY <1>1, ConstantsTyped DEF MergeInv, MergeTypes, nodeVars, destVars
<1>3. SourcesRest' /\ NotStarted' /\ Stopped'
  BY <1>1 DEF MergeInv, SourcesRest, NotStarted, Stopped, Rows, nodeVars, destVars
<1>4. \A k \in Node :
        Before(errorCopies[k])' /\ \A id \in Rows(k) : Before(copies[k][id])'
  BY <1>1 DEF MergeInv, Stopped, Before, Rows, nodeVars, destVars
<1>5. \A k \in Node : ~ (k < 0)
  BY DEF Node
<1>6. OtherSources'
  BY <1>1, <1>4, <1>5, ConstantsTyped DEF OtherSources, Rows, nodeVars
<1>7. PresentSource'
  <2>1. \A id \in Rows(0) : ~ (id < 0)
    BY ConstantsTyped DEF MergeInv, MergeTypes, Rows
  <2> QED
    BY <1>1, <1>4, <2>1, ConstantsTyped DEF PresentSource, Rows, Copies, nodeVars
<1> QED
  BY <1>2, <1>3, <1>6, <1>7 DEF MergeInv

LEMMA NextMerge == MergeInv /\ [ClusterNext]_clusterVars => MergeInv'
<1> SUFFICES ASSUME MergeInv, [ClusterNext]_clusterVars PROVE MergeInv'
  OBVIOUS
<1>1. CASE UNCHANGED clusterVars
  BY <1>1 DEF clusterVars, nodeVars, destVars, mergeVars, MergeInv, MergeTypes,
     SourcesRest, NotStarted, OtherSources, PresentSource, Stopped, Rows, Copies,
     Before, After
<1>2. CASE NodeStep
  BY <1>2, NodeStepsMerge
<1>3. CASE StartMerge \/ LoadChunk \/ CopyChunk \/ CopyErrors \/ LoseMerge \/ RestartMerge
  BY <1>3, StartMergeStep, LoadChunkStep, CopyChunkStep, CopyErrorsStep,
     LoseMergeStep, RestartMergeStep
<1> QED
  BY <1>1, <1>2, <1>3 DEF ClusterNext, NodeStep

(***************************************************************************)
(* Before a merge nothing is copied; in the middle of one, and after it,   *)
(* the rows of every source have been copied as often as the interruptions *)
(* and the place that copy_from() has reached allow.                       *)
(***************************************************************************)
THEOREM MergeIsTracked == ClusterSpec => []MergeInv
  BY InitMerge, NextMerge, PTL DEF ClusterSpec

(***************************************************************************)
(* The merger loses no row between two chunks or two sources, and copies   *)
(* none more often than it was started.                                    *)
(***************************************************************************)
THEOREM MergesOnce == ClusterSpec => []MergedOnce
<1>1. MergeInv => MergedOnce
  <2> SUFFICES ASSUME MergeInv, NEW k \in Node
               PROVE  /\ mergePhase # "off" =>
                           \A id \in DOMAIN nodeRows[k] : copies[k][id] <= mergeLosses + 1
                      /\ errorCopies[k] <= mergeLosses + 1
                      /\ mergePhase = "done" =>
                           /\ \A id \in DOMAIN nodeRows[k] : copies[k][id] >= 1
                           /\ errorCopies[k] >= 1
    BY DEF MergedOnce
  <2>1. mergeLosses \in Nat /\ mergeSource \in Node
    BY DEF MergeInv, MergeTypes
  <2>2. ASSUME NEW n, Before(n) \/ After(n)
        PROVE  n <= mergeLosses + 1 /\ (After(n) => n >= 1)
    BY <2>1, <2>2 DEF Before, After
  <2>3. k < mergeSource \/ k > mergeSource \/ k = mergeSource
    BY <2>1, ConstantsTyped
  <2>4. CASE mergePhase = "off"
    BY <2>1, <2>4 DEF MergeInv, NotStarted
  <2>5. CASE mergePhase \in {"lost", "done"}
    BY <2>2, <2>5 DEF MergeInv, Stopped, Rows
  <2>6. CASE mergePhase \in {"load", "copy", "errors"}
    <3>1. CASE k = mergeSource
      BY <2>2, <2>6, <3>1 DEF MergeInv, OtherSources, PresentSource, Rows, Copies
    <3>2. CASE k < mergeSource \/ k > mergeSource
      BY <2>2, <2>6, <3>2 DEF MergeInv, OtherSources, Rows
    <3> QED
      BY <2>3, <3>1, <3>2
  <2> QED
    BY <2>4, <2>5, <2>6 DEF MergeInv, MergeTypes
<1> QED
  BY <1>1, MergeIsTracked, PTL

-----------------------------------------------------------------------------
(* What the rows of the destination refer to                               *)

\* A row of DBConfig has the name and the key-values of some task.
ConfigRow ==
  {[name |-> ClusterTasks[u].name, kvs |-> ClusterTasks[u].kvs, cached |-> b] :
     u \in ClusterTask, b \in BOOLEAN}

\* The destination as one copy_result() after the other leaves it.
DestState == Seq(ConfigRow) \X SUBSET (ClusterTask \X Nat)

Fits(s) ==
  \A link \in s[2] : /\ link[2] \in DOMAIN s[1]
                     /\ s[1][link[2]].name = ClusterTasks[link[1]].name
                     /\ s[1][link[2]].kvs \in MergedKvs(link[1])

CopyOne(s, t) ==
  LET found == Equivalent(s[1], t)
  IN  IF found # {}
      THEN <<s[1], s[2] \cup {<<t, Min(found)>>}>>
      ELSE <<Append(s[1], [name |-> ClusterTasks[t].name,
                           kvs |-> ClusterTasks[t].kvs, cached |-> TRUE]),
             s[2] \cup {<<t, Len(s[1]) + 1>>}>>

LEMMA OwnKvs == \A t \in ClusterTask : ClusterTasks[t].kvs \in MergedKvs(t)
  BY DEF MergedKvs

\* A row that is taken for equivalent has the name of the task, and key-values
\* that the task may be given: the entries of a cached row are not looked at.
LEMMA EquivalentFits ==
  ASSUME NEW configs \in Seq(ConfigRow), NEW t \in ClusterTask,
         NEW r \in Equivalent(configs, t)
  PROVE  /\ r \in DOMAIN configs
         /\ configs[r].name = ClusterTasks[t].name
         /\ configs[r].kvs \in MergedKvs(t)
<1>1. /\ r \in DOMAIN configs /\ configs[r].name = ClusterTasks[t].name
      /\ Entries(configs[r]) = ClusterTasks[t].kvs
  BY DEF Equivalent
<1>2. configs[r] \in ConfigRow
  BY <1>1
<1>3. PICK u \in ClusterTask, b \in BOOLEAN :
        configs[r] = [name |-> ClusterTasks[u].name, kvs |-> ClusterTasks[u].kvs, cached |-> b]
  BY <1>2 DEF ConfigRow
<1>4. /\ configs[r].name = ClusterTasks[u].name /\ configs[r].kvs = ClusterTasks[u].kvs
      /\ configs[r].cached = b
  BY <1>3
<1>5. CASE b
  <2>1. ClusterTasks[t].kvs = {}
    BY <1>1, <1>4, <1>5 DEF Entries
  <2>2. ClusterTasks[t].name = ClusterTasks[u].name
    BY <1>1, <1>4
  <2>3. ClusterTasks[u].kvs \in MergedKvs(t)
    BY <2>1, <2>2 DEF MergedKvs
  <2> QED
    BY <1>1, <1>4, <2>3
<1>6. CASE ~b
  BY <1>1, <1>4, <1>6, OwnKvs DEF Entries
<1> QED
  BY <1>5, <1>6

\* What one copied result leaves: all links that were there, and its own.
LEMMA CopyOneFits ==
  ASSUME NEW s \in DestState, Fits(s), NEW t \in ClusterTask
  PROVE  /\ CopyOne(s, t) \in DestState /\ Fits(CopyOne(s, t))
         /\ s[2] \subseteq CopyOne(s, t)[2]
         /\ \E link \in CopyOne(s, t)[2] : link[1] = t
         /\ \A link \in CopyOne(s, t)[2] : link \in s[2] \/ link[1] = t
<1> DEFINE found == Equivalent(s[1], t)
           row == [name |-> ClusterTasks[t].name, kvs |-> ClusterTasks[t].kvs, cached |-> TRUE]
<1>1. s[1] \in Seq(ConfigRow) /\ s[2] \in SUBSET (ClusterTask \X Nat) /\ s = <<s[1], s[2]>>
  BY DEF DestState
<1>2. CASE found # {}
  <2>1. found \subseteq Int /\ \A r \in found : 0 <= r /\ r \in Nat
    <3>1. \A r \in found : r \in DOMAIN s[1]
      BY DEF Equivalent
    <3>2. DOMAIN s[1] \subseteq Nat
      BY <1>1
    <3> HIDE DEF found
    <3> QED
      BY <3>1, <3>2
  <2>2. Min(found) \in found
    <3>1. 0 \in Int
      OBVIOUS
    <3> HIDE DEF found
    <3> QED
      BY <1>2, <2>1, <3>1, MinBounded, Zenon
  <2>3. PICK r : r = Min(found)
    OBVIOUS
  <2>4. /\ r \in DOMAIN s[1] /\ r \in Nat
        /\ s[1][r].name = ClusterTasks[t].name /\ s[1][r].kvs \in MergedKvs(t)
    BY <1>1, <2>1, <2>2, <2>3, EquivalentFits
  <2>5. CopyOne(s, t) = <<s[1], s[2] \cup {<<t, r>>}>>
    BY <1>2, <2>3 DEF CopyOne
  <2>6. CopyOne(s, t)[1] = s[1] /\ CopyOne(s, t)[2] = s[2] \cup {<<t, r>>}
    BY <2>5
  <2>7. CopyOne(s, t) \in DestState
    BY <1>1, <2>4, <2>5 DEF DestState
  <2>8. Fits(CopyOne(s, t))
    BY <2>4, <2>6 DEF Fits
  <2>9. <<t, r>> \in CopyOne(s, t)[2] /\ <<t, r>>[1] = t
    BY <2>6
  <2>10. \E link \in CopyOne(s, t)[2] : link[1] = t
    BY <2>9, Zenon
  <2>11. \A link \in CopyOne(s, t)[2] : link \in s[2] \/ link[1] = t
    BY <2>6
  <2> HIDE DEF found, row
  <2> QED
    BY <2>6, <2>7, <2>8, <2>10, <2>11
<1>3. CASE found = {}
  <2>1. PICK configs, r : configs = Append(s[1], row) /\ r = Len(s[1]) + 1
    OBVIOUS
  <2>2. row \in ConfigRow
    <3>1. \E u \in ClusterTask, b \in BOOLEAN :
            row = [name |-> ClusterTasks[u].name, kvs |-> ClusterTasks[u].kvs, cached |-> b]
      <4>1. WITNESS t \in ClusterTask, TRUE \in BOOLEAN
      <4> QED
        OBVIOUS
    <3> HIDE DEF row
    <3> QED
      BY <3>1 DEF ConfigRow
  <2>3. /\ configs \in Seq(ConfigRow) /\ r \in Nat /\ r \in DOMAIN configs /\ configs[r] = row
        /\ \A n \in DOMAIN s[1] : n \in DOMAIN configs /\ configs[n] = s[1][n]
    <3> HIDE DEF row
    <3> QED
      BY <1>1, <2>1, <2>2
  <2>4. CopyOne(s, t) = <<configs, s[2] \cup {<<t, r>>}>>
    BY <1>3, <2>1 DEF CopyOne
  <2>5. CopyOne(s, t)[1] = configs /\ CopyOne(s, t)[2] = s[2] \cup {<<t, r>>}
    BY <2>4
  <2>6. CopyOne(s, t) \in DestState
    BY <1>1, <2>3, <2>4 DEF DestState
  <2>7. configs[r].name = ClusterTasks[t].name /\ configs[r].kvs \in MergedKvs(t)
    BY <2>3, OwnKvs
  <2>8. Fits(CopyOne(s, t))
    BY <2>3, <2>5, <2>7 DEF Fits
  <2>9. <<t, r>> \in CopyOne(s, t)[2] /\ <<t, r>>[1] = t
    BY <2>5
  <2>10. \E link \in CopyOne(s, t)[2] : link[1] = t
    BY <2>9, Zenon
  <2>11. \A link \in CopyOne(s, t)[2] : link \in s[2] \/ link[1] = t
    BY <2>5
  <2> HIDE DEF found, row
  <2> QED
    BY <2>5, <2>6, <2>8, <2>10, <2>11
<1> QED
  BY <1>2, <1>3

\* The results of a chunk are copied one after the other, from the last one on.
LEMMA CopiedFits ==
  ASSUME MergeTypes, chunk[1] \in Nat \ {0}, chunk[2] <= Len(nodeRows[mergeSource]),
         <<destConfigs, destLinks>> \in DestState, Fits(<<destConfigs, destLinks>>)
  PROVE  /\ Copied \in DestState /\ Fits(Copied)
         /\ destLinks \subseteq Copied[2]
         /\ \A id \in Loaded : \E link \in Copied[2] : link[1] = nodeRows[mergeSource][id]
         /\ \A link \in Copied[2] :
              link \in destLinks \/ \E id \in Loaded : link[1] = nodeRows[mergeSource][id]
<1> DEFINE N == Cardinality(Loaded)
           rows == nodeRows[mergeSource]
           start == <<destConfigs, destLinks>>
           row(j) == rows[chunk[2] - j + 1]
           Folded(g) ==
             g = [j \in 0 .. N |->
                    IF j = 0 THEN <<destConfigs, destLinks>>
                    ELSE LET before == g[j - 1]
                             t      == nodeRows[mergeSource][chunk[2] - j + 1]
                             found  == Equivalent(before[1], t)
                         IN  IF found # {}
                             THEN <<before[1], before[2] \cup {<<t, Min(found)>>}>>
                             ELSE <<Append(before[1], [name |-> ClusterTasks[t].name,
                                                       kvs |-> ClusterTasks[t].kvs,
                                                       cached |-> TRUE]),
                                    before[2] \cup {<<t, Len(before[1]) + 1>>}>>]
           g == CHOOSE g : Folded(g)
<1>1. Copied = g[N]
  BY DEF Copied
<1>2. /\ chunk[1] \in Nat /\ chunk[2] \in Nat /\ chunk[1] \in Int /\ chunk[2] \in Int
      /\ rows \in Seq(ClusterTask) /\ Len(rows) \in Nat
  BY DEF MergeTypes
<1>3. N \in Nat /\ N = IF chunk[1] > chunk[2] THEN 0 ELSE chunk[2] - chunk[1] + 1
  <2>1. PICK a, b : a = chunk[1] /\ b = chunk[2] /\ a \in Int /\ b \in Int
    BY <1>2
  <2>2. N = Cardinality(a .. b)
    BY <2>1 DEF Loaded
  <2>3. Cardinality(a .. b) = IF a > b THEN 0 ELSE b - a + 1
    BY <2>1, FS_Interval
  <2> HIDE DEF N
  <2> QED
    BY <2>1, <2>2, <2>3
<1>4. \A j \in 1 .. N : /\ chunk[2] - j + 1 \in Loaded /\ chunk[2] - j + 1 \in 1 .. Len(rows)
                        /\ row(j) \in ClusterTask
  <2> TAKE j \in 1 .. N
  <2>1. j \in Nat /\ 1 <= j /\ j <= N
    <3> HIDE DEF N
    <3> QED
      BY <1>3
  <2>2. chunk[2] - j + 1 \in chunk[1] .. chunk[2] /\ chunk[2] - j + 1 \in 1 .. Len(rows)
    <3> HIDE DEF N
    <3> QED
      BY <1>2, <1>3, <2>1
  <2>3. rows[chunk[2] - j + 1] \in ClusterTask
    <3> HIDE DEF rows
    <3> QED
      BY <1>2, <2>2
  <2> QED
    BY <2>2, <2>3 DEF Loaded
<1>5. ASSUME NEW h
      PROVE  Folded(h) <=> h = [j \in 0 .. N |-> IF j = 0 THEN start ELSE CopyOne(h[j - 1], row(j))]
  BY DEF CopyOne
<1>6. \E h : Folded(h)
  <2> DEFINE S == (0 .. N) \X DestState
             step == [x \in S |-> IF x[1] < N /\ Fits(x[2])
                                  THEN <<x[1] + 1, CopyOne(x[2], row(x[1] + 1))>> ELSE x]
  <2>1. <<0, start>> \in S
    <3> HIDE DEF N, start
    <3>1. start \in DestState
      BY DEF start
    <3> QED
      BY <1>3, <3>1
  <2>2. step \in [S -> S]
    <3> SUFFICES ASSUME NEW x \in S, x[1] < N, Fits(x[2])
                 PROVE  <<x[1] + 1, CopyOne(x[2], row(x[1] + 1))>> \in S
      OBVIOUS
    <3>1. x[1] \in 0 .. N /\ x[2] \in DestState
      OBVIOUS
    <3>2. x[1] + 1 \in 0 .. N /\ x[1] + 1 \in 1 .. N
      <4> HIDE DEF N
      <4> QED
        BY <1>3, <3>1
    <3>3. row(x[1] + 1) \in ClusterTask
      BY <1>4, <3>2
    <3>4. CopyOne(x[2], row(x[1] + 1)) \in DestState
      <4> HIDE DEF row
      <4> QED
        BY <3>1, <3>3, CopyOneFits
    <3> HIDE DEF N, row
    <3> QED
      BY <3>2, <3>4
  <2>3. PICK f \in [0 .. N -> S] : Repeats(f, <<0, start>>, step, N)
    <3> HIDE DEF N, start, S, step
    <3> QED
      BY <1>3, <2>1, <2>2, Iterates
  <2> DEFINE h == [j \in 0 .. N |-> f[j][2]]
             H == {j \in 0 .. N : f[j][1] = j /\ Fits(f[j][2])}
  <2>4. f[0] = <<0, start>> /\ \A j \in 1 .. N : f[j] = step[f[j - 1]]
    <3> HIDE DEF N, start, step, S
    <3>1. \A j \in 0 .. N : f[j] = IF j = 0 THEN <<0, start>> ELSE step[f[j - 1]]
      BY <2>3 DEF Repeats
    <3> QED
      BY <1>3, <3>1
  <2>5. 0 \in H
    <3> HIDE DEF N
    <3> QED
      BY <1>3, <2>4
  <2>6. ASSUME NEW j \in 1 .. N, j - 1 \in H
        PROVE  j \in H /\ f[j][2] = CopyOne(f[j - 1][2], row(j))
    <3>1. j - 1 \in 0 .. N /\ j \in 0 .. N /\ j - 1 < N /\ (j - 1) + 1 = j
      <4> HIDE DEF N, H
      <4> QED
        BY <1>3
    <3>2. f[j - 1][1] = j - 1 /\ Fits(f[j - 1][2])
      BY <2>6
    <3>3. f[j - 1] \in S /\ f[j] = step[f[j - 1]]
      <4> HIDE DEF S, step, N, H
      <4> QED
        BY <2>3, <2>4, <3>1
    <3>4. step[f[j - 1]] = <<f[j - 1][1] + 1, CopyOne(f[j - 1][2], row(f[j - 1][1] + 1))>>
      <4> HIDE DEF S, N, H, row
      <4> QED
        BY <3>1, <3>2, <3>3
    <3>5. f[j] = <<j, CopyOne(f[j - 1][2], row(j))>>
      <4> HIDE DEF S, N, H, row, step
      <4> QED
        BY <3>1, <3>2, <3>3, <3>4
    <3>6. Fits(CopyOne(f[j - 1][2], row(j)))
      <4>1. f[j - 1][2] \in DestState
        <5> HIDE DEF N, H, step
        <5> QED
          BY <3>3
      <4>2. row(j) \in ClusterTask
        BY <1>4
      <4> HIDE DEF row, N, H, S, step
      <4> QED
        BY <3>2, <4>1, <4>2, CopyOneFits
    <3> HIDE DEF row, N, S, step
    <3> QED
      BY <3>1, <3>5, <3>6
  <2>7. \A j \in 0 .. N : j \in H
    <3>1. \A j \in 1 .. N : j - 1 \in H => j \in H
      BY <2>6
    <3> HIDE DEF N, H
    <3> QED
      BY <1>3, <2>5, <3>1, Induction
  <2>8. \A j \in 0 .. N : h[j] = IF j = 0 THEN start ELSE CopyOne(h[j - 1], row(j))
    <3> TAKE j \in 0 .. N
    <3>1. CASE j = 0
      <4> HIDE DEF N, start
      <4> QED
        BY <2>4, <3>1
    <3>2. CASE j # 0
      <4>1. j \in 1 .. N /\ j - 1 \in 0 .. N
        <5> HIDE DEF N
        <5> QED
          BY <1>3, <3>2
      <4>2. f[j][2] = CopyOne(f[j - 1][2], row(j))
        BY <2>6, <2>7, <4>1
      <4> HIDE DEF N, row, start
      <4> QED
        BY <3>2, <4>1, <4>2
    <3> QED
      BY <3>1, <3>2
  <2>9. h = [j \in 0 .. N |-> IF j = 0 THEN start ELSE CopyOne(h[j - 1], row(j))]
    <3> HIDE DEF start, row, N
    <3> QED
      BY <2>8
  <2> HIDE DEF h, Folded, N, start, row
  <2> QED
    BY <1>5, <2>9
<1>7. Folded(g)
  <2> HIDE DEF Folded
  <2> QED
    BY <1>6
<1>8. g[0] = start /\ \A j \in 1 .. N : g[j] = CopyOne(g[j - 1], row(j))
  <2>1. g = [j \in 0 .. N |-> IF j = 0 THEN start ELSE CopyOne(g[j - 1], row(j))]
    <3> HIDE DEF g, Folded, start, row, N
    <3> QED
      BY <1>5, <1>7
  <2>2. \A j \in 0 .. N : g[j] = IF j = 0 THEN start ELSE CopyOne(g[j - 1], row(j))
    <3> HIDE DEF g, Folded, start, row, N
    <3> QED
      BY <2>1
  <2> HIDE DEF g, Folded, start, row, N
  <2> QED
    BY <1>3, <2>2
<1> HIDE DEF g, Folded
<1> DEFINE H == {j \in 0 .. N :
                   /\ g[j] \in DestState /\ Fits(g[j]) /\ destLinks \subseteq g[j][2]
                   /\ \A n \in 1 .. j : \E link \in g[j][2] : link[1] = row(n)
                   /\ \A link \in g[j][2] :
                        link \in destLinks \/ \E n \in 1 .. j : link[1] = row(n)}
<1>9. 0 \in H
  <2>1. g[0][2] = destLinks
    BY <1>8
  <2> HIDE DEF N, row
  <2> QED
    BY <1>3, <1>8, <2>1
<1>10. \A j \in 1 .. N : j - 1 \in H => j \in H
  <2> SUFFICES ASSUME NEW j \in 1 .. N, j - 1 \in H PROVE j \in H
    OBVIOUS
  <2>1. PICK s, t : s = g[j - 1] /\ t = row(j)
    OBVIOUS
  <2>2. /\ s \in DestState /\ Fits(s) /\ destLinks \subseteq s[2]
        /\ \A n \in 1 .. j - 1 : \E link \in s[2] : link[1] = row(n)
        /\ \A link \in s[2] : link \in destLinks \/ \E n \in 1 .. j - 1 : link[1] = row(n)
    BY <2>1
  <2>3. g[j] = CopyOne(s, t) /\ t \in ClusterTask
    BY <1>4, <1>8, <2>1
  <2>4. /\ CopyOne(s, t) \in DestState /\ Fits(CopyOne(s, t))
        /\ s[2] \subseteq CopyOne(s, t)[2]
        /\ \E link \in CopyOne(s, t)[2] : link[1] = t
        /\ \A link \in CopyOne(s, t)[2] : link \in s[2] \/ link[1] = t
    BY <2>2, <2>3, CopyOneFits
  <2> HIDE DEF row, N
  <2>5. j \in 0 .. N /\ j \in 1 .. j /\ 1 .. j - 1 \subseteq 1 .. j
        /\ \A n \in 1 .. j : n = j \/ n \in 1 .. j - 1
    BY <1>3
  <2>6. \A n \in 1 .. j : \E link \in g[j][2] : link[1] = row(n)
    BY <2>1, <2>2, <2>3, <2>4, <2>5
  <2>7. \A link \in g[j][2] : link \in destLinks \/ \E n \in 1 .. j : link[1] = row(n)
    BY <2>1, <2>2, <2>3, <2>4, <2>5
  <2> QED
    BY <2>2, <2>3, <2>4, <2>5, <2>6, <2>7
<1>11. N \in H
  <2>1. N \in 0 .. N
    <3> HIDE DEF N
    <3> QED
      BY <1>3
  <2> HIDE DEF H, N
  <2> QED
    BY <1>3, <1>9, <1>10, <2>1, Induction
<1>12. \A id \in Loaded : \E n \in 1 .. N : row(n) = rows[id]
  <2> TAKE id \in Loaded
  <2>1. PICK n : n = chunk[2] - id + 1
    OBVIOUS
  <2>2. n \in 1 .. N /\ chunk[2] - n + 1 = id
    <3> HIDE DEF N
    <3> QED
      BY <1>2, <1>3, <2>1 DEF Loaded
  <2> HIDE DEF N, rows
  <2> QED
    BY <2>2
<1>13. \A n \in 1 .. N : \E id \in Loaded : row(n) = rows[id]
  BY <1>4
<1> HIDE DEF N, row
<1>14. /\ g[N] \in DestState /\ Fits(g[N]) /\ destLinks \subseteq g[N][2]
       /\ \A n \in 1 .. N : \E link \in g[N][2] : link[1] = row(n)
       /\ \A link \in g[N][2] : link \in destLinks \/ \E n \in 1 .. N : link[1] = row(n)
  BY <1>11
<1> HIDE DEF H
<1>15. PICK all : all = g[N] /\ Copied = all
  BY <1>1
<1>16. \A id \in Loaded : \E link \in Copied[2] : link[1] = rows[id]
  <2> TAKE id \in Loaded
  <2>1. PICK n \in 1 .. N : row(n) = rows[id]
    BY <1>12
  <2>2. PICK link \in all[2] : link[1] = row(n)
    BY <1>14, <1>15
  <2> HIDE DEF rows
  <2> QED
    BY <1>15, <2>1, <2>2
<1>17. \A link \in Copied[2] : link \in destLinks \/ \E id \in Loaded : link[1] = rows[id]
  <2> TAKE link \in Copied[2]
  <2>1. CASE link \notin destLinks
    <3>1. PICK n \in 1 .. N : link[1] = row(n)
      BY <1>14, <1>15, <2>1
    <3>2. PICK id \in Loaded : row(n) = rows[id]
      BY <1>13
    <3> HIDE DEF rows
    <3> QED
      BY <3>1, <3>2
  <2> QED
    BY <2>1
<1>18. Copied \in DestState /\ Fits(Copied) /\ destLinks \subseteq Copied[2]
  BY <1>14, <1>15
<1> QED
  BY <1>16, <1>17, <1>18

-----------------------------------------------------------------------------
(* Every link is that of a stored result, and every copied result has one.   *)

DestTyped == <<destConfigs, destLinks>> \in DestState /\ Fits(<<destConfigs, destLinks>>)

LinksAreStored ==
  \A link \in destLinks : \E k \in Node : \E id \in Rows(k) : link[1] = nodeRows[k][id]

CopiesAreLinked ==
  mergePhase # "off" =>
    \A k \in Node : \A id \in Rows(k) :
      copies[k][id] >= 1 => \E link \in destLinks : link[1] = nodeRows[k][id]

\* The ids of a chunk count from one.
ChunkCounts == mergePhase = "copy" => chunk[1] >= 1

LinkInv == DestTyped /\ LinksAreStored /\ CopiesAreLinked /\ ChunkCounts

LEMMA InitLinks == ClusterInit => LinkInv
<1> SUFFICES ASSUME ClusterInit PROVE LinkInv
  OBVIOUS
<1>1. destConfigs = <<>> /\ destLinks = {} /\ mergePhase = "off"
  BY DEF ClusterInit
<1>2. <<destConfigs, destLinks>> \in DestState
  <2>1. <<>> \in Seq(ConfigRow) /\ {} \in SUBSET (ClusterTask \X Nat)
    OBVIOUS
  <2> QED
    BY <1>1, <2>1, Zenon DEF DestState
<1>3. Fits(<<destConfigs, destLinks>>)
  BY <1>1 DEF Fits
<1> QED
  BY <1>1, <1>2, <1>3 DEF LinkInv, DestTyped, LinksAreStored, CopiesAreLinked, ChunkCounts

\* The rows of the nodes stay, also when a node appends one.
LEMMA RowsStay ==
  ASSUME MergeTypes, NodeStep
  PROVE  \A k \in Node : \A id \in Rows(k) :
           id \in Rows(k)' /\ nodeRows'[k][id] = nodeRows[k][id]
<1>1. CASE nodeRows' = nodeRows
  BY <1>1 DEF Rows
<1>2. ASSUME NEW k \in Node, RunTask(k)
      PROVE  \A j \in Node : \A id \in Rows(j) :
               id \in Rows(j)' /\ nodeRows'[j][id] = nodeRows[j][id]
  <2>1. PICK t \in remaining[k] :
          nodeRows' = nodeRows \/ nodeRows' = [nodeRows EXCEPT ![k] = Append(@, t)]
    BY <1>2 DEF RunTask
  <2>2. CASE nodeRows' = [nodeRows EXCEPT ![k] = Append(@, t)]
    <3>1. nodeRows \in [Node -> Seq(ClusterTask)] /\ t \in ClusterTask
      BY DEF MergeTypes
    <3> TAKE j \in Node
    <3>2. CASE j = k
      <4>1. nodeRows'[j] = Append(nodeRows[j], t) /\ nodeRows[j] \in Seq(ClusterTask)
        BY <2>2, <3>1, <3>2
      <4> QED
        BY <3>1, <4>1 DEF Rows
    <3>3. CASE j # k
      BY <2>2, <3>1, <3>3 DEF Rows
    <3> QED
      BY <3>2, <3>3
  <2> QED
    BY <1>1, <2>1, <2>2
<1>3. NodeStep => nodeRows' = nodeRows \/ \E k \in Node : RunTask(k)
  BY DEF NodeStep, Submit, Start, EndNode, LoseNode, Relaunch
<1> QED
  BY <1>1, <1>2, <1>3

LEMMA NodeStepsLinks ==
  ASSUME MergeInv, LinkInv, NodeStep
  PROVE  LinkInv'
<1>1. UNCHANGED <<mergeVars, destVars>>
  BY DEF NodeStep, Submit, Start, RunTask, EndNode, LoseNode, Relaunch
<1>2. DestTyped' /\ ChunkCounts'
  BY <1>1 DEF LinkInv, DestTyped, Fits, ChunkCounts, destVars, mergeVars
<1>3. \A k \in Node : \A id \in Rows(k) :
        id \in Rows(k)' /\ nodeRows'[k][id] = nodeRows[k][id]
  BY RowsStay DEF MergeInv
<1>4. LinksAreStored'
  <2> SUFFICES ASSUME NEW link \in destLinks
               PROVE  \E k \in Node : \E id \in Rows(k)' : link[1] = nodeRows'[k][id]
    BY <1>1 DEF LinksAreStored, destVars
  <2>1. PICK k \in Node : \E id \in Rows(k) : link[1] = nodeRows[k][id]
    BY DEF LinkInv, LinksAreStored
  <2>2. PICK id \in Rows(k) : link[1] = nodeRows[k][id]
    BY <2>1
  <2> QED
    BY <1>3, <2>2
<1>5. mergePhase # "off" => nodeRows' = nodeRows
  <2>1. mergePhase # "off" => \A k \in Node : nodeStatus[k] \in {"ended", "lost"}
    BY DEF MergeInv, SourcesRest
  <2> QED
    BY <2>1 DEF NodeStep, Submit, Start, RunTask, EndNode, LoseNode, Relaunch
<1>6. CopiesAreLinked'
  BY <1>1, <1>5 DEF LinkInv, CopiesAreLinked, Rows, destVars, mergeVars
<1> QED
  BY <1>2, <1>4, <1>6 DEF LinkInv

\* The rows keep name and key-values when a session ends.
LEMMA SessionEndFits ==
  ASSUME DestTyped, destConfigs' = SessionEnds, destLinks' = destLinks
  PROVE  DestTyped'
<1>1. destConfigs \in Seq(ConfigRow) /\ destLinks \in SUBSET (ClusterTask \X Nat)
  BY DEF DestTyped, DestState
<1>2. DOMAIN destConfigs' = 1 .. Len(destConfigs) /\ Len(destConfigs) \in Nat
  BY <1>1 DEF SessionEnds
<1>3. \A r \in DOMAIN destConfigs :
        /\ destConfigs'[r] \in ConfigRow
        /\ destConfigs'[r].name = destConfigs[r].name
        /\ destConfigs'[r].kvs = destConfigs[r].kvs
  <2> TAKE r \in DOMAIN destConfigs
  <2>1. destConfigs[r] \in ConfigRow
    BY <1>1
  <2>2. PICK u \in ClusterTask, b \in BOOLEAN :
          destConfigs[r] = [name |-> ClusterTasks[u].name, kvs |-> ClusterTasks[u].kvs,
                            cached |-> b]
    BY <2>1 DEF ConfigRow
  <2>3. destConfigs'[r] = [destConfigs[r] EXCEPT !.cached = FALSE]
    BY DEF SessionEnds
  <2>4. destConfigs'[r] = [name |-> ClusterTasks[u].name, kvs |-> ClusterTasks[u].kvs,
                           cached |-> FALSE]
    <3>1. PICK name, kvs, no : /\ name = ClusterTasks[u].name /\ kvs = ClusterTasks[u].kvs
                               /\ no = FALSE
      OBVIOUS
    <3>2. destConfigs'[r] = [[name |-> name, kvs |-> kvs, cached |-> b] EXCEPT !.cached = no]
      BY <2>2, <2>3, <3>1, Zenon
    <3>3. [[name |-> name, kvs |-> kvs, cached |-> b] EXCEPT !.cached = no]
            = [name |-> name, kvs |-> kvs, cached |-> no]
      BY SMT
    <3> QED
      BY <3>1, <3>2, <3>3, Zenon
  <2>5. \E v \in ClusterTask, c \in BOOLEAN :
          destConfigs'[r] = [name |-> ClusterTasks[v].name, kvs |-> ClusterTasks[v].kvs,
                             cached |-> c]
    <3>1. WITNESS u \in ClusterTask, FALSE \in BOOLEAN
    <3> QED
      BY <2>4
  <2>6. destConfigs'[r] \in ConfigRow
    BY <2>5 DEF ConfigRow
  <2> QED
    BY <2>2, <2>4, <2>6
<1>4. destConfigs' \in Seq(ConfigRow)
  <2>1. \A r \in 1 .. Len(destConfigs) : destConfigs'[r] \in ConfigRow
    BY <1>1, <1>3
  <2>2. destConfigs' = [r \in 1 .. Len(destConfigs) |-> destConfigs'[r]]
    BY <1>2 DEF SessionEnds
  <2> QED
    BY <1>2, <2>1, <2>2
<1>5. <<destConfigs, destLinks>>' \in DestState
  BY <1>1, <1>4 DEF DestState
<1>6. DOMAIN destConfigs' = DOMAIN destConfigs
  BY DEF SessionEnds
<1>7. Fits(<<destConfigs, destLinks>>)'
  <2> SUFFICES ASSUME NEW link \in destLinks
               PROVE  /\ link[2] \in DOMAIN destConfigs'
                      /\ destConfigs'[link[2]].name = ClusterTasks[link[1]].name
                      /\ destConfigs'[link[2]].kvs \in MergedKvs(link[1])
    BY DEF Fits
  <2>1. /\ link[2] \in DOMAIN destConfigs
        /\ destConfigs[link[2]].name = ClusterTasks[link[1]].name
        /\ destConfigs[link[2]].kvs \in MergedKvs(link[1])
    BY DEF DestTyped, Fits
  <2> QED
    BY <1>3, <1>6, <2>1
<1> QED
  BY <1>5, <1>7 DEF DestTyped

LEMMA CopyChunkLinks ==
  ASSUME MergeInv, LinkInv, CopyChunk
  PROVE  LinkInv'
<1>1. /\ mergePhase = "copy" /\ destConfigs' = Copied[1] /\ destLinks' = Copied[2]
      /\ UNCHANGED <<nodeVars, mergeSource, chunk>>
      /\ mergePhase' # "copy"
  BY DEF CopyChunk
<1>2. /\ MergeTypes /\ chunk[1] \in Nat \ {0} /\ chunk[2] <= Len(nodeRows[mergeSource])
      /\ <<destConfigs, destLinks>> \in DestState /\ Fits(<<destConfigs, destLinks>>)
  BY <1>1 DEF MergeInv, MergeTypes, PresentSource, LinkInv, DestTyped, ChunkCounts
<1>3. /\ Copied \in DestState /\ Fits(Copied)
      /\ destLinks \subseteq Copied[2]
      /\ \A id \in Loaded : \E link \in Copied[2] : link[1] = nodeRows[mergeSource][id]
      /\ \A link \in Copied[2] :
           link \in destLinks \/ \E id \in Loaded : link[1] = nodeRows[mergeSource][id]
  BY <1>2, CopiedFits
<1>4. <<destConfigs', destLinks'>> = Copied
  BY <1>1, <1>3 DEF DestState
<1>5. DestTyped'
  BY <1>3, <1>4 DEF DestTyped, Fits
<1>6. Loaded \subseteq Rows(mergeSource) /\ mergeSource \in Node
  <2>1. nodeRows[mergeSource] \in Seq(ClusterTask) /\ mergeSource \in Node
    BY <1>2 DEF MergeTypes
  <2>2. Rows(mergeSource) = 1 .. Len(nodeRows[mergeSource])
    BY <2>1 DEF Rows
  <2>3. chunk[1] \in Nat /\ chunk[2] \in Nat /\ Len(nodeRows[mergeSource]) \in Nat
    BY <1>2, <2>1 DEF MergeTypes
  <2> QED
    BY <1>2, <2>1, <2>2, <2>3 DEF Loaded
<1>7. nodeRows' = nodeRows
  BY <1>1 DEF nodeVars
<1>8. LinksAreStored'
  <2> SUFFICES ASSUME NEW link \in Copied[2]
               PROVE  \E k \in Node : \E id \in Rows(k) : link[1] = nodeRows[k][id]
    BY <1>1, <1>7 DEF LinksAreStored, Rows
  <2>1. CASE link \in destLinks
    BY <2>1 DEF LinkInv, LinksAreStored
  <2>2. CASE link \notin destLinks
    <3>1. PICK id \in Loaded : link[1] = nodeRows[mergeSource][id]
      BY <1>3, <2>2
    <3> QED
      BY <1>6, <3>1
  <2> QED
    BY <2>1, <2>2
<1>9. CopiesAreLinked'
  <2> SUFFICES ASSUME NEW k \in Node, NEW id \in Rows(k), copies'[k][id] >= 1
               PROVE  \E link \in Copied[2] : link[1] = nodeRows[k][id]
    BY <1>1, <1>7 DEF CopiesAreLinked, Rows
  <2>1. CASE k = mergeSource /\ id \in Loaded
    BY <1>3, <2>1
  <2>2. CASE ~ (k = mergeSource /\ id \in Loaded)
    <3>1. copies' = [copies EXCEPT ![mergeSource] =
                       [i \in DOMAIN @ |-> IF i \in Loaded THEN @[i] + 1 ELSE @[i]]]
      BY DEF CopyChunk
    <3>2. DOMAIN copies = Node /\ copies[k] \in [Rows(k) -> Nat]
      BY <1>1 DEF MergeInv, SourcesRest
    <3>3. copies'[k][id] = copies[k][id]
      BY <2>2, <3>1, <3>2
    <3>4. PICK link \in destLinks : link[1] = nodeRows[k][id]
      BY <1>1, <3>3 DEF LinkInv, CopiesAreLinked
    <3> QED
      BY <1>3, <3>4
  <2> QED
    BY <2>1, <2>2
<1> QED
  BY <1>1, <1>5, <1>8, <1>9 DEF LinkInv, ChunkCounts

LEMMA NextLinks == MergeInv /\ LinkInv /\ [ClusterNext]_clusterVars => LinkInv'
<1> SUFFICES ASSUME MergeInv, LinkInv, [ClusterNext]_clusterVars PROVE LinkInv'
  OBVIOUS
<1>1. CASE UNCHANGED clusterVars
  BY <1>1 DEF clusterVars, nodeVars, destVars, mergeVars, LinkInv, DestTyped, Fits,
     LinksAreStored, CopiesAreLinked, ChunkCounts, Rows
<1>2. CASE NodeStep
  BY <1>2, NodeStepsLinks
<1>3. CASE StartMerge
  <2>1. /\ UNCHANGED <<nodeVars, destConfigs, destLinks>> /\ mergePhase' = "load"
        /\ copies' = [k \in Node |-> [id \in Rows(k) |-> 0]]
    BY <1>3 DEF StartMerge, Rows
  <2>2. \A k \in Node : \A id \in Rows(k) : ~ (copies'[k][id] >= 1)
    BY <2>1
  <2>3. DestTyped' /\ LinksAreStored' /\ ChunkCounts'
    BY <2>1 DEF LinkInv, DestTyped, Fits, LinksAreStored, ChunkCounts, Rows, nodeVars
  <2>4. CopiesAreLinked'
    BY <2>1, <2>2 DEF CopiesAreLinked, Rows, nodeVars
  <2> QED
    BY <2>3, <2>4 DEF LinkInv
<1>4. CASE LoadChunk
  <2>1. /\ UNCHANGED <<nodeVars, destVars>> /\ mergePhase = "load" /\ mergePhase' = "copy"
        /\ chunk'[1] = LaterId(firstId, 1)
    BY <1>4 DEF LoadChunk
  <2>2. LaterId(firstId, 1) >= 1
    BY LaterIdBounds DEF MergeInv, MergeTypes
  <2> QED
    BY <2>1, <2>2 DEF LinkInv, DestTyped, Fits, LinksAreStored, CopiesAreLinked,
       ChunkCounts, Rows, nodeVars, destVars
<1>5. CASE CopyChunk
  BY <1>5, CopyChunkLinks
<1>6. CASE CopyErrors \/ LoseMerge
  <2>1. /\ UNCHANGED <<nodeVars, copies, destLinks>> /\ destConfigs' = SessionEnds
        /\ mergePhase # "off" /\ mergePhase' # "copy"
    BY <1>6 DEF CopyErrors, LoseMerge
  <2>2. DestTyped'
    BY <2>1, SessionEndFits DEF LinkInv
  <2> QED
    BY <2>1, <2>2 DEF LinkInv, LinksAreStored, CopiesAreLinked, ChunkCounts, Rows, nodeVars
<1>7. CASE RestartMerge
  BY <1>7 DEF RestartMerge, LinkInv, DestTyped, Fits, LinksAreStored, CopiesAreLinked,
     ChunkCounts, Rows, nodeVars, destVars
<1> QED
  BY <1>1, <1>2, <1>3, <1>4, <1>5, <1>6, <1>7 DEF ClusterNext, NodeStep

\* What is in the database when the merger has ended is what the nodes stored.
LEMMA MissingIsUnstored ==
  ASSUME MergeInv, LinkInv, mergePhase = "done", NEW t \in ClusterTask
  PROVE  IF t \in Missing
         THEN \A u \in StoredTasks :
                SameInstance(u, t) => MergedKvs(u) # {ClusterTasks[t].kvs}
         ELSE \E u \in StoredTasks :
                SameInstance(u, t) /\ ClusterTasks[t].kvs \in MergedKvs(u)
<1>1. \A link \in destLinks : destConfigs[link[2]].kvs \in MergedKvs(link[1])
  BY DEF LinkInv, DestTyped, Fits
<1>2. ASSUME t \notin Missing
      PROVE  \E u \in StoredTasks : SameInstance(u, t) /\ ClusterTasks[t].kvs \in MergedKvs(u)
  <2>1. PICK link \in destLinks : /\ ClusterTasks[link[1]].inst = ClusterTasks[t].inst
                                  /\ destConfigs[link[2]].kvs = ClusterTasks[t].kvs
    BY <1>2 DEF Missing
  <2>2. PICK k \in Node : \E id \in Rows(k) : link[1] = nodeRows[k][id]
    BY DEF LinkInv, LinksAreStored
  <2>3. link[1] \in StoredTasks
    BY <2>2 DEF StoredTasks, Rows
  <2> QED
    BY <1>1, <2>1, <2>3 DEF SameInstance
<1>3. ASSUME NEW u \in StoredTasks, SameInstance(u, t), MergedKvs(u) = {ClusterTasks[t].kvs}
      PROVE  t \notin Missing
  <2>1. PICK k \in Node : u \in {nodeRows[k][n] : n \in DOMAIN nodeRows[k]}
    BY DEF StoredTasks
  <2>2. PICK id \in Rows(k) : u = nodeRows[k][id]
    BY <2>1 DEF Rows
  <2>3. copies[k][id] >= 1
    <3>1. copies[k][id] \in 1 .. mergeLosses + 1
      BY DEF MergeInv, Stopped, After
    <3> QED
      BY <3>1 DEF MergeInv, MergeTypes
  <2>4. PICK link \in destLinks : link[1] = u
    BY <2>2, <2>3 DEF LinkInv, CopiesAreLinked
  <2> QED
    BY <1>1, <1>3, <2>4 DEF Missing, SameInstance
<1> QED
  BY <1>2, <1>3

-----------------------------------------------------------------------------
(* What a node has run, it has stored, as a result or as an error.           *)

\* The tasks a node has been through without a result that is found for them.
Unanswered(k) == {t \in partition[k] \ remaining[k] : ~ Found(k, t)}

ErrorInv ==
  /\ nodeErrors \in [Node -> Nat]
  /\ \A k \in Node :
       nodeStatus[k] # "new" => /\ remaining[k] \subseteq partition[k]
                                /\ Cardinality(Unanswered(k)) <= nodeErrors[k]
  /\ \A k \in Node : nodeStatus[k] = "ended" => remaining[k] = {}

LEMMA TasksFinite == IsFiniteSet(ClusterTask) /\ Cardinality(ClusterTask) = Len(ClusterTasks)
                     /\ Len(ClusterTasks) \in Nat
<1>1. Len(ClusterTasks) \in Nat
  BY ClusterAssumption, SMT DEF ClusterAssumption
<1>2. PICK n : n = Len(ClusterTasks)
  OBVIOUS
<1>3. n \in Nat /\ 1 \in Int /\ n \in Int
  BY <1>1, <1>2
<1>4. /\ IsFiniteSet(1 .. n)
      /\ Cardinality(1 .. n) = IF 1 > n THEN 0 ELSE n - 1 + 1
  BY <1>3, FS_Interval
<1>5. Cardinality(1 .. n) = n
  BY <1>3, <1>4
<1>6. ClusterTask = 1 .. n
  BY <1>2 DEF ClusterTask
<1> QED
  BY <1>2, <1>3, <1>4, <1>5, <1>6, Zenon

LEMMA InitErrors == ClusterInit => ErrorInv
  BY DEF ClusterInit, ErrorInv

LEMMA StartErrors ==
  ASSUME MergeTypes, ErrorInv, NEW k \in Node, Start(k)
  PROVE  ErrorInv'
<1>1. PICK S : /\ partition' = [partition EXCEPT ![k] = S]
               /\ remaining' = [remaining EXCEPT ![k] = S]
  BY DEF Start
<1>2. /\ nodeStatus' = [nodeStatus EXCEPT ![k] = "running"]
      /\ nodeErrors' = nodeErrors /\ nodeRows' = nodeRows
  BY DEF Start
<1>3. \A j \in Node : j # k => /\ partition'[j] = partition[j]
                               /\ remaining'[j] = remaining[j]
                               /\ nodeStatus'[j] = nodeStatus[j]
  BY <1>1, <1>2 DEF MergeTypes
<1>4. partition'[k] = S /\ remaining'[k] = S /\ nodeStatus'[k] = "running"
  BY <1>1, <1>2 DEF MergeTypes
<1>5. Unanswered(k)' = {}
  BY <1>4 DEF Unanswered
<1>6. \A j \in Node : j # k => Unanswered(j)' = Unanswered(j)
  BY <1>2, <1>3 DEF Unanswered, Found
<1>7. Cardinality(Unanswered(k)') <= nodeErrors'[k]
  <2>1. Cardinality({}) = 0
    BY FS_EmptySet
  <2> QED
    BY <1>2, <1>5, <2>1 DEF ErrorInv
<1> QED
  BY <1>2, <1>3, <1>4, <1>6, <1>7 DEF ErrorInv

LEMMA RunTaskErrors ==
  ASSUME MergeTypes, ErrorInv, NEW k \in Node, RunTask(k)
  PROVE  ErrorInv'
<1>1. PICK t \in remaining[k] :
        /\ remaining' = [remaining EXCEPT ![k] = @ \ {t}]
        /\ IF nodeStatus[k] = "again" /\ Found(k, t)
           THEN UNCHANGED <<nodeRows, nodeErrors>>
           ELSE \/ /\ nodeRows' = [nodeRows EXCEPT ![k] = Append(@, t)]
                   /\ UNCHANGED nodeErrors
                \/ /\ nodeErrors' = [nodeErrors EXCEPT ![k] = @ + 1]
                   /\ UNCHANGED nodeRows
  BY DEF RunTask
<1>2. /\ nodeStatus[k] \in {"running", "again"}
      /\ partition' = partition /\ nodeStatus' = nodeStatus
  BY DEF RunTask
<1>3. /\ \A j \in Node : j # k => remaining'[j] = remaining[j]
      /\ remaining'[k] = remaining[k] \ {t}
  BY <1>1 DEF MergeTypes
<1>4. /\ remaining[k] \subseteq partition[k] /\ partition[k] \subseteq ClusterTask
      /\ Cardinality(Unanswered(k)) <= nodeErrors[k] /\ nodeErrors[k] \in Nat
  BY <1>2 DEF ErrorInv, MergeTypes
<1>5. nodeRows \in [Node -> Seq(ClusterTask)] /\ nodeErrors \in [Node -> Nat]
  BY DEF MergeTypes, ErrorInv
<1>6. IsFiniteSet(Unanswered(k))
  BY <1>4, TasksFinite, FS_Subset DEF Unanswered
<1>7. /\ \A j \in Node : j # k => nodeRows'[j] = nodeRows[j] /\ nodeErrors'[j] = nodeErrors[j]
      /\ nodeErrors' \in [Node -> Nat]
  <2>1. nodeRows' = nodeRows \/ nodeRows' = [nodeRows EXCEPT ![k] = Append(@, t)]
    BY <1>1
  <2>2. nodeErrors' = nodeErrors \/ nodeErrors' = [nodeErrors EXCEPT ![k] = @ + 1]
    BY <1>1
  <2>3. \A j \in Node : j # k => nodeRows'[j] = nodeRows[j]
    BY <1>5, <2>1
  <2>4. nodeErrors' \in [Node -> Nat] /\ \A j \in Node : j # k => nodeErrors'[j] = nodeErrors[j]
    <3>1. nodeErrors[k] + 1 \in Nat
      BY <1>5
    <3> QED
      BY <1>5, <2>2, <3>1
  <2> QED
    BY <2>3, <2>4
<1>8. \A j \in Node : j # k => Unanswered(j)' = Unanswered(j)
  BY <1>2, <1>3, <1>7 DEF Unanswered, Found
<1>9. Cardinality(Unanswered(k)') <= nodeErrors'[k]
  <2>1. CASE UNCHANGED <<nodeRows, nodeErrors>> /\ Found(k, t)
    <3>1. Unanswered(k)' = Unanswered(k)
      BY <1>2, <1>3, <2>1 DEF Unanswered, Found
    <3> QED
      BY <1>4, <2>1, <3>1
  <2>2. CASE /\ nodeRows' = [nodeRows EXCEPT ![k] = Append(@, t)]
             /\ UNCHANGED nodeErrors
    <3>1. t \in ClusterTask /\ nodeRows[k] \in Seq(ClusterTask)
      BY <1>4, <1>5
    <3>2. nodeRows'[k] = Append(nodeRows[k], t)
      BY <1>5, <2>2
    <3>3. /\ \A n \in DOMAIN nodeRows[k] : n \in DOMAIN nodeRows'[k]
                                           /\ nodeRows'[k][n] = nodeRows[k][n]
          /\ Len(nodeRows[k]) + 1 \in DOMAIN nodeRows'[k]
          /\ nodeRows'[k][Len(nodeRows[k]) + 1] = t
      BY <3>1, <3>2
    <3>4. \A u : Found(k, u) => Found(k, u)'
      BY <3>3 DEF Found
    <3>5. Found(k, t)'
      BY <3>3 DEF Found
    <3>6. Unanswered(k)' \subseteq Unanswered(k)
      BY <1>2, <1>3, <3>4, <3>5 DEF Unanswered
    <3>7. Cardinality(Unanswered(k)') <= Cardinality(Unanswered(k))
      BY <1>6, <3>6, FS_Subset
    <3>8. Cardinality(Unanswered(k)') \in Nat /\ Cardinality(Unanswered(k)) \in Nat
      BY <1>6, <3>6, FS_Subset, FS_CardinalityType
    <3> QED
      BY <1>4, <2>2, <3>7, <3>8
  <2>3. CASE /\ nodeErrors' = [nodeErrors EXCEPT ![k] = @ + 1]
             /\ UNCHANGED nodeRows
    <3>1. Unanswered(k)' \subseteq Unanswered(k) \cup {t}
      BY <1>2, <1>3, <2>3 DEF Unanswered, Found
    <3>2. /\ IsFiniteSet(Unanswered(k) \cup {t})
          /\ Cardinality(Unanswered(k) \cup {t}) <= Cardinality(Unanswered(k)) + 1
          /\ Cardinality(Unanswered(k)) \in Nat
      <4>1. Cardinality(Unanswered(k)) \in Nat
        BY <1>6, FS_CardinalityType
      <4>2. /\ IsFiniteSet(Unanswered(k) \cup {t})
            /\ \/ Cardinality(Unanswered(k) \cup {t}) = Cardinality(Unanswered(k))
               \/ Cardinality(Unanswered(k) \cup {t}) = Cardinality(Unanswered(k)) + 1
        BY <1>6, FS_AddElement
      <4> QED
        BY <4>1, <4>2
    <3>3. /\ Cardinality(Unanswered(k)') <= Cardinality(Unanswered(k) \cup {t})
          /\ Cardinality(Unanswered(k)') \in Nat
          /\ Cardinality(Unanswered(k) \cup {t}) \in Nat
      BY <3>1, <3>2, FS_Subset, FS_CardinalityType
    <3>4. nodeErrors'[k] = nodeErrors[k] + 1
      BY <1>5, <2>3
    <3> QED
      BY <1>4, <3>2, <3>3, <3>4
  <2> QED
    BY <1>1, <2>1, <2>2, <2>3
<1>10. ASSUME NEW j \in Node, nodeStatus'[j] # "new"
       PROVE  remaining'[j] \subseteq partition'[j] /\ Cardinality(Unanswered(j)') <= nodeErrors'[j]
  <2>1. CASE j = k
    BY <1>2, <1>3, <1>4, <1>9, <2>1
  <2>2. CASE j # k
    BY <1>2, <1>3, <1>7, <1>8, <1>10, <2>2 DEF ErrorInv
  <2> QED
    BY <2>1, <2>2
<1>11. ASSUME NEW j \in Node, nodeStatus'[j] = "ended"
       PROVE  remaining'[j] = {}
  BY <1>2, <1>3, <1>11 DEF ErrorInv
<1> QED
  BY <1>7, <1>10, <1>11 DEF ErrorInv

LEMMA NextErrors == MergeInv /\ ErrorInv /\ [ClusterNext]_clusterVars => ErrorInv'
<1> SUFFICES ASSUME MergeInv, ErrorInv, [ClusterNext]_clusterVars PROVE ErrorInv'
  OBVIOUS
<1>1. CASE UNCHANGED <<partition, remaining, nodeStatus, nodeRows, nodeErrors>>
  BY <1>1 DEF ErrorInv, Unanswered, Found
<1>2. ASSUME NEW k \in Node, Start(k)
      PROVE  ErrorInv'
  BY <1>2, StartErrors DEF MergeInv
<1>3. ASSUME NEW k \in Node, RunTask(k)
      PROVE  ErrorInv'
  BY <1>3, RunTaskErrors DEF MergeInv
<1>4. ASSUME NEW k \in Node, EndNode(k) \/ LoseNode(k)
      PROVE  ErrorInv'
  <2>1. /\ nodeStatus[k] \in {"running", "again"}
        /\ UNCHANGED <<partition, remaining, nodeRows, nodeErrors>>
        /\ \/ nodeStatus' = [nodeStatus EXCEPT ![k] = "ended"] /\ remaining[k] = {}
           \/ nodeStatus' = [nodeStatus EXCEPT ![k] = "lost"]
    BY <1>4 DEF EndNode, LoseNode
  <2>2. \A j \in Node : /\ nodeStatus'[j] # "new" => nodeStatus[j] # "new"
                        /\ nodeStatus'[j] = "ended" =>
                             nodeStatus[j] = "ended" \/ remaining[j] = {}
    BY <2>1 DEF MergeInv, MergeTypes
  <2> QED
    BY <2>1, <2>2 DEF ErrorInv, Unanswered, Found
<1>5. ASSUME NEW k \in Node, Relaunch(k)
      PROVE  ErrorInv'
  <2>1. /\ nodeStatus[k] = "lost" /\ nodeStatus' = [nodeStatus EXCEPT ![k] = "again"]
        /\ remaining' = [remaining EXCEPT ![k] = partition[k]]
        /\ UNCHANGED <<partition, nodeRows, nodeErrors>>
    BY <1>5 DEF Relaunch
  <2>2. /\ \A j \in Node : j # k => /\ remaining'[j] = remaining[j]
                                    /\ nodeStatus'[j] = nodeStatus[j]
        /\ remaining'[k] = partition[k] /\ nodeStatus'[k] = "again"
    BY <2>1 DEF MergeInv, MergeTypes
  <2>3. Unanswered(k)' = {}
    BY <2>1, <2>2 DEF Unanswered
  <2>4. \A j \in Node : j # k => Unanswered(j)' = Unanswered(j)
    BY <2>1, <2>2 DEF Unanswered, Found
  <2>5. Cardinality(Unanswered(k)') <= nodeErrors'[k]
    <3>1. Cardinality({}) = 0
      BY FS_EmptySet
    <3> QED
      BY <2>1, <2>3, <3>1 DEF ErrorInv
  <2> QED
    BY <2>1, <2>2, <2>4, <2>5 DEF ErrorInv
<1>6. \/ UNCHANGED <<partition, remaining, nodeStatus, nodeRows, nodeErrors>>
      \/ \E k \in Node : Start(k) \/ RunTask(k) \/ EndNode(k) \/ LoseNode(k) \/ Relaunch(k)
  BY DEF ClusterNext, Submit, StartMerge, LoadChunk, CopyChunk, CopyErrors, LoseMerge,
     RestartMerge, clusterVars, nodeVars
<1> QED
  BY <1>1, <1>2, <1>3, <1>4, <1>5, <1>6

LEMMA EndedIsAnswered ==
  ASSUME ErrorInv, NEW k \in Node, nodeStatus[k] = "ended"
  PROVE  Cardinality({t \in partition[k] : ~ Found(k, t)}) <= nodeErrors[k]
<1>1. remaining[k] = {} /\ Cardinality(Unanswered(k)) <= nodeErrors[k]
  BY DEF ErrorInv
<1>2. Unanswered(k) = {t \in partition[k] : ~ Found(k, t)}
  BY <1>1 DEF Unanswered
<1> QED
  BY <1>1, <1>2

-----------------------------------------------------------------------------
(* The partitions.                                                           *)

ShareInv ==
  /\ taskHash = <<>> \/ taskHash \in [ClusterTask -> HashValues]
  /\ \A k \in Node :
       nodeStatus[k] # "new" => taskHash # <<>> /\ partition[k] \in Partitions(k)

LEMMA InitShares == ClusterInit => ShareInv
  BY DEF ClusterInit, ShareInv

LEMMA NextShares == MergeInv /\ ShareInv /\ [ClusterNext]_clusterVars => ShareInv'
<1> SUFFICES ASSUME MergeInv, ShareInv, [ClusterNext]_clusterVars PROVE ShareInv'
  OBVIOUS
<1>1. CASE UNCHANGED <<taskHash, partition, nodeStatus>>
  BY <1>1 DEF ShareInv, Partitions
<1>2. CASE Submit
  <2>1. /\ taskHash = <<>> /\ taskHash' \in [ClusterTask -> HashValues]
        /\ nodeStatus' = nodeStatus
    BY <1>2 DEF Submit
  <2>2. \A k \in Node : nodeStatus'[k] = "new"
    BY <2>1 DEF ShareInv
  <2> QED
    BY <2>1, <2>2 DEF ShareInv
<1>3. ASSUME NEW k \in Node, Start(k)
      PROVE  ShareInv'
  <2>1. PICK S \in Partitions(k) : partition' = [partition EXCEPT ![k] = S]
    BY <1>3 DEF Start
  <2>2. /\ taskHash # <<>> /\ taskHash' = taskHash
        /\ nodeStatus' = [nodeStatus EXCEPT ![k] = "running"]
    BY <1>3 DEF Start
  <2>3. /\ partition'[k] = S
        /\ \A j \in Node : j # k => partition'[j] = partition[j] /\ nodeStatus'[j] = nodeStatus[j]
    BY <2>1, <2>2 DEF MergeInv, MergeTypes
  <2>4. \A j \in Node : Partitions(j)' = Partitions(j)
    BY <2>2 DEF Partitions
  <2> QED
    BY <2>1, <2>2, <2>3, <2>4 DEF ShareInv
<1>4. ASSUME NEW k \in Node, RunTask(k) \/ EndNode(k) \/ LoseNode(k) \/ Relaunch(k)
      PROVE  ShareInv'
  <2>1. /\ taskHash' = taskHash /\ partition' = partition
        /\ nodeStatus[k] # "new"
        /\ \E s : nodeStatus' = nodeStatus \/ nodeStatus' = [nodeStatus EXCEPT ![k] = s]
    BY <1>4 DEF RunTask, EndNode, LoseNode, Relaunch
  <2>2. \A j \in Node : nodeStatus'[j] # "new" => nodeStatus[j] # "new"
    BY <2>1 DEF MergeInv, MergeTypes
  <2> QED
    BY <2>1, <2>2 DEF ShareInv, Partitions
<1>5. UNCHANGED <<taskHash, partition, nodeStatus>> \/ Submit
      \/ \E k \in Node : Start(k) \/ RunTask(k) \/ EndNode(k) \/ LoseNode(k) \/ Relaunch(k)
  BY DEF ClusterNext, StartMerge, LoadChunk, CopyChunk, CopyErrors, LoseMerge,
     RestartMerge, clusterVars, nodeVars
<1> QED
  BY <1>1, <1>2, <1>3, <1>4, <1>5

\* How many of the tasks with a hash are among the first x tasks, in any order
\* of the tasks by their hashes.
Lower(h) == {t \in ClusterTask : taskHash[t] < h}

AmongFirst(h, x) ==
  IF x <= Cardinality(Lower(h)) THEN 0
  ELSE IF x >= Cardinality(Lower(h)) + Cardinality(HashClass(h)) THEN Cardinality(HashClass(h))
  ELSE x - Cardinality(Lower(h))

LEMMA ClassTypes ==
  ASSUME NEW h
  PROVE  /\ IsFiniteSet(Lower(h)) /\ IsFiniteSet(HashClass(h))
         /\ Cardinality(Lower(h)) \in Nat /\ Cardinality(HashClass(h)) \in Nat
<1>1. Lower(h) \subseteq ClusterTask /\ HashClass(h) \subseteq ClusterTask
  BY DEF Lower, HashClass
<1> QED
  BY <1>1, TasksFinite, FS_Subset, FS_CardinalityType

\* The tasks before a cut.
LEMMA CutTakes ==
  ASSUME taskHash \in [ClusterTask -> HashValues], NEW h \in HashValues,
         NEW L \in SUBSET ClusterTask,
         \A a \in L, b \in ClusterTask \ L : taskHash[a] <= taskHash[b]
  PROVE  Cardinality(L \cap HashClass(h)) = AmongFirst(h, Cardinality(L))
<1> DEFINE H == HashClass(h)
           low == Lower(h)
<1>1. /\ IsFiniteSet(L) /\ IsFiniteSet(low) /\ IsFiniteSet(H)
      /\ IsFiniteSet(L \cap H) /\ IsFiniteSet(low \cup H)
      /\ Cardinality(L) \in Nat /\ Cardinality(low) \in Nat /\ Cardinality(H) \in Nat
      /\ Cardinality(L \cap H) \in Nat
  <2>1. IsFiniteSet(L) /\ IsFiniteSet(low) /\ IsFiniteSet(H)
    BY TasksFinite, ClassTypes, FS_Subset
  <2> HIDE DEF low, H
  <2>2. IsFiniteSet(L \cap H) /\ IsFiniteSet(low \cup H)
    BY <2>1, FS_Intersection, FS_Union
  <2> QED
    BY <2>1, <2>2, FS_CardinalityType
<1>2. /\ \A t \in ClusterTask : taskHash[t] \in Nat
      /\ h \in Nat /\ HashValues \subseteq Nat
  BY ClusterAssumption
<1>3. low \cap H = {} /\ Cardinality(low \cup H) = Cardinality(low) + Cardinality(H)
  <2>1. \A t \in ClusterTask : ~ (taskHash[t] < h /\ taskHash[t] = h)
    BY <1>2
  <2>2. low \cap H = {}
    BY <2>1 DEF Lower, HashClass
  <2>3. Cardinality(low \cap H) = 0
    BY <2>2, FS_EmptySet
  <2> HIDE DEF low, H
  <2>4. Cardinality(low \cup H) = Cardinality(low) + Cardinality(H) - Cardinality(low \cap H)
    BY <1>1, FS_Union
  <2> QED
    BY <1>1, <2>2, <2>3, <2>4
<1>4. CASE L \subseteq low
  <2>1. L \cap H = {}
    BY <1>3, <1>4
  <2> HIDE DEF low, H
  <2>2. Cardinality(L \cap H) = 0 /\ Cardinality(L) <= Cardinality(low)
    BY <1>1, <1>4, <2>1, FS_EmptySet, FS_Subset
  <2>3. AmongFirst(h, Cardinality(L)) = 0
    BY <2>2 DEF AmongFirst, low
  <2> QED
    BY <2>2, <2>3, Zenon DEF H
<1>5. CASE low \cup H \subseteq L
  <2> HIDE DEF low, H
  <2>1. L \cap H = H
    BY <1>5
  <2>2. Cardinality(low \cup H) <= Cardinality(L)
    BY <1>1, <1>5, FS_Subset
  <2>3. PICK m, n, l : m = Cardinality(low) /\ n = Cardinality(H) /\ l = Cardinality(L)
    OBVIOUS
  <2>4. m \in Nat /\ n \in Nat /\ l \in Nat /\ m + n <= l
    BY <1>1, <1>3, <2>2, <2>3
  <2>5. AmongFirst(h, l) = IF l <= m THEN 0 ELSE IF l >= m + n THEN n ELSE l - m
    BY <2>3 DEF AmongFirst, low, H
  <2>6. AmongFirst(h, l) = n
    BY <2>4, <2>5
  <2>7. Cardinality(L \cap H) = n
    BY <2>1, <2>3, Zenon
  <2> QED
    BY <2>3, <2>6, <2>7, Zenon DEF H
<1>6. CASE ~ (L \subseteq low) /\ ~ (low \cup H \subseteq L)
  <2>1. PICK a \in L : a \notin low
    BY <1>6
  <2>2. PICK b \in low \cup H : b \notin L
    BY <1>6
  <2>3. a \in ClusterTask /\ b \in ClusterTask
    BY <2>1, <2>2 DEF Lower, HashClass
  <2>4. taskHash[a] >= h /\ taskHash[b] <= h
    BY <1>2, <2>1, <2>2, <2>3 DEF Lower, HashClass
  <2>5. low \subseteq L
    <3> SUFFICES ASSUME NEW t \in ClusterTask, taskHash[t] < h, t \notin L PROVE FALSE
      BY DEF Lower
    <3>1. taskHash[a] <= taskHash[t]
      OBVIOUS
    <3> QED
      BY <1>2, <2>3, <2>4, <3>1
  <2>6. L \subseteq low \cup H
    <3> SUFFICES ASSUME NEW t \in L PROVE taskHash[t] < h \/ taskHash[t] = h
      BY DEF Lower, HashClass
    <3>1. taskHash[t] <= taskHash[b]
      BY <2>2, <2>3
    <3> QED
      BY <1>2, <2>3, <2>4, <3>1
  <2> HIDE DEF low, H
  <2>7. L = low \cup (L \cap H) /\ low \cap (L \cap H) = {} /\ L \cap H \subseteq H
    BY <1>3, <2>5, <2>6
  <2>8. Cardinality(L) = Cardinality(low) + Cardinality(L \cap H)
    <3>1. Cardinality(low \cup (L \cap H)) =
            Cardinality(low) + Cardinality(L \cap H) - Cardinality(low \cap (L \cap H))
      BY <1>1, FS_Union
    <3>2. Cardinality(low \cap (L \cap H)) = 0
      BY <2>7, FS_EmptySet
    <3>3. Cardinality(L) = Cardinality(low \cup (L \cap H))
      BY <2>7, Zenon
    <3>4. PICK l, m, c, z, u : /\ l = Cardinality(L) /\ m = Cardinality(low)
                               /\ c = Cardinality(L \cap H)
                               /\ z = Cardinality(low \cap (L \cap H))
                               /\ u = Cardinality(low \cup (L \cap H))
      OBVIOUS
    <3>5. u = m + c - z /\ z = 0 /\ l = u /\ m \in Nat /\ c \in Nat
      BY <1>1, <3>1, <3>2, <3>3, <3>4, Zenon
    <3>6. l = m + c
      BY <3>5
    <3> QED
      BY <3>4, <3>6, Zenon
  <2>9. Cardinality(L \cap H) <= Cardinality(H)
    BY <1>1, <2>7, FS_Subset
  <2>10. PICK m, n, l, c : /\ m = Cardinality(low) /\ n = Cardinality(H)
                           /\ l = Cardinality(L) /\ c = Cardinality(L \cap H)
    OBVIOUS
  <2>11. m \in Nat /\ n \in Nat /\ l = m + c /\ c \in Nat /\ c <= n
    BY <1>1, <2>8, <2>9, <2>10
  <2>12. AmongFirst(h, l) = IF l <= m THEN 0 ELSE IF l >= m + n THEN n ELSE l - m
    BY <2>10 DEF AmongFirst, low, H
  <2>13. AmongFirst(h, l) = c
    BY <2>11, <2>12
  <2> QED
    BY <2>10, <2>13, Zenon DEF H
<1> QED
  BY <1>4, <1>5, <1>6

\* The borders of a partition are in order and within the list, and the upper
\* one is the lower one of the next partition.
LEMMA BordersMeet ==
  ASSUME NEW k \in Node
  PROVE  /\ Border[k] \in Nat /\ High(k) \in Nat
         /\ Border[k] <= High(k)
         /\ High(k) = IF k = NodeCount - 1 THEN Len(ClusterTasks) ELSE Border[k + 1]
         /\ k # NodeCount - 1 => k + 1 \in Node
<1>1. /\ Border \in [Node -> Nat] /\ Border[k] <= Len(ClusterTasks)
      /\ k + 1 \in Node => Border[k] <= Border[k + 1]
  BY ClusterAssumption, SMT DEF ClusterAssumption
<1>2. k # NodeCount - 1 => k + 1 \in Node
  BY ConstantsTyped DEF Node
<1>3. CASE k = NodeCount - 1
  BY <1>1, <1>3, TasksFinite DEF High
<1>4. CASE k # NodeCount - 1
  <2>1. k + 1 \in Node /\ Border[k + 1] \in Nat /\ Border[k] <= Border[k + 1]
    BY <1>1, <1>2, <1>4
  <2>2. Border[k + 1] <= Len(ClusterTasks)
    BY <2>1, ClusterAssumption, SMT DEF ClusterAssumption
  <2>3. PICK x, y : x = Len(ClusterTasks) /\ y = Border[k + 1]
    OBVIOUS
  <2>4. x \in Nat /\ y \in Nat /\ y <= x /\ 0 \in Int /\ x \in Int /\ y \in Int
    BY <2>1, <2>2, <2>3, TasksFinite
  <2>5. Min({x, y}) \in {x, y} /\ \A z \in {x, y} : Min({x, y}) <= z
    <3>1. {x, y} \subseteq Int /\ {x, y} # {} /\ \A z \in {x, y} : 0 <= z
      BY <2>4
    <3> QED
      BY <2>4, <3>1, MinBounded, Zenon
  <2>6. Min({x, y}) = y
    <3>1. PICK m : m = Min({x, y})
      OBVIOUS
    <3>2. m \in {x, y} /\ m <= y
      BY <2>5, <3>1
    <3> QED
      BY <2>4, <3>1, <3>2
  <2> QED
    BY <1>1, <1>2, <1>4, <2>1, <2>3, <2>6 DEF High
<1> QED
  BY <1>3, <1>4

\* The tasks of one hash in a partition: as many as there are between its borders.
LEMMA PartitionTakes ==
  ASSUME taskHash \in [ClusterTask -> HashValues], NEW h \in HashValues,
         NEW k \in Node, NEW S \in Partitions(k)
  PROVE  /\ Cardinality(S \cap HashClass(h)) =
              AmongFirst(h, High(k)) - AmongFirst(h, Border[k])
         /\ Cardinality(S \cap HashClass(h)) \in Nat
<1>1. S \in SUBSET ClusterTask /\ Cardinality(S) = High(k) - Border[k]
  BY DEF Partitions
<1>2. PICK L \in SUBSET (ClusterTask \ S) :
        /\ Cardinality(L) = Border[k]
        /\ \A a \in L, b \in ClusterTask \ L : taskHash[a] <= taskHash[b]
        /\ \A b \in S, c \in ClusterTask \ (L \cup S) : taskHash[b] <= taskHash[c]
  BY DEF Partitions
<1>3. /\ L \in SUBSET ClusterTask /\ L \cup S \in SUBSET ClusterTask /\ L \cap S = {}
      /\ \A a \in L \cup S, b \in ClusterTask \ (L \cup S) : taskHash[a] <= taskHash[b]
  BY <1>1, <1>2
<1>4. IsFiniteSet(L) /\ IsFiniteSet(S)
  BY <1>1, <1>3, TasksFinite, FS_Subset
<1>5. Cardinality(L \cup S) = High(k)
  <2>1. Cardinality(L \cup S) = Cardinality(L) + Cardinality(S) - Cardinality(L \cap S)
    BY <1>4, FS_Union
  <2>2. Cardinality(L \cap S) = 0
    BY <1>3, FS_EmptySet
  <2> QED
    BY <1>1, <1>2, <2>1, <2>2, BordersMeet
<1>6. PICK H : H = HashClass(h)
  OBVIOUS
<1>7. /\ Cardinality((L \cup S) \cap H) = AmongFirst(h, High(k))
      /\ Cardinality(L \cap H) = AmongFirst(h, Border[k])
  BY <1>2, <1>3, <1>5, <1>6, CutTakes
<1>8. /\ IsFiniteSet(L \cap H) /\ IsFiniteSet(S \cap H)
      /\ (L \cup S) \cap H = (L \cap H) \cup (S \cap H)
      /\ (L \cap H) \cap (S \cap H) = {}
  BY <1>3, <1>4, FS_Intersection
<1>9. /\ Cardinality((L \cap H) \cup (S \cap H)) =
           Cardinality(L \cap H) + Cardinality(S \cap H)
             - Cardinality((L \cap H) \cap (S \cap H))
      /\ Cardinality((L \cap H) \cap (S \cap H)) = 0
      /\ Cardinality(L \cap H) \in Nat /\ Cardinality(S \cap H) \in Nat
  BY <1>8, FS_Union, FS_EmptySet, FS_CardinalityType
<1>10. PICK l, s, z, u : /\ l = Cardinality(L \cap H) /\ s = Cardinality(S \cap H)
                         /\ z = Cardinality((L \cap H) \cap (S \cap H))
                         /\ u = Cardinality((L \cap H) \cup (S \cap H))
  OBVIOUS
<1>11. u = l + s - z /\ z = 0 /\ l \in Nat /\ s \in Nat
  BY <1>9, <1>10, Zenon
<1>12. u = AmongFirst(h, High(k)) /\ l = AmongFirst(h, Border[k])
  BY <1>7, <1>8, <1>10, Zenon
<1>13. s = u - l
  BY <1>11
<1> QED
  BY <1>6, <1>10, <1>11, <1>12, <1>13, Zenon

\* Sums of differences between neighbours.
LEMMA Telescope ==
  ASSUME NEW N \in Nat, NEW d, \A n \in 0 .. N : d[n] \in Int,
         NEW f, \A n \in 0 .. N - 1 : f[n] = d[n + 1] - d[n]
  PROVE  SumOf(f, 0 .. N - 1) = d[N] - d[0]
<1> DEFINE H == {n \in 0 .. N : SumOf(f, 0 .. n - 1) = d[n] - d[0]}
<1>1. 0 \in H
  <2>1. 0 .. 0 - 1 = {} /\ 0 \in 0 .. N
    OBVIOUS
  <2>2. SumOf(f, {}) = 0
    BY FS_EmptySet, SumPicks
  <2>3. SumOf(f, 0 .. 0 - 1) = 0
    BY <2>1, <2>2, Zenon
  <2> QED
    BY <2>1, <2>3
<1>2. ASSUME NEW n \in 1 .. N, n - 1 \in H
      PROVE  n \in H
  <2>1. /\ 0 .. n - 1 = (0 .. (n - 1) - 1) \cup {n - 1}
        /\ n - 1 \notin 0 .. (n - 1) - 1 /\ n \in 0 .. N /\ n - 1 \in 0 .. N - 1
        /\ (n - 1) + 1 = n /\ n - 1 \in 0 .. N
    OBVIOUS
  <2>2. IsFiniteSet(0 .. (n - 1) - 1)
    BY FS_Interval
  <2>3. \A m \in (0 .. (n - 1) - 1) \cup {n - 1} : f[m] \in Int
    <3> TAKE m \in (0 .. (n - 1) - 1) \cup {n - 1}
    <3>1. m \in 0 .. N - 1 /\ m \in 0 .. N /\ m + 1 \in 0 .. N
      OBVIOUS
    <3> QED
      BY <3>1
  <2>4. PICK before, last : before = 0 .. (n - 1) - 1 /\ last = n - 1
    OBVIOUS
  <2>5. SumOf(f, before \cup {last}) = SumOf(f, before) + f[last]
    <3>1. last \notin before /\ IsFiniteSet(before) /\ \A m \in before \cup {last} : f[m] \in Int
      BY <2>1, <2>2, <2>3, <2>4, Zenon
    <3> HIDE DEF H
    <3> QED
      BY <3>1, SumWith
  <2>6. SumOf(f, before) = d[n - 1] - d[0]
    BY <1>2, <2>4
  <2>7. f[last] = d[n] - d[n - 1]
    BY <2>1, <2>4
  <2>8. 0 .. n - 1 = before \cup {last}
    BY <2>1, <2>4, Zenon
  <2>9. SumOf(f, 0 .. n - 1) = SumOf(f, before) + f[last]
    BY <2>5, <2>8, Zenon
  <2>10. d[n] \in Int /\ d[n - 1] \in Int /\ d[0] \in Int
    BY <2>1
  <2> QED
    BY <2>1, <2>6, <2>7, <2>9, <2>10
<1>3. \A n \in 0 .. N : n \in H
  <2> HIDE DEF H
  <2> QED
    BY <1>1, <1>2, Induction
<1> QED
  BY <1>3

\* The nodes share out the tasks of one hash.
LEMMA SharesAddUp ==
  ASSUME ShareInv, \A k \in Node : nodeStatus[k] # "new", NEW h \in HashValues
  PROVE  /\ MapThenSumSet(LAMBDA k : Cardinality(partition[k] \cap HashClass(h)), Node)
              = Cardinality(HashClass(h))
         /\ SumOf([k \in Node |-> Cardinality(partition[k] \cap HashClass(h))], Node)
              = Cardinality(HashClass(h))
<1> DEFINE f == [k \in Node |-> Cardinality(partition[k] \cap HashClass(h))]
           d == [n \in 0 .. NodeCount |->
                   AmongFirst(h, IF n = NodeCount THEN Len(ClusterTasks) ELSE Border[n])]
           Folded(g) ==
             g = [s \in SUBSET Node |-> IF s = {} THEN 0
                    ELSE Cardinality(partition[Picked(s)] \cap HashClass(h))
                         + g[s \ {Picked(s)}]]
           g == CHOOSE g : Folded(g)
<1>1. MapThenSumSet(LAMBDA k : Cardinality(partition[k] \cap HashClass(h)), Node) = g[Node]
  BY DEF MapThenSumSet, MapThenFoldSet, Picked
<1>2. taskHash \in [ClusterTask -> HashValues] /\ \A k \in Node : partition[k] \in Partitions(k)
  BY ConstantsTyped DEF ShareInv
<1>3. \A k \in Node : /\ f[k] \in Nat /\ f[k] \in Int
                      /\ f[k] = AmongFirst(h, High(k)) - AmongFirst(h, Border[k])
  BY <1>2, PartitionTakes
<1>4. \A x \in Nat : AmongFirst(h, x) \in Int
  <2>1. PICK m, n : m = Cardinality(Lower(h)) /\ n = Cardinality(HashClass(h))
    OBVIOUS
  <2>2. m \in Nat /\ n \in Nat
    BY <2>1, ClassTypes
  <2>3. \A x \in Nat : AmongFirst(h, x) = IF x <= m THEN 0 ELSE IF x >= m + n THEN n ELSE x - m
    BY <2>1 DEF AmongFirst
  <2> QED
    BY <2>2, <2>3
<1>5. Node = 0 .. NodeCount - 1 /\ NodeCount \in Nat \ {0} /\ IsFiniteSet(Node)
  BY ConstantsTyped, FS_Interval DEF Node
<1>6. \A n \in 0 .. NodeCount : d[n] \in Int
  <2> TAKE n \in 0 .. NodeCount
  <2>1. n # NodeCount => n \in Node
    BY <1>5
  <2>2. (IF n = NodeCount THEN Len(ClusterTasks) ELSE Border[n]) \in Nat
    BY <2>1, BordersMeet, TasksFinite
  <2> QED
    BY <1>4, <2>2
<1>7. \A n \in 0 .. NodeCount - 1 : f[n] = d[n + 1] - d[n]
  <2> TAKE n \in 0 .. NodeCount - 1
  <2>1. /\ n \in Node /\ n # NodeCount /\ n \in 0 .. NodeCount /\ n + 1 \in 0 .. NodeCount
        /\ (n = NodeCount - 1) = (n + 1 = NodeCount)
    BY <1>5
  <2>2. d[n] = AmongFirst(h, Border[n])
    BY <2>1
  <2>3. d[n + 1] = AmongFirst(h, High(n))
    BY <2>1, BordersMeet
  <2> HIDE DEF f, d
  <2> QED
    BY <1>3, <2>1, <2>2, <2>3
<1>8. \A s \in SUBSET Node : s # {} =>
        f[Picked(s)] = Cardinality(partition[Picked(s)] \cap HashClass(h))
  <2>1. \A s \in SUBSET Node : s # {} => Picked(s) \in Node
    BY DEF Picked
  <2> QED
    BY <2>1
<1>17. PICK shares : shares = [k \in Node |-> Cardinality(partition[k] \cap HashClass(h))]
                     /\ shares = f
  OBVIOUS
<1> HIDE DEF f, d
<1>9. SumOf(f, 0 .. NodeCount - 1) = d[NodeCount] - d[0]
  BY <1>5, <1>6, <1>7, Telescope
<1>10. d[0] = 0
  <2>1. d[0] = AmongFirst(h, Border[0]) /\ Border[0] = 0
    BY <1>5, ClusterAssumption DEF d
  <2>2. 0 <= Cardinality(Lower(h))
    BY ClassTypes
  <2> QED
    BY <2>1, <2>2 DEF AmongFirst
<1>11. d[NodeCount] = Cardinality(HashClass(h))
  <2>1. d[NodeCount] = AmongFirst(h, Len(ClusterTasks))
    BY <1>5 DEF d
  <2>2. Cardinality(ClusterTask \cap HashClass(h)) = AmongFirst(h, Cardinality(ClusterTask))
    BY <1>2, CutTakes
  <2>3. ClusterTask \cap HashClass(h) = HashClass(h)
    BY DEF HashClass
  <2> QED
    BY <2>1, <2>2, <2>3, TasksFinite
<1>12. ASSUME NEW j PROVE SumsOver(j, f, Node) <=> Folded(j)
  BY <1>8 DEF SumsOver
<1>13. \E j : Folded(j)
  <2>1. \E j : SumsOver(j, f, Node)
    BY <1>3, <1>5, SumsExist
  <2> HIDE DEF Folded
  <2> QED
    BY <1>12, <2>1
<1>14. SumsOver(g, f, Node)
  <2> HIDE DEF Folded
  <2> QED
    BY <1>12, <1>13
<1> HIDE DEF g
<1>15. g[Node] = SumOf(f, Node)
  BY <1>3, <1>5, <1>14, FoldIsSum
<1>16. d[NodeCount] \in Int
  BY <1>5, <1>6
<1>18. SumOf(f, Node) = Cardinality(HashClass(h)) /\ g[Node] = Cardinality(HashClass(h))
  BY <1>5, <1>9, <1>10, <1>11, <1>15, <1>16
<1> QED
  BY <1>1, <1>17, <1>18

\* A sum of zeros and ones that is one has one one.
LEMMA OneOne ==
  ASSUME NEW S, IsFiniteSet(S), NEW f, \A x \in S : f[x] \in {0, 1}, SumOf(f, S) = 1
  PROVE  \E x \in S : f[x] = 1 /\ \A y \in S \ {x} : f[y] = 0
<1>1. \A T \in SUBSET S : IsFiniteSet(T) /\ \A x \in T : f[x] \in Int /\ f[x] \in Nat
  BY FS_Subset
<1> DEFINE H == {T \in SUBSET S : (\A x \in T : f[x] = 0) => SumOf(f, T) = 0}
<1>2. {} \in H
  <2>1. SumOf(f, {}) = 0
    BY FS_EmptySet, SumPicks
  <2> QED
    BY <2>1
<1>3. \A T \in SUBSET S : T # {} /\ (\A x \in T : T \ {x} \in H) => T \in H
  <2> SUFFICES ASSUME NEW T \in SUBSET S, T # {}, \A x \in T : T \ {x} \in H,
                      \A x \in T : f[x] = 0
               PROVE  SumOf(f, T) = 0
    OBVIOUS
  <2>1. PICK x \in T : TRUE
    OBVIOUS
  <2>2. SumOf(f, T) = f[x] + SumOf(f, T \ {x}) /\ SumOf(f, T \ {x}) \in Int
    <3> HIDE DEF H
    <3> QED
      BY <1>1, SumWithout
  <2>3. SumOf(f, T \ {x}) = 0
    OBVIOUS
  <2>4. f[x] = 0
    OBVIOUS
  <2> HIDE DEF H
  <2> QED
    BY <2>2, <2>3, <2>4
<1>4. \A T \in SUBSET S : T \in H
  <2> HIDE DEF H
  <2> QED
    BY <1>2, <1>3, SetInduction
<1>5. PICK x \in S : f[x] = 1
  <2>1. S \in SUBSET S
    OBVIOUS
  <2>2. (\A x \in S : f[x] = 0) => SumOf(f, S) = 0
    BY <1>4, <2>1
  <2>3. ~ (\A x \in S : f[x] = 0)
    <3> HIDE DEF H
    <3> QED
      BY <2>2
  <2> HIDE DEF H
  <2> QED
    BY <2>3
<1> HIDE DEF H
<1>6. ASSUME NEW y \in S \ {x}, f[y] = 1
      PROVE  FALSE
  <2>1. SumOf(f, S) = f[x] + SumOf(f, S \ {x}) /\ SumOf(f, S \ {x}) \in Int
    BY <1>1, SumWithout
  <2>2. PICK rest : rest = S \ {x}
    OBVIOUS
  <2>3. /\ SumOf(f, rest) = f[y] + SumOf(f, rest \ {y})
        /\ SumOf(f, rest \ {y}) \in Int
    BY <1>1, <2>2, SumWithout
  <2>4. SumOf(f, rest \ {y}) \in Nat
    <3>1. rest \ {y} \in SUBSET S /\ rest \ {y} \in SUBSET (rest \ {y})
      BY <2>2
    <3> QED
      BY <1>1, <3>1, SumsGrow
  <2>5. SumOf(f, rest) = 0
    BY <1>5, <2>1, <2>2
  <2> QED
    BY <1>6, <2>3, <2>4, <2>5
<1> QED
  BY <1>5, <1>6

\* A task that is alone in its hash has one node that runs it.
LEMMA AloneIsOnce ==
  ASSUME ShareInv, AllStarted, NEW t \in ClusterTask, HashClass(taskHash[t]) = {t}
  PROVE  \E k \in Node : Runners(t) = {k}
<1> DEFINE f == [k \in Node |-> Cardinality(partition[k] \cap HashClass(taskHash[t]))]
<1>1. taskHash \in [ClusterTask -> HashValues] /\ taskHash[t] \in HashValues
  BY ConstantsTyped DEF ShareInv, AllStarted
<1>2. IsFiniteSet(Node)
  BY ConstantsTyped, FS_Interval DEF Node
<1>3. \A k \in Node : f[k] = IF t \in partition[k] THEN 1 ELSE 0
  <2> TAKE k \in Node
  <2>1. CASE t \in partition[k]
    <3>1. partition[k] \cap HashClass(taskHash[t]) = {t}
      BY <2>1
    <3>2. Cardinality({t}) = 1
      BY FS_Singleton
    <3> QED
      BY <2>1, <3>1, <3>2
  <2>2. CASE t \notin partition[k]
    <3>1. partition[k] \cap HashClass(taskHash[t]) = {}
      BY <2>2
    <3> QED
      BY <2>2, <3>1, FS_EmptySet
  <2> QED
    BY <2>1, <2>2
<1>4. SumOf(f, Node) = 1
  <2>1. SumOf(f, Node) = Cardinality(HashClass(taskHash[t]))
    BY <1>1, SharesAddUp DEF AllStarted
  <2>2. Cardinality({t}) = 1
    BY FS_Singleton
  <2> QED
    BY <2>1, <2>2
<1> HIDE DEF f
<1>5. PICK k \in Node : f[k] = 1 /\ \A j \in Node \ {k} : f[j] = 0
  BY <1>2, <1>3, <1>4, OneOne
<1>6. t \in partition[k] /\ \A j \in Node \ {k} : t \notin partition[j]
  BY <1>3, <1>5
<1> QED
  BY <1>6 DEF Runners

-----------------------------------------------------------------------------
CompleteInv == MergeInv /\ LinkInv /\ ErrorInv /\ ShareInv

LEMMA CompleteInvariant == ClusterSpec => []CompleteInv
<1>1. ClusterInit => CompleteInv
  BY InitMerge, InitLinks, InitErrors, InitShares DEF CompleteInv
<1>2. CompleteInv /\ [ClusterNext]_clusterVars => CompleteInv'
  BY NextMerge, NextLinks, NextErrors, NextShares DEF CompleteInv
<1> QED
  BY <1>1, <1>2, PTL DEF ClusterSpec

(***************************************************************************)
(* The borders of the partitions meet, for every number of nodes and of    *)
(* tasks, every hash of them and however each node arranges tied tasks: of *)
(* every hash as many tasks are run as there are, and a task that is alone *)
(* in its hash is run by one node.  (Tied tasks may be run twice or not at *)
(* all, see EveryTaskOnce.)                                                *)
(***************************************************************************)
THEOREM PartitionsMeet == ClusterSpec => []TasksShared
<1>1. CompleteInv => TasksShared
  BY SharesAddUp, AloneIsOnce DEF CompleteInv, TasksShared, AllStarted
<1> QED
  BY <1>1, CompleteInvariant, PTL

(***************************************************************************)
(* The campaign is accounted for, for every list of tasks, also of tasks   *)
(* that share a name: a node that ends has a result or an error for all of *)
(* its tasks, results keep their name and key-values but for those without *)
(* any, and the checker misses in the merged database what no node has     *)
(* stored, up to such results.                                             *)
(***************************************************************************)
THEOREM CampaignIsComplete == ClusterSpec => []ClusterComplete
<1>1. CompleteInv => ClusterComplete
  <2> SUFFICES ASSUME CompleteInv PROVE ClusterComplete
    OBVIOUS
  <2>1. \A k \in Node :
          nodeStatus[k] = "ended" =>
            Cardinality({t \in partition[k] : ~ Found(k, t)}) <= nodeErrors[k]
    BY EndedIsAnswered DEF CompleteInv
  <2>2. \A link \in destLinks :
          /\ destConfigs[link[2]].name = ClusterTasks[link[1]].name
          /\ destConfigs[link[2]].kvs \in MergedKvs(link[1])
    BY DEF CompleteInv, LinkInv, DestTyped, Fits
  <2>3. mergePhase = "done" =>
          \A t \in ClusterTask :
            IF t \in Missing
            THEN \A u \in StoredTasks :
                   SameInstance(u, t) => MergedKvs(u) # {ClusterTasks[t].kvs}
            ELSE \E u \in StoredTasks :
                   SameInstance(u, t) /\ ClusterTasks[t].kvs \in MergedKvs(u)
    BY MissingIsUnstored DEF CompleteInv
  <2> QED
    BY <2>1, <2>2, <2>3 DEF ClusterComplete
<1> QED
  BY <1>1, CompleteInvariant, PTL

=============================================================================
