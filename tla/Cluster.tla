------------------------------- MODULE Cluster -------------------------------
(***************************************************************************)
(* A campaign on several nodes (scripts/slurm_partitioned_runner.py): every *)
(* node runs one partition of the tasks against a database of its own, may *)
(* be lost and be launched again, and the databases are merged into one in *)
(* the end (tools/dbmerger.cpp), by a process that may be interrupted and  *)
(* started again.  The completeness checker then reads the merged database. *)
(*                                                                         *)
(* A node is one process here; its threads and its database under faults   *)
(* are the subject of module Campaign.  A task is run by one solver.       *)
(***************************************************************************)
EXTENDS Naturals, Sequences, FiniteSets, FiniteSetsExt

CONSTANTS
  ClusterTasks,   \* the tasks: instance, and name and key-values of the config
  NodeCount,      \* option --partition-count; the nodes count from zero
  Border,         \* floor(partition_size * k), a product of doubles
  HashValues,     \* the values of the hash that partitions are made by
  ChunkSize,      \* CHUNK_SIZE, and the LIMIT of the query
  MaxNodeLosses,  \* bounds how often nodes are lost
  MaxMergeLosses  \* bounds how often the merger is interrupted

ClusterTask == 1 .. Len(ClusterTasks)
Node == 0 .. NodeCount - 1

\* A node computes the lower border of its partition by the same expression by
\* which its predecessor computes the upper one; whatever the product is rounded
\* to, it is the same for both.
ASSUME ClusterAssumption ==
  /\ ClusterTasks \in Seq([inst: STRING, name: STRING, kvs: SUBSET STRING])
  /\ NodeCount \in Nat \ {0} /\ ChunkSize \in Nat \ {0}
  /\ MaxNodeLosses \in Nat /\ MaxMergeLosses \in Nat
  /\ Border \in [Node -> Nat] /\ Border[0] = 0
  /\ \A k \in Node : /\ Border[k] <= Len(ClusterTasks)
                     /\ k + 1 \in Node => Border[k] <= Border[k + 1]
  /\ HashValues \subseteq Nat

VARIABLES
  taskHash,     \* hash(file) ^ hash(SolverConfig) of every task, once submitted
  partition,    \* remaining_tasks of a node after its constructor
  remaining,    \* remaining_tasks of a node
  nodeStatus,   \* "new", "running", "again" (with -u), "lost", "ended"
  nodeRows,     \* the result rows of a node's database: the task of each
  nodeErrors,   \* how many error rows it has
  nodeLosses,
  mergePhase,   \* "off", "load", "copy", "errors", "lost", "done"
  mergeSource,  \* the source copy_from() is reading
  firstId,      \* first_id
  chunk,        \* the least and the greatest id in the queue
  copies,       \* how often a row of a source is in the destination
  errorCopies,  \* how often the error rows of a source are
  destConfigs,  \* the rows of DBConfig in the destination
  destLinks,    \* the tasks of its results, each with the row of its config
  mergeLosses

nodeVars == <<taskHash, partition, remaining, nodeStatus, nodeRows, nodeErrors,
              nodeLosses>>
destVars == <<copies, errorCopies, destConfigs, destLinks>>
mergeVars == <<mergePhase, mergeSource, firstId, chunk, mergeLosses>>
clusterVars == <<nodeVars, destVars, mergeVars>>

ClusterInit ==
  /\ taskHash = <<>>
  /\ partition = [k \in Node |-> {}]
  /\ remaining = [k \in Node |-> {}]
  /\ nodeStatus = [k \in Node |-> "new"]
  /\ nodeRows = [k \in Node |-> <<>>]
  /\ nodeErrors = [k \in Node |-> 0]
  /\ nodeLosses = 0
  /\ mergePhase = "off"
  /\ mergeSource = 0
  /\ firstId = 0
  /\ chunk = <<1, 0>>
  /\ copies = [k \in Node |-> <<>>]
  /\ errorCopies = [k \in Node |-> 0]
  /\ destConfigs = <<>>
  /\ destLinks = {}
  /\ mergeLosses = 0

\* The task list and the options are the same for all nodes.  The hash leaves out
\* the seed, and it may collide: the tasks may have any hashes.
Submit ==
  /\ taskHash = <<>>
  /\ taskHash' \in [ClusterTask -> HashValues]
  /\ UNCHANGED <<partition, remaining, nodeStatus, nodeRows, nodeErrors,
                 nodeLosses, destVars, mergeVars>>

-----------------------------------------------------------------------------
(* The constructor of Parallelizer, given a partition number                 *)

\* Mutant: the borders count the task they name.
ClosedHigh(k) ==
  IF k = NodeCount - 1 THEN Len(ClusterTasks)
  ELSE Min({Len(ClusterTasks), Border[k + 1] + 1})

\* The last partition takes all that is left.
High(k) ==
  IF k = NodeCount - 1 THEN Len(ClusterTasks)
  ELSE Min({Len(ClusterTasks), Border[k + 1]})

\* What nth_element(), called for the lower border and then for the upper one,
\* leaves between them.  Of tasks with equal hashes any may be there; each node
\* arranges them on its own.
Partitions(k) ==
  {S \in SUBSET ClusterTask :
     /\ Cardinality(S) = High(k) - Border[k]
     /\ \E L \in SUBSET (ClusterTask \ S) :
          /\ Cardinality(L) = Border[k]
          /\ \A a \in L, b \in ClusterTask \ L : taskHash[a] <= taskHash[b]
          /\ \A b \in S, c \in ClusterTask \ (L \cup S) :
               taskHash[b] <= taskHash[c]}

Start(k) ==
  /\ taskHash # <<>> /\ nodeStatus[k] = "new"
  /\ \E S \in Partitions(k) :
       /\ partition' = [partition EXCEPT ![k] = S]
       /\ remaining' = [remaining EXCEPT ![k] = S]
  /\ nodeStatus' = [nodeStatus EXCEPT ![k] = "running"]
  /\ UNCHANGED <<taskHash, nodeRows, nodeErrors, nodeLosses, destVars, mergeVars>>

\* The rows that check_result() takes for the result of a task.
Found(k, t) ==
  \E n \in DOMAIN nodeRows[k] : ClusterTasks[nodeRows[k][n]] = ClusterTasks[t]

\* A solver run ends with a result or with an error; with -u it is skipped if
\* the database has a result.
RunTask(k) ==
  /\ nodeStatus[k] \in {"running", "again"}
  /\ \E t \in remaining[k] :
       /\ remaining' = [remaining EXCEPT ![k] = @ \ {t}]
       /\ IF nodeStatus[k] = "again" /\ Found(k, t)
          THEN UNCHANGED <<nodeRows, nodeErrors>>
          ELSE \/ /\ nodeRows' = [nodeRows EXCEPT ![k] = Append(@, t)]
                  /\ UNCHANGED nodeErrors
               \/ /\ nodeErrors' = [nodeErrors EXCEPT ![k] = @ + 1]
                  /\ UNCHANGED nodeRows
  /\ UNCHANGED <<taskHash, partition, nodeStatus, nodeLosses, destVars, mergeVars>>

EndNode(k) ==
  /\ nodeStatus[k] \in {"running", "again"} /\ remaining[k] = {}
  /\ nodeStatus' = [nodeStatus EXCEPT ![k] = "ended"]
  /\ UNCHANGED <<taskHash, partition, remaining, nodeRows, nodeErrors, nodeLosses,
                 destVars, mergeVars>>

LoseNode(k) ==
  /\ nodeStatus[k] \in {"running", "again"} /\ nodeLosses < MaxNodeLosses
  /\ nodeStatus' = [nodeStatus EXCEPT ![k] = "lost"]
  /\ nodeLosses' = nodeLosses + 1
  /\ UNCHANGED <<taskHash, partition, remaining, nodeRows, nodeErrors, destVars,
                 mergeVars>>

\* The same program on the same list arranges it the same way once more.
Relaunch(k) ==
  /\ nodeStatus[k] = "lost" /\ mergePhase = "off"
  /\ nodeStatus' = [nodeStatus EXCEPT ![k] = "again"]
  /\ remaining' = [remaining EXCEPT ![k] = partition[k]]
  /\ UNCHANGED <<taskHash, partition, nodeRows, nodeErrors, nodeLosses, destVars,
                 mergeVars>>

-----------------------------------------------------------------------------
(* dbmerger: merge() for one source after the other                          *)

\* Somebody starts the merger once no node is running any more.
StartMerge ==
  /\ mergePhase = "off"
  /\ \A k \in Node : nodeStatus[k] \in {"ended", "lost"}
  /\ mergePhase' = "load"
  /\ copies' = [k \in Node |-> [id \in DOMAIN nodeRows[k] |-> 0]]
  /\ UNCHANGED <<nodeVars, errorCopies, destConfigs, destLinks, mergeSource,
                 firstId, chunk, mergeLosses>>

LaterId(a, b) == IF a < b THEN b ELSE a

\* Mutant: the next query begins with the last row of this one.
LoadChunkAgain ==
  LET least    == LaterId(firstId, 1)
      rows     == Len(nodeRows[mergeSource])
      greatest == IF least + ChunkSize - 1 < rows
                  THEN least + ChunkSize - 1 ELSE rows
  IN  /\ mergePhase = "load"
      /\ mergePhase' = "copy"
      /\ chunk' = <<least, greatest>>
      /\ firstId' = LaterId(firstId, greatest)
      /\ UNCHANGED <<nodeVars, destVars, mergeSource, mergeLosses>>

\* The results from first_id on, in the order of their ids, and no more than
\* the limit.  The ids of a database count from one.
LoadChunk ==
  LET least    == LaterId(firstId, 1)
      rows     == Len(nodeRows[mergeSource])
      greatest == IF least + ChunkSize - 1 < rows
                  THEN least + ChunkSize - 1 ELSE rows
  IN  /\ mergePhase = "load"
      /\ mergePhase' = "copy"
      /\ chunk' = <<least, greatest>>
      /\ firstId' = LaterId(firstId, greatest + 1)
      /\ UNCHANGED <<nodeVars, destVars, mergeSource, mergeLosses>>

Loaded == chunk[1] .. chunk[2]

\* find_equivalent_config(): a row that this session has written is found in
\* the cache of the session, where it has no entries.
Entries(config) == IF config.cached THEN {} ELSE config.kvs

\* Mutant: the key-values are not compared.
EquivalentByName(configs, t) ==
  {r \in DOMAIN configs : configs[r].name = ClusterTasks[t].name}

Equivalent(configs, t) ==
  {r \in DOMAIN configs : /\ configs[r].name = ClusterTasks[t].name
                          /\ Entries(configs[r]) = ClusterTasks[t].kvs}

\* copy_result() and copy_config() for the queue, from its back; the rows of
\* DBConfig and the links of the results so far.
Copied ==
  LET CopiedBack[j \in 0 .. Cardinality(Loaded)] ==
        IF j = 0 THEN <<destConfigs, destLinks>>
        ELSE LET before == CopiedBack[j - 1]
                 t      == nodeRows[mergeSource][chunk[2] - j + 1]
                 found  == Equivalent(before[1], t)
             IN  IF found # {}
                 THEN <<before[1], before[2] \cup {<<t, Min(found)>>}>>
                 ELSE <<Append(before[1], [name |-> ClusterTasks[t].name,
                                           kvs |-> ClusterTasks[t].kvs,
                                           cached |-> TRUE]),
                        before[2] \cup {<<t, Len(before[1]) + 1>>}>>
  IN  CopiedBack[Cardinality(Loaded)]

\* One transaction of the destination; a chunk that is not full is the last.
CopyChunk ==
  /\ mergePhase = "copy"
  /\ copies' = [copies EXCEPT ![mergeSource] =
                  [id \in DOMAIN @ |-> IF id \in Loaded THEN @[id] + 1 ELSE @[id]]]
  /\ destConfigs' = Copied[1]
  /\ destLinks' = Copied[2]
  /\ mergePhase' = IF chunk[2] + 1 - chunk[1] < ChunkSize THEN "errors" ELSE "load"
  /\ UNCHANGED <<nodeVars, errorCopies, mergeSource, firstId, chunk, mergeLosses>>

\* The session ends with the source, and its cache with it.
SessionEnds == [r \in DOMAIN destConfigs |-> [destConfigs[r] EXCEPT !.cached = FALSE]]

CopyErrors ==
  /\ mergePhase = "errors"
  /\ errorCopies' = [errorCopies EXCEPT ![mergeSource] = @ + 1]
  /\ destConfigs' = SessionEnds
  /\ IF mergeSource = NodeCount - 1
     THEN mergePhase' = "done" /\ UNCHANGED mergeSource
     ELSE mergePhase' = "load" /\ mergeSource' = mergeSource + 1
  /\ firstId' = 0
  /\ UNCHANGED <<nodeVars, copies, destLinks, chunk, mergeLosses>>

\* The transactions that have committed stay.
LoseMerge ==
  /\ mergePhase \in {"load", "copy", "errors"} /\ mergeLosses < MaxMergeLosses
  /\ mergePhase' = "lost"
  /\ mergeLosses' = mergeLosses + 1
  /\ destConfigs' = SessionEnds
  /\ UNCHANGED <<nodeVars, copies, errorCopies, destLinks, mergeSource, firstId,
                 chunk>>

RestartMerge ==
  /\ mergePhase = "lost"
  /\ mergePhase' = "load"
  /\ mergeSource' = 0
  /\ firstId' = 0
  /\ UNCHANGED <<nodeVars, destVars, chunk, mergeLosses>>

ClusterNext ==
  \/ Submit \/ StartMerge \/ LoadChunk \/ CopyChunk \/ CopyErrors
  \/ LoseMerge \/ RestartMerge
  \/ \E k \in Node : Start(k) \/ RunTask(k) \/ EndNode(k) \/ LoseNode(k) \/ Relaunch(k)

ClusterSpec == ClusterInit /\ [][ClusterNext]_clusterVars

-----------------------------------------------------------------------------
\* CompletenessChecker::check() on the merged database: it looks at the
\* instance and the key-values, not at the name.
Missing ==
  {t \in ClusterTask :
     ~ \E link \in destLinks :
         /\ ClusterTasks[link[1]].inst = ClusterTasks[t].inst
         /\ destConfigs[link[2]].kvs = ClusterTasks[t].kvs}

HashClass(h) == {t \in ClusterTask : taskHash[t] = h}

\* The nodes whose partition has the task.
Runners(t) == {k \in Node : t \in partition[k]}

AllStarted == \A k \in Node : nodeStatus[k] # "new"

(***************************************************************************)
(* The borders of the partitions meet: of the tasks with one hash value as *)
(* many are in the partitions as there are, so no task is run twice but    *)
(* for another of its hash that is not run at all; and a task that shares  *)
(* its hash with none is in exactly one partition.                         *)
(***************************************************************************)
TasksShared ==
  AllStarted =>
    /\ \A h \in HashValues :
         MapThenSumSet(LAMBDA k : Cardinality(partition[k] \cap HashClass(h)), Node)
           = Cardinality(HashClass(h))
    /\ \A t \in ClusterTask :
         HashClass(taskHash[t]) = {t} => \E k \in Node : Runners(t) = {k}

(***************************************************************************)
(* What the help text says of --partition-count: the tasks are split into  *)
(* the partitions, so when all nodes have started every task is in exactly *)
(* one of them.  It does not hold for tasks with equal hashes: every node  *)
(* arranges them on its own.                                               *)
(***************************************************************************)
EveryTaskOnce ==
  AllStarted => \A t \in ClusterTask : \E k \in Node : Runners(t) = {k}

\* The tasks that some node has stored a result of.
StoredTasks == UNION {{nodeRows[k][n] : n \in DOMAIN nodeRows[k]} : k \in Node}

\* The key-values that a result of task t may have in the merged database: its
\* own; and if it has none, those of any task of its name, as a configuration in
\* the cache of the session is taken for one without entries.
MergedKvs(t) ==
  {ClusterTasks[u].kvs :
     u \in {v \in ClusterTask : /\ ClusterTasks[v].name = ClusterTasks[t].name
                                /\ \/ ClusterTasks[t].kvs = {}
                                   \/ ClusterTasks[v].kvs = ClusterTasks[t].kvs}}

SameInstance(t, u) == ClusterTasks[t].inst = ClusterTasks[u].inst

(***************************************************************************)
(* The campaign is accounted for.  A node that has ended holds a result or *)
(* an error for every task of its partition.  A copied result refers to a  *)
(* configuration of its name and its key-values; only a result without     *)
(* key-values may refer to another one of its name.  And so the checker    *)
(* misses no task with a stored result, and reports no other as done, but  *)
(* for such results.                                                       *)
(***************************************************************************)
ClusterComplete ==
  /\ \A k \in Node :
       nodeStatus[k] = "ended" =>
         Cardinality({t \in partition[k] : ~ Found(k, t)}) <= nodeErrors[k]
  /\ \A link \in destLinks :
       /\ destConfigs[link[2]].name = ClusterTasks[link[1]].name
       /\ destConfigs[link[2]].kvs \in MergedKvs(link[1])
  /\ mergePhase = "done" =>
       \A t \in ClusterTask :
         IF t \in Missing
         THEN \A u \in StoredTasks :
                SameInstance(u, t) => MergedKvs(u) # {ClusterTasks[t].kvs}
         ELSE \E u \in StoredTasks :
                SameInstance(u, t) /\ ClusterTasks[t].kvs \in MergedKvs(u)

(***************************************************************************)
(* The merger copies in chunks, by ids, and loses nothing between two      *)
(* chunks: when it has ended, all rows of all sources have been copied,    *)
(* and none more often than the merger was started; so exactly once if it  *)
(* was not interrupted.                                                    *)
(***************************************************************************)
MergedOnce ==
  \A k \in Node :
    /\ mergePhase # "off" => \A id \in DOMAIN nodeRows[k] : copies[k][id] <= mergeLosses + 1
    /\ errorCopies[k] <= mergeLosses + 1
    /\ mergePhase = "done" =>
         /\ \A id \in DOMAIN nodeRows[k] : copies[k][id] >= 1
         /\ errorCopies[k] >= 1

=============================================================================
