-------------------------------- MODULE Swag --------------------------------
(***************************************************************************)
(* The search of the SWAG solver.  It keeps a graph of the lag edges and of *)
(* edges it inserted itself, and for every job a window from its earliest   *)
(* start to its latest finish.  An iteration inserts one edge between two   *)
(* jobs that overlap at the peak of the usage, provided that their windows  *)
(* admit it, and moves the windows along the graph.  What lies beyond the   *)
(* active range is moved later.  When no edge fits, inserted edges are      *)
(* deleted to make room for one, or everything is reset.                    *)
(*                                                                          *)
(* The queues of the propagation are stacks and are modelled as such; the   *)
(* order in which the neighbours of one job are pushed depends on the       *)
(* layout of the adjacency lists and is left open.                          *)
(***************************************************************************)
EXTENDS Schedules, Sequences, Functions

CONSTANTS
  Instances,             \* the instances that are solved
  DeletionTrials,        \* SWAGSolver::deletion_trials
  DeletionsBeforeReset,  \* SWAGSolver::deletions_before_reset
  ForceAfter             \* SWAGSolver::force_complete_push_after

ASSUME InstancesAssumption ==
  Instances \subseteq {i \in Instance : Solvable(i)}

ASSUME ParametersAssumption ==
  /\ DeletionTrials \in Nat
  /\ DeletionsBeforeReset \in Nat
  /\ ForceAfter \in Nat

\* best_score before there is one: numeric_limits<double>::max().
NoScore == -1

VARIABLES
  inst,        \* the instance that is solved
  pc,          \* the function or loop that is running
  edges,       \* the edges that are not permanent
  es, lf,      \* earliest_starts, latest_finishs
  esQueue,     \* push_es_forward_queue or rebuild_es_forward_queue
  lfQueue,     \* push_lf_backward_queue or rebuild_lf_backward_queue
  esLate,      \* push_es_forward_out_of_range
  lfLate,      \* push_lf_backward_out_of_range
  force,       \* the argument force_complete of the running propagation
  active,      \* active_range
  jobs,        \* candidates_buf
  candidates,  \* candidate_edge_buf
  remaining,   \* deletions_remaining
  sincePush,   \* iteration_count - last_complete_push
  first,       \* is this the first iteration
  baseES, baseLF,   \* base_earliest_starts, base_latest_finishs
  changed,     \* changed_nodes_buf
  pos,         \* the start times in the sky line
  best, bestScore   \* best_start_times, best_score

vars == <<inst, pc, edges, es, lf, esQueue, lfQueue, esLate, lfLate, force,
          active, jobs, candidates, remaining, sincePush, first, baseES, baseLF,
          changed, pos, best, bestScore>>

windows  == <<es, lf>>
queues   == <<esQueue, lfQueue, esLate, lfLate>>
search   == <<jobs, candidates, remaining, sincePush, first>>
base     == <<baseES, baseLF>>
recorded == <<best, bestScore>>

-----------------------------------------------------------------------------
(* The graph and its values                                                *)

Graph == inst.lag \cup edges

Succ(v) == {w \in Job : <<v, w>> \in Graph}
Pred(v) == {u \in Job : <<u, v>> \in Graph}

Duration(v) == inst.duration[v]

\* All sequences that list every element of S once.
Orders(S) == {o \in [1 .. Cardinality(S) -> S] : Range(o) = S}

Front(q) == SubSeq(q, 1, Len(q) - 1)
Last(q)  == q[Len(q)]

\* build_candidate_jobs(): the jobs that touch the range.
InRange(v, r) == es[v] <= r[2] /\ es[v] + Duration(v) >= r[1]

CandidateJobs(r) == {v \in Job : InRange(v, r)}

\* An edge from s to t leaves enough room before the latest finish of t.
Fits(s, t) == es[s] + Duration(s) + Duration(t) <= lf[t]

\* Mutant: jobs that touch are taken to overlap.
OverlapTouching(s, t) ==
  es[s] <= es[t] + Duration(t) /\ es[t] <= es[s] + Duration(s)

Overlap(s, t) ==
  es[s] < es[t] + Duration(t) /\ es[t] < es[s] + Duration(s)

\* build_candidate_edges(): the pairs of candidate jobs of which the one that
\* starts later does so before the other ends.
CandidateEdges(r) ==
  {e \in CandidateJobs(r) \X CandidateJobs(r) :
     /\ e[1] # e[2]
     /\ \/ es[e[1]] <= es[e[2]] /\ es[e[2]] < es[e[1]] + Duration(e[1])
        \/ es[e[2]] <= es[e[1]] /\ es[e[1]] < es[e[2]] + Duration(e[2])
     /\ Fits(e[1], e[2])}

-----------------------------------------------------------------------------
(* Initialisation                                                          *)

Init ==
  /\ inst \in Instances
  /\ pc = "InitES"
  /\ edges = {}
  /\ es = inst.release /\ lf = inst.deadline
  /\ esQueue = [v \in Job |-> v] /\ lfQueue = [v \in Job |-> v]
  /\ esLate = <<>> /\ lfLate = <<>>
  /\ force = TRUE
  /\ active = <<0, 0>>
  /\ jobs = {} /\ candidates = {}
  /\ remaining = DeletionsBeforeReset
  /\ sincePush = 0 /\ first = TRUE
  /\ baseES = [v \in Job |-> 0] /\ baseLF = [v \in Job |-> 0]
  /\ changed = {}
  /\ pos = [v \in Job |-> 0]
  /\ best = [v \in Job |-> 0] /\ bestScore = NoScore

\* initialize_times(): first the starts, then the finishs.
InitTurn ==
  /\ pc = "InitES" /\ esQueue = <<>>
  /\ pc' = "InitLF"
  /\ UNCHANGED <<inst, edges, windows, queues, force, active, search, base,
                 changed, pos, recorded>>

\* The windows are the base of every reset; initialize_skyline().
InitEnd ==
  /\ pc = "InitLF" /\ lfQueue = <<>>
  /\ baseES' = es /\ baseLF' = lf
  /\ best' = es
  /\ pos' = es
  /\ active' \in PeakRanges(inst, es)
  /\ pc' = "Iterate"
  /\ UNCHANGED <<inst, edges, windows, queues, force, search, changed,
                 bestScore>>

-----------------------------------------------------------------------------
(* Propagation                                                             *)

\* Mutant: the wrong jobs are put aside.
BehindInside(w) == es[w] <= active[2]

\* can_delay: a job behind (before) the active range has time to be moved on.
Behind(w) == es[w] > active[2]
Before(u) == lf[u] < active[1]

\* One round of push_es_forward(): the top of the stack moves its successors.
\* One that started behind the active range already is put aside.
PushES ==
  LET v        == Last(esQueue)
      start    == es[v] + Duration(v)
      Moved    == {w \in Succ(v) : start > es[w]}
      Deferred == {w \in Moved : ~force /\ Behind(w)}
  IN
  /\ pc \in {"InitES", "RangeES", "StuckES", "ResetES", "InsertES"}
  /\ esQueue # <<>>
  /\ es' = [w \in Job |-> IF w \in Moved THEN start ELSE es[w]]
  /\ \E o \in Orders(Moved \ Deferred) : esQueue' = Front(esQueue) \o o
  /\ \E o \in Orders(Deferred) : esLate' = esLate \o o
  /\ changed' = changed \cup Moved
  /\ UNCHANGED <<inst, pc, edges, lf, lfQueue, lfLate, force, active, search,
                 base, pos, recorded>>

\* One round of push_lf_backward().
PushLF ==
  LET v        == Last(lfQueue)
      finish   == lf[v] - Duration(v)
      Moved    == {u \in Pred(v) : finish < lf[u]}
      Deferred == {u \in Moved : ~force /\ Before(u)}
  IN
  /\ pc \in {"InitLF", "RangeLF", "StuckLF", "ResetLF", "InsertLF"}
  /\ lfQueue # <<>>
  /\ lf' = [u \in Job |-> IF u \in Moved THEN finish ELSE lf[u]]
  /\ \E o \in Orders(Moved \ Deferred) : lfQueue' = Front(lfQueue) \o o
  /\ \E o \in Orders(Deferred) : lfLate' = lfLate \o o
  /\ UNCHANGED <<inst, pc, edges, es, esQueue, esLate, force, active, search,
                 base, changed, pos, recorded>>

\* Mutant: the sky line is not told of the jobs that move back.
LowerStartUnmarked(v, start) ==
  /\ start < es[v]
  /\ es' = [es EXCEPT ![v] = start]
  /\ \E o \in Orders(Succ(v)) : esQueue' = Front(esQueue) \o o
  /\ UNCHANGED changed

\* One round of rebuild_es_forward(), after edges were deleted: a job that can
\* start earlier does so, and its successors are looked at again.
LowerStart(v, start) ==
  /\ start < es[v]
  /\ es' = [es EXCEPT ![v] = start]
  /\ \E o \in Orders(Succ(v)) : esQueue' = Front(esQueue) \o o
  /\ changed' = changed \cup {v}

RebuildES ==
  LET v      == Last(esQueue)
      Bounds == {inst.release[v]} \cup {es[u] + Duration(u) : u \in Pred(v)}
  IN
  /\ pc = "RebuildES" /\ esQueue # <<>>
  /\ \E start \in Bounds :
       /\ \A b \in Bounds : b <= start
       /\ \/ LowerStart(v, start)
          \/ start >= es[v] /\ esQueue' = Front(esQueue)
                            /\ UNCHANGED <<es, changed>>
  /\ UNCHANGED <<inst, pc, edges, lf, lfQueue, esLate, lfLate, force, active,
                 search, base, pos, recorded>>

\* One round of rebuild_lf_backward().
RebuildLF ==
  LET v      == Last(lfQueue)
      Bounds == {inst.deadline[v]} \cup {lf[w] - Duration(w) : w \in Succ(v)}
  IN
  /\ pc = "RebuildLF" /\ lfQueue # <<>>
  /\ \E finish \in Bounds :
       /\ \A b \in Bounds : finish <= b
       /\ \/ /\ finish > lf[v]
             /\ lf' = [lf EXCEPT ![v] = finish]
             /\ \E o \in Orders(Pred(v)) : lfQueue' = Front(lfQueue) \o o
          \/ finish <= lf[v] /\ lfQueue' = Front(lfQueue) /\ UNCHANGED lf
  /\ UNCHANGED <<inst, pc, edges, es, esQueue, esLate, lfLate, force, active,
                 search, base, changed, pos, recorded>>

\* iteration_propagate(TRUE, _): everything that was put aside is moved too,
\* first the finishs and then the starts.
StartPropagation(label) ==
  /\ pc' = label
  /\ force' = TRUE
  /\ lfQueue' = lfQueue \o lfLate
  /\ lfLate' = <<>>
  /\ changed' = {}
  /\ UNCHANGED <<esQueue, esLate>>

\* Mutant: only the finishs that were put aside are moved.
PropagationTurnHalf ==
  /\ lfQueue = <<>>
  /\ \/ pc = "RangeLF" /\ pc' = "RangeES"
     \/ pc = "StuckLF" /\ pc' = "StuckES"
     \/ pc = "ResetLF" /\ pc' = "ResetES"
  /\ UNCHANGED <<inst, edges, windows, queues, force, active, search, base,
                 changed, pos, recorded>>

PropagationTurn ==
  /\ lfQueue = <<>>
  /\ \/ pc = "RangeLF" /\ pc' = "RangeES"
     \/ pc = "StuckLF" /\ pc' = "StuckES"
     \/ pc = "ResetLF" /\ pc' = "ResetES"
  /\ esQueue' = esQueue \o esLate
  /\ esLate' = <<>>
  /\ UNCHANGED <<inst, edges, windows, lfQueue, lfLate, force, active, search,
                 base, changed, pos, recorded>>

\* The sky line takes over the jobs that moved.
MoveJobs ==
  pos' = [v \in Job |-> IF v \in changed THEN es[v] ELSE pos[v]]

-----------------------------------------------------------------------------
(* The search                                                              *)

CountIteration ==
  /\ first' = FALSE
  /\ sincePush' = sincePush + 1

\* iteration_regenerate_candidates(), for the range r.
Regenerate(r) ==
  /\ jobs' = CandidateJobs(r)
  /\ candidates' = CandidateEdges(r)

\* The peak is somewhere else: everything is propagated for the new range.
RangeChanged ==
  /\ pc = "Iterate"
  /\ \E r \in PeakRanges(inst, pos) : r # active /\ active' = r
  /\ CountIteration
  /\ jobs' = {} /\ candidates' = {}
  /\ StartPropagation("RangeLF")
  /\ UNCHANGED <<inst, edges, windows, remaining, base, pos, recorded>>

RangeChangedEnd ==
  /\ pc = "RangeES" /\ esQueue = <<>>
  /\ MoveJobs
  /\ Regenerate(active)
  /\ IF candidates' # {}
     THEN pc' = "Candidate" /\ UNCHANGED <<force, queues, changed>>
     ELSE StartPropagation("StuckLF")
  /\ UNCHANGED <<inst, edges, windows, active, remaining, sincePush, first, base,
                 recorded>>

\* The peak is where it was.  Candidates that are left are tried; without any
\* the search is stuck, except that the first iteration has yet to generate
\* them.
RangeKept ==
  /\ pc = "Iterate"
  /\ active \in PeakRanges(inst, pos)
  /\ CountIteration
  /\ IF candidates = {} /\ first THEN Regenerate(active)
     ELSE UNCHANGED <<jobs, candidates>>
  /\ IF candidates' # {}
     THEN pc' = "Candidate" /\ UNCHANGED <<force, queues, changed>>
     ELSE StartPropagation("StuckLF")
  /\ UNCHANGED <<inst, edges, windows, active, remaining, base, pos, recorded>>

\* iteration_unstick(): everything is propagated ...
StuckEnd ==
  /\ pc = "StuckES" /\ esQueue = <<>>
  /\ MoveJobs
  /\ pc' = "Unstick"
  /\ UNCHANGED <<inst, edges, windows, queues, force, active, search, base,
                 changed, recorded>>

\* ... which may reveal another peak, with candidates of its own ...
OtherPeak ==
  /\ pc = "Unstick"
  /\ \E r \in PeakRanges(inst, pos) :
       r # active /\ active' = r /\ Regenerate(r)
  /\ candidates' # {}
  /\ pc' = "Candidate"
  /\ UNCHANGED <<inst, edges, windows, queues, force, remaining, sincePush, first,
                 base, changed, pos, recorded>>

\* Mutant: the last schedule replaces the best one.
RecordLast ==
  /\ pc = "Unstick"
  /\ \E r \in PeakRanges(inst, pos) :
       /\ active' = r
       /\ IF r = active THEN UNCHANGED <<jobs, candidates>> ELSE Regenerate(r)
  /\ candidates' = {}
  /\ best' = es /\ bestScore' = Peak(inst, pos)
  /\ pc' = "Unstuck"
  /\ UNCHANGED <<inst, edges, windows, queues, force, remaining, sincePush, first,
                 base, changed, pos>>

\* ... or not: then the schedule is recorded if it is the best so far.
Record ==
  /\ pc = "Unstick"
  /\ \E r \in PeakRanges(inst, pos) :
       /\ active' = r
       /\ IF r = active THEN UNCHANGED <<jobs, candidates>> ELSE Regenerate(r)
  /\ candidates' = {}
  /\ IF bestScore = NoScore \/ Peak(inst, pos) < bestScore
     THEN best' = es /\ bestScore' = Peak(inst, pos)
     ELSE UNCHANGED recorded
  /\ pc' = "Unstuck"
  /\ UNCHANGED <<inst, edges, windows, queues, force, remaining, sincePush, first,
                 base, changed, pos>>

-----------------------------------------------------------------------------
(* Deleting edges                                                          *)

\* find_edges_to_delete_backwards(): all inserted edges into s are given up,
\* and the permanent ones say how far s can start earlier then.  (The search
\* for fewer edges behind it never runs: the edges it starts with are already
\* marked as seen.)
BackwardsEdges(s) ==
  IF es[s] = baseES[s] THEN {} ELSE {e \in edges : e[2] = s}

BackwardsAmount(s) ==
  IF es[s] = baseES[s] THEN 0
  ELSE Min({es[s] - baseES[s]} \cup
           {es[s] - (es[e[1]] + Duration(e[1])) :
              e \in {x \in inst.lag : x[2] = s}})

\* find_edges_to_delete_forwards(): the same for the finish of t.
ForwardsEdges(t) ==
  IF lf[t] = baseLF[t] THEN {} ELSE {e \in edges : e[1] = t}

\* Mutant: permanent edges do not hold t back.
ForwardsAmountFree(t) == baseLF[t] - lf[t]

ForwardsAmount(t) ==
  IF lf[t] = baseLF[t] THEN 0
  ELSE Min({baseLF[t] - lf[t]} \cup
           {(lf[e[2]] - Duration(e[2])) - lf[t] :
              e \in {x \in inst.lag : x[1] = t}})

\* One trial of create_new_candidate_edges() succeeds for s and t.  What t has
\* to give is an unsigned difference: if s moves by more than the overlap, it
\* is so large that the trial fails.
TrialSucceeds(s, t) ==
  LET overlap == es[s] + Duration(s) - es[t]
  IN
  /\ s # t
  /\ es[s] + Duration(s) >= es[t] /\ es[t] + Duration(t) >= es[s]
  /\ baseES[s] + Duration(s) <= baseLF[t]
  /\ BackwardsAmount(s) <= overlap
  /\ ForwardsAmount(t) >= overlap - BackwardsAmount(s)

\* The pairs that are tried walk through the jobs sorted by their ends and by
\* their starts; jobs that end or start at the same time come in any order.
Sortings ==
  LET Sorted(key) == {o \in Orders(jobs) :
        \A i, j \in DOMAIN o : i < j => key[o[i]] <= key[o[j]]}
  IN  Sorted([v \in Job |-> es[v] + Duration(v)]) \X Sorted(es)

Trials ==
  {k \in 0 .. DeletionTrials - 1 : (k \div 2) + (k % 2) < Cardinality(jobs)}

Trial(k, o) ==
  <<o[1][(k \div 2) + 1], o[2][(k \div 2) + (k % 2) + 1]>>

Succeeds(k, o) ==
  TrialSucceeds(Trial(k, o)[1], Trial(k, o)[2])

\* create_new_candidate_edges(): the edges of the first pair that succeeds are
\* deleted and the pair becomes the only candidate (it is not looked at before
\* the windows are rebuilt).
DeleteFor(s, t) ==
  LET Deleted == ForwardsEdges(t) \cup BackwardsEdges(s)
  IN  /\ edges' = edges \ Deleted
      /\ \E o \in Orders(Deleted) :
           /\ esQueue' = [i \in DOMAIN o |-> o[i][2]]
           /\ lfQueue' = [i \in DOMAIN o |-> o[i][1]]
      /\ candidates' = {<<s, t>>}

Delete ==
  /\ pc = "Unstuck"
  /\ remaining > 0
  /\ remaining' = remaining - 1
  /\ \E o \in Sortings, k \in Trials :
       /\ Succeeds(k, o)
       /\ \A j \in Trials : j < k => ~Succeeds(j, o)
       /\ DeleteFor(Trial(k, o)[1], Trial(k, o)[2])
  /\ changed' = {}
  /\ pc' = "RebuildES"
  /\ UNCHANGED <<inst, windows, esLate, lfLate, force, active, jobs, sincePush,
                 first, base, pos, recorded>>

DeleteTurn ==
  /\ pc = "RebuildES" /\ esQueue = <<>>
  /\ pc' = "RebuildLF"
  /\ UNCHANGED <<inst, edges, windows, queues, force, active, search, base,
                 changed, pos, recorded>>

DeleteEnd ==
  /\ pc = "RebuildLF" /\ lfQueue = <<>>
  /\ MoveJobs
  /\ pc' = "Candidate"
  /\ UNCHANGED <<inst, edges, windows, queues, force, active, search, base,
                 changed, recorded>>

-----------------------------------------------------------------------------
(* Starting over                                                           *)

\* reset(): no deletion is left or none was found.
Reset ==
  /\ pc = "Unstuck"
  /\ remaining = 0 \/ \E o \in Sortings : \A k \in Trials : ~Succeeds(k, o)
  /\ edges' = {}
  /\ es' = baseES /\ lf' = baseLF
  /\ pos' = baseES
  /\ active' \in PeakRanges(inst, baseES)
  /\ StartPropagation("ResetLF")
  /\ UNCHANGED <<inst, search, base, recorded>>

ResetEnd ==
  /\ pc = "ResetES" /\ esQueue = <<>>
  /\ MoveJobs
  /\ Regenerate(active)
  /\ remaining' = DeletionsBeforeReset
  /\ pc' = "Candidate"
  /\ UNCHANGED <<inst, edges, windows, queues, force, active, sincePush, first,
                 base, changed, recorded>>

-----------------------------------------------------------------------------
(* Inserting an edge                                                       *)

\* Mutant: a candidate that fitted when it was generated still fits.
InsertableOnce(s, t) ==
  Overlap(s, t) /\ InRange(s, active) /\ InRange(t, active)

\* iteration_insert_edge(): the pair still overlaps, touches the range, and
\* its windows still leave room.
Insertable(s, t) ==
  Overlap(s, t) /\ InRange(s, active) /\ InRange(t, active) /\ Fits(s, t)

Forced == sincePush >= ForceAfter

Insert ==
  /\ pc = "Candidate"
  /\ \E e \in candidates :
       /\ Insertable(e[1], e[2])
       /\ edges' = edges \cup {e}
       /\ candidates' = candidates \ {e}
       /\ esQueue' = <<e[1]>> \o (IF Forced THEN esLate ELSE <<>>)
       /\ lfQueue' = <<e[2]>>
  /\ esLate' = IF Forced THEN <<>> ELSE esLate
  /\ force' = Forced
  /\ changed' = {}
  /\ pc' = "InsertES"
  /\ UNCHANGED <<inst, windows, lfLate, active, jobs, remaining, sincePush, first,
                 base, pos, recorded>>

\* Mutant: a candidate that is not inserted is drawn again.
DiscardKept ==
  /\ pc = "Candidate"
  /\ \E e \in candidates : ~Insertable(e[1], e[2])
  /\ UNCHANGED vars

Discard ==
  /\ pc = "Candidate"
  /\ \E e \in candidates :
       ~Insertable(e[1], e[2]) /\ candidates' = candidates \ {e}
  /\ UNCHANGED <<inst, pc, edges, windows, queues, force, active, jobs, remaining,
                 sincePush, first, base, changed, pos, recorded>>

\* Mutant: the count goes on after a forced propagation.
EndIterationOn ==
  /\ pc' = "Iterate"
  /\ UNCHANGED sincePush

\* A forced propagation counts for the next iteration too.
EndIteration ==
  /\ pc' = "Iterate"
  /\ sincePush' = IF Forced THEN -1 ELSE sincePush

InsertTurn ==
  /\ pc = "InsertES" /\ esQueue = <<>>
  /\ lfQueue' = lfQueue \o (IF force THEN lfLate ELSE <<>>)
  /\ lfLate' = IF force THEN <<>> ELSE lfLate
  /\ pc' = "InsertLF"
  /\ UNCHANGED <<inst, edges, windows, esQueue, esLate, force, active, search,
                 base, changed, pos, recorded>>

InsertEnd ==
  /\ pc = "InsertLF" /\ lfQueue = <<>>
  /\ MoveJobs
  /\ EndIteration
  /\ UNCHANGED <<inst, edges, windows, queues, force, active, jobs, candidates,
                 remaining, first, base, changed, recorded>>

NothingInserted ==
  /\ pc = "Candidate" /\ candidates = {}
  /\ EndIteration
  /\ UNCHANGED <<inst, edges, windows, queues, force, active, jobs, candidates,
                 remaining, first, base, changed, pos, recorded>>

-----------------------------------------------------------------------------
(* The time is looked at between iterations.                               *)

TimeIsUp ==
  /\ pc = "Iterate"
  /\ pc' = "Done"
  /\ UNCHANGED <<inst, edges, windows, queues, force, active, search, base,
                 changed, pos, recorded>>

Returned == pc = "Done" /\ UNCHANGED vars

Step ==
  \/ InitTurn \/ InitEnd
  \/ PushES \/ PushLF \/ RebuildES \/ RebuildLF \/ PropagationTurn
  \/ RangeChanged \/ RangeChangedEnd \/ RangeKept
  \/ StuckEnd \/ OtherPeak \/ Record
  \/ Delete \/ DeleteTurn \/ DeleteEnd \/ Reset \/ ResetEnd
  \/ Insert \/ Discard \/ InsertTurn \/ InsertEnd \/ NothingInserted

Next == Step \/ TimeIsUp \/ Returned

\* One thread runs the solver and never waits.
Spec == Init /\ [][Next]_vars /\ WF_vars(Step)

-----------------------------------------------------------------------------
(* Properties                                                              *)

Labels ==
  {"InitES", "InitLF", "Iterate", "RangeLF", "RangeES", "StuckLF", "StuckES",
   "Unstick", "Unstuck", "RebuildES", "RebuildLF", "ResetLF", "ResetES",
   "Candidate", "InsertES", "InsertLF", "Done"}

\* The types of the solver's members; the windows never leave the releases and
\* deadlines, so that no unsigned value wraps.
TypeOK ==
  /\ inst \in Instances /\ pc \in Labels
  /\ edges \subseteq Job \X Job /\ candidates \subseteq Job \X Job
  /\ es \in [Job -> Nat] /\ lf \in [Job -> Nat]
  /\ \A v \in Job : es[v] >= inst.release[v] /\ lf[v] <= inst.deadline[v]
  /\ {esQueue, lfQueue, esLate, lfLate} \subseteq Seq(Job)
  /\ force \in BOOLEAN /\ first \in BOOLEAN
  /\ active \in Nat \X Nat
  /\ jobs \subseteq Job /\ changed \subseteq Job
  /\ remaining \in 0 .. DeletionsBeforeReset
  /\ sincePush \in -1 .. (ForceAfter + 1)
  /\ {baseES, baseLF, pos, best} \subseteq [Job -> Nat]

\* The values that complete propagation computes (the first pass of
\* dbg_verify_correctly_partially_propagated()).
ExactES ==
  LET value[n \in 0 .. JobCount] ==
        IF n = 0 THEN baseES
        ELSE [v \in Job |-> Max({value[n - 1][v]} \cup
                     {value[n - 1][u] + Duration(u) : u \in Pred(v)})]
  IN  value[JobCount]

ExactLF ==
  LET value[n \in 0 .. JobCount] ==
        IF n = 0 THEN baseLF
        ELSE [v \in Job |-> Min({value[n - 1][v]} \cup
                     {value[n - 1][w] - Duration(w) : w \in Succ(v)})]
  IN  value[JobCount]

\* Where the next edge is chosen, "everything is propagated properly": windows
\* that lie in the active range are exact although the propagation beyond it
\* was put off.
WindowsExact ==
  pc \in {"Iterate", "Candidate"} =>
    \A v \in Job : /\ es[v] <= active[2] => es[v] = ExactES[v]
                   /\ lf[v] >= active[1] => lf[v] = ExactLF[v]

\* No edge that was inserted makes the lag graph and the windows infeasible,
\* not even by way of jobs whose windows are out of date: the graph has no
\* cycle and there is a schedule that respects all of it.
GraphSolvable ==
  pc \notin {"InitES", "InitLF"} =>
    Feasible([inst EXCEPT !.lag = Graph], ExactES)

\* The schedule that get_solution() returns is feasible whenever the time is
\* up.
BestFeasible ==
  pc \notin {"InitES", "InitLF"} => Feasible(inst, best)

\* Whenever the peak is read, the sky line has the jobs where the windows have
\* them.
SkyLineCurrent ==
  pc \in {"Iterate", "Unstick", "Unstuck", "Candidate", "Done"} => pos = es

\* The pair for which edges were deleted fits once the windows are rebuilt:
\* the deletion was not in vain.
DeletionMakesRoom ==
  pc = "RebuildLF" /\ lfQueue = <<>> => \A e \in candidates : Fits(e[1], e[2])

\* "Make sure that every edge is added only once."
NoParallelEdges ==
  [][pc = "Candidate" /\ pc' = "InsertES" =>
       edges' # edges /\ \A e \in edges' \ edges : e \notin inst.lag]_vars

\* Every iteration comes to an end: no propagation runs around a cycle, and no
\* loop over candidates waits for one that never comes.
IterationEnds ==
  []<>(pc \in {"Iterate", "Done"})

\* "At this point, we should have a candidate for insertion."
CandidateThere ==
  [][pc # "Candidate" /\ pc' = "Candidate" => candidates' # {}]_vars

\* The solver keeps the promise of an anytime solver.
Promise == INSTANCE Anytime WITH
  solution <- IF pc \in {"InitES", "InitLF"} THEN <<>> ELSE best,
  score <- bestScore

ImplementsAnytime == Promise!Spec

=============================================================================
