--------------------------- MODULE CampaignProofs ---------------------------
(***************************************************************************)
(* What holds of every campaign, whatever its threads, tasks, options,     *)
(* failures, crashes and relaunches.  The inductive invariant is built in  *)
(* layers: types and control, the queue, the mutexes, the configurations   *)
(* table.  Each layer is shown to be kept by a step from the layers below. *)
(***************************************************************************)
EXTENDS Campaign, SequenceTheorems, TLAPS

\* Where a thread is inside Runner::run, so that it has a current job.
Running == {"route", "check_result", "check_error", "solve", "insert", "lookup",
            "commit", "write", "dump", "report", "log", "fail", "exit"}

\* Where a thread has an exception to record.
Failing == {"dump", "report", "log", "fail", "exit"}

\* A thread has a task exactly between the queue and the end of for_each, it is
\* at a job of that task inside Runner::run, and it has an exception exactly
\* where one is handled.
ThreadControl(t) ==
  /\ pc[t] \in Running => Current(t) \in Job
  /\ pc[t] \in {"fetch", "end", "off"} <=> task[t] = 0
  /\ pc[t] \in {"fetch", "parse", "end", "off"} => solver[t] = 0
  /\ pc[t] = "select" => solver[t] \in Nat \ {0}
  /\ pc[t] \in Failing <=> fault[t] # "none"

Control ==
  /\ \A t \in Thread : ThreadControl(t)
  /\ \E t \in Thread : pc[t] # "off"
  /\ proc \in Ended => remaining = 0 /\ \A t \in Thread : pc[t] = "end"

\* The parts of a task have their types.
LEMMA TaskSolvers ==
  ASSUME NEW i \in Task
  PROVE  /\ TaskList[i].name \in STRING /\ TaskList[i].kvs \in STRING
         /\ TaskList[i].limit \in Nat
         /\ DOMAIN TaskList[i].solvers = 1 .. Len(TaskList[i].solvers)
         /\ Len(TaskList[i].solvers) \in Nat
<1> DEFINE T == [inst: STRING, solvers: Seq(STRING), name: STRING, kvs: STRING,
                 limit: Nat]
<1>1. TaskList \in Seq(T)
  BY CampaignAssumption
<1>2. TaskList[i] \in T
  BY <1>1, ElementOfSeq, Zenon DEF Task
<1>3. TaskList[i].solvers \in Seq(STRING)
  BY <1>2
<1> QED BY <1>2, <1>3, LenProperties

\* What a job is: a task and the place of one of its solvers.
LEMMA JobMember ==
  /\ \A i, k : <<i, k>> \in Job <=> i \in Task /\ k \in DOMAIN TaskList[i].solvers
  /\ \A j \in Job : j = <<j[1], j[2]>>
  /\ \A j \in Job : j[1] \in Task /\ j[2] \in DOMAIN TaskList[j[1]].solvers
<1>1. ASSUME NEW j
      PROVE  j \in Job <=>
               \E i \in Task : \E k \in DOMAIN TaskList[i].solvers : j = <<i, k>>
  BY SMT DEF Job
<1> QED BY <1>1

\* Going on with the next solver keeps the types of the thread variables.
LEMMA NextSolverType ==
  ASSUME ThreadTypeOK, NEW t \in Thread, NextSolver(t)
  PROVE  ThreadTypeOK'
<1>1. pc' \in [Thread -> PC] 
  BY DEF ThreadTypeOK, NextSolver, Goto, PC
<1>2. solver' \in [Thread -> Nat] 
  BY DEF ThreadTypeOK, NextSolver
<1>3. trial' \in [Thread -> 0 .. RetryCount] 
  BY CampaignAssumption DEF ThreadTypeOK, NextSolver
<1>4. cfg' \in [Thread -> Nat]
  BY DEF ThreadTypeOK, NextSolver
<1>5. fault' \in [Thread -> Fault \union {"none"}]
  BY DEF ThreadTypeOK, NextSolver
<1> QED BY <1>1, <1>2, <1>3, <1>4, <1>5 DEF ThreadTypeOK, NextSolver

\* So does an exception,
LEMMA RaiseType ==
  ASSUME ThreadTypeOK, NEW t \in Thread, NEW f \in Fault, Raise(t, f)
  PROVE  ThreadTypeOK'
<1>1. pc' \in [Thread -> PC]
  BY DEF ThreadTypeOK, Raise, Goto, PC
<1>2. trial' \in [Thread -> 0 .. RetryCount] /\ cfg' \in [Thread -> Nat]
  BY CampaignAssumption DEF ThreadTypeOK, Raise
<1>3. fault' \in [Thread -> Fault \union {"none"}]
  BY DEF ThreadTypeOK, Raise
<1> QED BY <1>1, <1>2, <1>3 DEF ThreadTypeOK, Raise

\* and a change of place.
LEMMA GotoType ==
  ASSUME ThreadTypeOK, NEW t \in Thread, NEW p \in PC, Goto(t, p)
  PROVE  pc' \in [Thread -> PC]
BY DEF ThreadTypeOK, Goto

\* A step keeps the types of what a thread has.
LEMMA ThreadTypeStep ==
  ASSUME TypeOK, [Next]_vars
  PROVE  ThreadTypeOK'
<1> USE DEF TypeOK, At, db, process, thread, vars
<1>1. ASSUME NEW t \in Thread, GetNextTask(t) PROVE ThreadTypeOK'
  <2>1. CASE remaining = 0
    BY <1>1, <2>1, GotoType DEF ThreadTypeOK, GetNextTask, PC
  <2>2. CASE remaining # 0
    <3>1. remaining \in Task
      BY <2>2, CampaignAssumption DEF ProcessTypeOK, Task
    <3> QED BY <1>1, <2>2, <3>1, GotoType DEF ThreadTypeOK, GetNextTask, PC
  <2> QED BY <2>1, <2>2
<1>2. ASSUME NEW t \in Thread, Parse(t) PROVE ThreadTypeOK'
  BY <1>2, GotoType DEF Parse, ThreadTypeOK, PC
<1>3. ASSUME NEW t \in Thread, Select(t) PROVE ThreadTypeOK'
  <2>1. CASE Goto(t, "route")
    BY <1>3, <2>1, GotoType DEF Select, ThreadTypeOK, PC
  <2>2. CASE Goto(t, "fetch")
    BY <1>3, <2>2, GotoType DEF Select, ThreadTypeOK, PC
  <2> QED BY <1>3, <2>1, <2>2 DEF Select
<1>4. ASSUME NEW t \in Thread, Route(t) PROVE ThreadTypeOK'
  <2>1. CASE Goto(t, "check_result") /\ UNCHANGED <<task, solver, trial, cfg, fault>>
    BY <1>4, <2>1, GotoType DEF Route, ThreadTypeOK, PC
  <2> QED BY <1>4, <2>1, RaiseType DEF Route, Fault
<1>5. ASSUME NEW t \in Thread, CheckResult(t) PROVE ThreadTypeOK'
  <2>1. CASE Goto(t, "check_error") /\ UNCHANGED <<task, solver, trial, cfg, fault>>
    BY <1>5, <2>1, GotoType DEF CheckResult, ThreadTypeOK, PC
  <2> QED BY <1>5, <2>1, NextSolverType DEF CheckResult
<1>6. ASSUME NEW t \in Thread, CheckError(t) PROVE ThreadTypeOK'
  <2>1. CASE Goto(t, "solve") /\ UNCHANGED <<task, solver, trial, cfg, fault>>
    BY <1>6, <2>1, GotoType DEF CheckError, CheckErrorAborts, ThreadTypeOK, PC
  <2> QED BY <1>6, <2>1, NextSolverType DEF CheckError
<1>7. ASSUME NEW t \in Thread, Solve(t) PROVE ThreadTypeOK'
  <2>1. CASE Goto(t, "insert") /\ UNCHANGED <<task, solver, trial, cfg, fault>>
    BY <1>7, <2>1, GotoType DEF Solve, ThreadTypeOK, PC
  <2> QED BY <1>7, <2>1, RaiseType DEF Solve, Fault
<1>8. ASSUME NEW t \in Thread, AcquireInsert(t) PROVE ThreadTypeOK'
  BY <1>8, GotoType DEF AcquireInsert, ThreadTypeOK, PC
<1>9. ASSUME NEW t \in Thread, LookupConfig(t) PROVE ThreadTypeOK'
  <2>1. DOMAIN configs \subseteq Nat
    <3>1. configs \in Seq([key: STRING \X STRING, limit: Nat])
      BY DEF DatabaseTypeOK
    <3>2. DOMAIN configs = 1 .. Len(configs) /\ Len(configs) \in Nat
      BY <3>1, LenProperties, Zenon
    <3> QED BY <3>2
  <2>2. PICK n \in Nat : cfg' = [cfg EXCEPT ![t] = n]
    BY <1>9, <2>1, Zenon DEF LookupConfig, MatchingConfigs
  <2> QED BY <1>9, <2>2, GotoType DEF LookupConfig, ThreadTypeOK, PC
<1>10. ASSUME NEW t \in Thread, CommitResult(t) PROVE ThreadTypeOK'
  BY <1>10, GotoType, CampaignAssumption DEF CommitResult, ThreadTypeOK, PC
<1>11. ASSUME NEW t \in Thread, InsertFails(t) PROVE ThreadTypeOK'
  <2>1. CASE trial[t] + 1 < RetryCount
    <3>1. /\ trial' = [trial EXCEPT ![t] = trial[t] + 1]
          /\ cfg' = [cfg EXCEPT ![t] = 0]
      BY <1>11, <2>1 DEF InsertFails, RetryInsert
    <3>2. trial' \in [Thread -> 0 .. RetryCount] /\ cfg' \in [Thread -> Nat]
      BY <2>1, <3>1, CampaignAssumption DEF ThreadTypeOK
    <3> QED BY <1>11, <2>1, <3>2, GotoType DEF InsertFails, RetryInsert, ThreadTypeOK, PC
  <2> QED BY <1>11, <2>1, RaiseType DEF InsertFails, RetryInsert, Fault
<1>12. ASSUME NEW t \in Thread, WriteResult(t) PROVE ThreadTypeOK'
  BY <1>12, NextSolverType DEF WriteResult
<1>13. ASSUME NEW t \in Thread, DumpErrored(t) PROVE ThreadTypeOK'
  BY <1>13, GotoType DEF DumpErrored, ThreadTypeOK, PC
<1>14. ASSUME NEW t \in Thread, AcquireError(t) PROVE ThreadTypeOK'
  BY <1>14, GotoType DEF AcquireError, ThreadTypeOK, PC
<1>15. ASSUME NEW t \in Thread, LogError(t) PROVE ThreadTypeOK'
  <2>1. CASE Goto(t, "fail") /\ UNCHANGED <<task, solver, trial, cfg, fault>>
    BY <2>1, GotoType DEF ThreadTypeOK, PC
  <2> QED BY <1>15, <2>1, NextSolverType DEF LogError
<1>16. ASSUME NEW t \in Thread, LogFails(t) PROVE ThreadTypeOK'
  <2>1. CASE trial[t] + 1 < RetryCount
    <3>1. trial' = [trial EXCEPT ![t] = trial[t] + 1] /\ UNCHANGED <<pc, task, solver, cfg, fault>>
      BY <1>16, <2>1 DEF LogFails
    <3> QED BY <2>1, <3>1, CampaignAssumption DEF ThreadTypeOK
  <2>2. CASE ~(trial[t] + 1 < RetryCount)
    BY <1>16, <2>2, GotoType DEF LogFails, ThreadTypeOK, PC
  <2> QED BY <2>1, <2>2
<1>17. ASSUME Gone PROVE ThreadTypeOK'
  BY <1>17, CampaignAssumption DEF Gone, ThreadTypeOK, PC
<1>18. ASSUME Launch PROVE ThreadTypeOK'
  BY <1>18 DEF Launch, ThreadTypeOK, PC
<1>19. ASSUME UNCHANGED vars PROVE ThreadTypeOK'
  BY <1>19 DEF ThreadTypeOK
<1> QED
  BY <1>1, <1>2, <1>3, <1>4, <1>5, <1>6, <1>7, <1>8, <1>9, <1>10, <1>11, <1>12,
     <1>13, <1>14, <1>15, <1>16, <1>17, <1>18, <1>19
  DEF Next, Step, Over, Die, JoinAll, SolveSampledFails, CheckErrorAborts, HandleFail, Abort

\* A step keeps the types of what the process has.
LEMMA ProcessTypeStep ==
  ASSUME ProcessTypeOK, [Next]_vars
  PROVE  ProcessTypeOK'
<1> USE DEF ProcessTypeOK, db, process, thread, vars
<1>1. ASSUME NEW t \in Thread, GetNextTask(t) PROVE ProcessTypeOK'
  <2>1. remaining' \in 0 .. Len(TaskList)
    BY <1>1, CampaignAssumption DEF GetNextTask
  <2> QED BY <1>1, <2>1 DEF GetNextTask
<1>2. ASSUME NEW t \in Thread, Step(t), ~GetNextTask(t) PROVE ProcessTypeOK'
  <2>1. Gone \/ UNCHANGED <<remaining, flags>>
    BY <1>2 DEF Step, Parse, Select, Route, CheckResult, CheckError, CheckErrorAborts, Solve,
                SolveSampledFails, AcquireInsert, LookupConfig, CommitResult,
                InsertFails, WriteResult, DumpErrored, AcquireError, LogError,
                LogFails, HandleFail, Abort
  <2>2. proc' \in {proc, "exiting", "aborted"}
    BY <1>2 DEF Step, Parse, Select, Route, CheckResult, CheckError, CheckErrorAborts, Solve,
                SolveSampledFails, AcquireInsert, LookupConfig, CommitResult,
                InsertFails, WriteResult, DumpErrored, AcquireError, LogError,
                LogFails, HandleFail, Abort
  <2>3. \/ UNCHANGED owner \/ Gone
        \/ \E m \in Mutex : Lock(m, t) \/ Unlock(m)
    BY <1>2 DEF Step, Parse, Select, Route, CheckResult, CheckError, CheckErrorAborts, Solve,
                SolveSampledFails, AcquireInsert, LookupConfig, CommitResult,
                InsertFails, RetryInsert, WriteResult, DumpErrored, AcquireError,
                LogError, LogFails, HandleFail, Abort, Mutex
  <2>4. remaining' \in 0 .. Len(TaskList) /\ flags' \in SUBSET Flags
    BY <2>1, CampaignAssumption DEF Gone
  <2>5. owner' \in [Mutex -> Thread \union {NoThread}]
    BY <2>3 DEF Gone, Lock, Unlock
  <2> QED BY <2>2, <2>4, <2>5 DEF Ended
<1>3. ASSUME Launch \/ Die \/ JoinAll \/ UNCHANGED vars PROVE ProcessTypeOK'
  BY <1>3, CampaignAssumption DEF Launch, Die, JoinAll, Gone, Ended
<1> QED BY <1>1, <1>2, <1>3 DEF Next, Over
\* A step of one thread leaves the others where they are.
LEMMA OthersStay ==
  ASSUME ThreadTypeOK, NEW t \in Thread, Step(t), NEW u \in Thread, u # t
  PROVE  \/ proc' = "aborted" /\ Gone
         \/ /\ pc'[u] = pc[u] /\ task'[u] = task[u] /\ solver'[u] = solver[u]
            /\ fault'[u] = fault[u]
<1> USE DEF ThreadTypeOK, Goto, process, thread
<1>1. CASE GetNextTask(t) \/ Parse(t) \/ Select(t)
  BY <1>1 DEF GetNextTask, Parse, Select
<1>2. CASE Route(t) \/ CheckResult(t) \/ CheckError(t) \/ Solve(t)
  BY <1>2 DEF Route, CheckResult, CheckError, CheckErrorAborts, Solve, Raise, NextSolver
<1>3. CASE AcquireInsert(t) \/ LookupConfig(t) \/ CommitResult(t)
  BY <1>3 DEF AcquireInsert, LookupConfig, CommitResult
<1>4. CASE InsertFails(t) \/ WriteResult(t) \/ DumpErrored(t)
  BY <1>4 DEF InsertFails, RetryInsert, Raise, WriteResult, DumpErrored, NextSolver
<1>5. CASE AcquireError(t) \/ LogError(t) \/ LogFails(t)
  BY <1>5 DEF AcquireError, LogError, LogFails, NextSolver
<1>6. CASE CheckErrorAborts(t) \/ SolveSampledFails(t) \/ HandleFail(t)
  BY <1>6 DEF SolveSampledFails, CheckErrorAborts, HandleFail, Abort
<1> QED BY <1>1, <1>2, <1>3, <1>4, <1>5, <1>6 DEF Step

\* A step keeps Control: the acting thread has moved as ThreadControl says.
LEMMA ControlStep ==
  ASSUME TypeOK, Control, [Next]_vars
  PROVE  Control'
<1>1. ASSUME Gone, proc' \in Ended PROVE Control'
  BY <1>1 DEF Gone, Control, ThreadControl, Running, Failing
<1>2. ASSUME Launch PROVE Control'
  BY <1>2 DEF Launch, Control, ThreadControl, Running, Failing, Ended
<1>3. ASSUME UNCHANGED vars PROVE Control'
  BY <1>3 DEF vars, thread, process, Control, ThreadControl, Current
<1>4. ASSUME NEW t \in Thread, Step(t) PROVE Control'
  <2> USE DEF TypeOK, ThreadTypeOK, ThreadControl, Current, Running, Failing, At, Goto,
              process, thread
  <2>0. ThreadControl(t) /\ proc \in {"up", "exiting"}
    BY <1>4 DEF Control, Step, GetNextTask, Parse, Select, Route, CheckResult,
       CheckError, CheckErrorAborts, Solve, SolveSampledFails, AcquireInsert, LookupConfig, CommitResult,
       InsertFails, WriteResult, DumpErrored, AcquireError, LogError, LogFails,
       HandleFail
  <2>1. ASSUME GetNextTask(t) PROVE ThreadControl(t)'
    <3>1. CASE remaining = 0
      BY <2>0, <2>1, <3>1 DEF GetNextTask
    <3>2. CASE remaining # 0
      BY <2>0, <2>1, <3>2 DEF GetNextTask
    <3> QED BY <3>1, <3>2
  <2>2. ASSUME Parse(t) PROVE ThreadControl(t)'
    BY <2>0, <2>2 DEF Parse
  <2>3. ASSUME Select(t) PROVE ThreadControl(t)'
    <3>1. CASE solver[t] \in DOMAIN TaskList[task[t]].solvers
      <4>1. task[t] \in Task
        BY <2>0, <2>3 DEF Select, Task
      <4>2. /\ pc'[t] = "route" /\ task'[t] = task[t] /\ solver'[t] = solver[t]
            /\ fault'[t] = fault[t]
        BY <2>3, <3>1 DEF Select
      <4> QED BY <2>0, <2>3, <3>1, <4>1, <4>2, JobMember DEF Select
    <3>2. CASE solver[t] \notin DOMAIN TaskList[task[t]].solvers
      <4>1. /\ pc'[t] = "fetch" /\ task'[t] = 0 /\ solver'[t] = 0
            /\ fault'[t] = fault[t] /\ pc[t] = "select"
        BY <2>3, <3>2 DEF Select
      <4> QED BY <2>0, <4>1
    <3> QED BY <3>1, <3>2
  <2>4. ASSUME pc[t] \in Running, NextSolver(t) PROVE ThreadControl(t)'
    BY <2>0, <2>4 DEF NextSolver
  <2>5. ASSUME pc[t] \in Running, NEW f \in Fault, Raise(t, f) PROVE ThreadControl(t)'
    BY <2>0, <2>5 DEF Raise, Fault
  <2>6. ASSUME pc[t] \in Running, NEW p \in Running, pc[t] \in Failing <=> p \in Failing,
               Goto(t, p), UNCHANGED <<task, solver, fault>>
        PROVE  ThreadControl(t)'
    BY <2>0, <2>6
  <2>7. ASSUME Route(t) \/ Solve(t) PROVE ThreadControl(t)'
    BY <2>5, <2>6, <2>7 DEF Route, Solve, Fault
  <2>8. ASSUME CheckResult(t) \/ CheckError(t) PROVE ThreadControl(t)'
    BY <2>4, <2>6, <2>8 DEF CheckResult, CheckError
  <2>9. ASSUME AcquireInsert(t) \/ LookupConfig(t) \/ CommitResult(t) PROVE ThreadControl(t)'
    BY <2>6, <2>9 DEF AcquireInsert, LookupConfig, CommitResult
  <2>10. ASSUME InsertFails(t) PROVE ThreadControl(t)'
    BY <2>5, <2>6, <2>10 DEF InsertFails, RetryInsert, Fault
  <2>11. ASSUME WriteResult(t) \/ DumpErrored(t) PROVE ThreadControl(t)'
    BY <2>4, <2>6, <2>11 DEF WriteResult, DumpErrored
  <2>12. ASSUME AcquireError(t) \/ LogError(t) PROVE ThreadControl(t)'
    BY <2>4, <2>6, <2>12 DEF AcquireError, LogError
  <2>13. ASSUME LogFails(t) PROVE ThreadControl(t)'
    <3>1. CASE pc' = pc
      BY <2>0, <2>13, <3>1 DEF LogFails
    <3>2. CASE Goto(t, "exit")
      BY <2>6, <2>13, <3>2 DEF LogFails
    <3> QED BY <2>13, <3>1, <3>2 DEF LogFails
  <2>14. CASE CheckErrorAborts(t) \/ SolveSampledFails(t) \/ HandleFail(t)
    BY <1>1, <2>14 DEF SolveSampledFails, CheckErrorAborts, HandleFail, Abort, Ended
  <2>15. ThreadControl(t)' \/ CheckErrorAborts(t) \/ SolveSampledFails(t) \/ HandleFail(t)
    BY <1>4, <2>1, <2>2, <2>3, <2>7, <2>8, <2>9, <2>10, <2>11, <2>12, <2>13 DEF Step
  <2>16. ASSUME ~(proc' = "aborted" /\ Gone) PROVE \A u \in Thread : u # t => ThreadControl(u)'
    BY <1>4, <2>16, OthersStay DEF Control
  <2>17. proc' \in {"up", "exiting", "aborted"}
    BY <1>4, <2>0 DEF Step, GetNextTask, Parse, Select, Route, CheckResult,
       CheckError, CheckErrorAborts, Solve, SolveSampledFails, AcquireInsert, LookupConfig, CommitResult,
       InsertFails, WriteResult, DumpErrored, AcquireError, LogError, LogFails,
       HandleFail, Abort
  <2>18. proc' = "aborted" => CheckErrorAborts(t) \/ SolveSampledFails(t) \/ HandleFail(t)
    BY <1>4, <2>0 DEF Step, GetNextTask, Parse, Select, Route, CheckResult,
       CheckError, CheckErrorAborts, Solve, AcquireInsert, LookupConfig, CommitResult,
       InsertFails, WriteResult, DumpErrored, AcquireError, LogError, LogFails
  <2>19. ~(CheckErrorAborts(t) \/ SolveSampledFails(t) \/ HandleFail(t)) => pc'[t] # "off"
    BY <1>4, <2>0 DEF Step, GetNextTask, Parse, Select, Route, CheckResult, CheckError,
       Solve, AcquireInsert, LookupConfig, CommitResult, InsertFails, RetryInsert,
       WriteResult, DumpErrored, AcquireError, LogError, LogFails, NextSolver, Raise
  <2>20. proc' = "aborted" /\ Gone => Control'
    BY <1>1 DEF Ended
  <2> HIDE DEF TypeOK, ThreadTypeOK, ThreadControl
  <2> QED BY <2>14, <2>15, <2>16, <2>17, <2>18, <2>19, <2>20 DEF Control, Ended
<1> QED BY <1>1, <1>2, <1>3, <1>4 DEF Next, Over, Die, JoinAll, Ended

\* The rows that insert() writes have their types.
LEMMA StoreResultType ==
  ASSUME TypeOK, Control, NEW t \in Thread, pc[t] = "commit", StoreResult(t)
  PROVE  DatabaseTypeOK'
<1> DEFINE j == Current(t)
           id == IF cfg[t] = 0 THEN Len(configs) + 1 ELSE cfg[t]
<1>1. j \in Job
  BY DEF Control, ThreadControl, Running
<1>2. ConfigKey(j) \in STRING \X STRING /\ TaskList[j[1]].limit \in Nat
  BY <1>1, JobMember, TaskSolvers DEF ConfigKey
<1>3. configs' \in Seq([key: STRING \X STRING, limit: Nat])
  <2>1. [key |-> ConfigKey(j), limit |-> TaskList[j[1]].limit]
          \in [key: STRING \X STRING, limit: Nat]
    BY <1>2
  <2> QED BY <2>1, AppendProperties DEF StoreResult, TypeOK, DatabaseTypeOK
<1>4. results' \in Seq([job: Job, cfg: Nat, inv: Nat])
  <2>1. id \in Nat
    BY LenProperties DEF TypeOK, DatabaseTypeOK, ThreadTypeOK
  <2>2. invocation \in Nat
    BY CampaignAssumption DEF TypeOK, DatabaseTypeOK
  <2>3. [job |-> j, cfg |-> id, inv |-> invocation] \in [job: Job, cfg: Nat, inv: Nat]
    BY <1>1, <2>1, <2>2
  <2> QED BY <2>3, AppendProperties DEF StoreResult, TypeOK, DatabaseTypeOK
<1> QED BY <1>3, <1>4 DEF StoreResult, TypeOK, DatabaseTypeOK

\* A step keeps the types of the tables and files.
LEMMA DatabaseTypeStep ==
  ASSUME TypeOK, Control, [Next]_vars
  PROVE  DatabaseTypeOK'
<1> USE DEF TypeOK, At, db, process, vars
<1>1. ASSUME UNCHANGED db PROVE DatabaseTypeOK'
  BY <1>1 DEF DatabaseTypeOK
<1>2. ASSUME NEW t \in Thread, CommitResult(t) \/ InsertFails(t)
      PROVE  DatabaseTypeOK'
  BY <1>1, <1>2, StoreResultType DEF CommitResult, InsertFails
<1>3. ASSUME NEW t \in Thread, WriteResult(t) \/ DumpErrored(t)
      PROVE  DatabaseTypeOK'
  <2>1. Current(t) \in Job
    BY <1>3 DEF WriteResult, DumpErrored, Control, ThreadControl, Running
  <2>2. ASSUME NEW name, WriteFile(name, Current(t))
        PROVE  \A n \in DOMAIN files' : files'[n] \in Job
    BY <2>1, <2>2 DEF WriteFile, DatabaseTypeOK
  <2> QED BY <1>3, <2>2 DEF WriteResult, DumpErrored, DatabaseTypeOK
<1>4. ASSUME NEW t \in Thread, LogError(t) PROVE DatabaseTypeOK'
  <2>1. Current(t) \in Job
    BY <1>4 DEF LogError, Control, ThreadControl, Running
  <2>2. fault[t] \in Fault
    BY <1>4 DEF ThreadTypeOK, LogError, Control, ThreadControl, Failing
  <2>3. invocation \in Nat
    BY CampaignAssumption DEF DatabaseTypeOK
  <2>4. errors' \in Seq([job: Job, fault: Fault, inv: Nat])
    BY <1>4, <2>1, <2>2, <2>3, AppendProperties DEF LogError, DatabaseTypeOK
  <2> QED BY <1>4, <2>4 DEF LogError, DatabaseTypeOK
<1>5. ASSUME Launch PROVE DatabaseTypeOK'
  BY <1>5, CampaignAssumption DEF Launch, DatabaseTypeOK
<1> QED
  BY <1>1, <1>2, <1>3, <1>4, <1>5
  DEF Next, Step, Over, Die, JoinAll, SolveSampledFails, CheckErrorAborts, HandleFail, Abort,
      GetNextTask, Parse, Select, Route, CheckResult, CheckError, CheckErrorAborts, Solve,
      AcquireInsert, LookupConfig, AcquireError, LogFails
-----------------------------------------------------------------------------
(* The queue *)

\* The queue: no task is with two threads, or with a thread and still queued,
\* and a thread only ends when the queue is empty.
Queue ==
  /\ \A t \in Thread : task[t] # 0 =>
       /\ task[t] > remaining
       /\ \A u \in Thread : task[u] = task[t] => u = t
  /\ \A t \in Thread : pc[t] = "end" => remaining = 0

\* What a step does to the queue, to the tasks and to the life of the process.
LEMMA QueueMoves ==
  ASSUME TypeOK, Control, NEW t \in Thread, Step(t)
  PROVE  /\ proc \in {"up", "exiting"}
         /\ \/ /\ pc[t] = "fetch" /\ remaining # 0
               /\ task' = [task EXCEPT ![t] = remaining]
               /\ remaining' = remaining - 1
               /\ UNCHANGED proc /\ Goto(t, "parse")
            \/ /\ pc[t] = "select"
               /\ task' = [task EXCEPT ![t] = 0]
               /\ solver[t] \notin DOMAIN TaskList[task[t]].solvers
               /\ UNCHANGED <<proc, remaining>> /\ Goto(t, "fetch")
            \/ Gone /\ proc' = "aborted"
            \/ /\ UNCHANGED <<task, remaining>> /\ proc' \in {proc, "exiting"}
               /\ \E p \in PC : Goto(t, p) /\ (p = "end" => remaining = 0)
<1> USE DEF TypeOK, ThreadTypeOK, At, process, thread
<1>1. CASE GetNextTask(t)
  BY <1>1 DEF GetNextTask, PC
<1>2. CASE Select(t)
  BY <1>2 DEF Select, PC
<1>3. CASE CheckErrorAborts(t) \/ SolveSampledFails(t) \/ HandleFail(t)
  BY <1>3 DEF SolveSampledFails, CheckErrorAborts, HandleFail, Abort
<1>4. CASE LogFails(t)
  <2>1. pc' = pc \/ Goto(t, "exit")
    BY <1>4 DEF LogFails
  <2>2. pc' = pc => Goto(t, "log")
    BY <1>4 DEF LogFails, Goto
  <2> QED BY <1>4, <2>1, <2>2 DEF LogFails, PC
<1>5. CASE InsertFails(t)
  BY <1>5 DEF InsertFails, RetryInsert, Raise, PC
<1>6. CASE Parse(t) \/ Route(t) \/ CheckResult(t) \/ CheckError(t) \/ Solve(t)
  BY <1>6 DEF Parse, Route, CheckResult, CheckError, CheckErrorAborts, Solve, NextSolver, Raise, PC
<1>7. CASE AcquireInsert(t) \/ LookupConfig(t) \/ CommitResult(t)
  BY <1>7 DEF AcquireInsert, LookupConfig, CommitResult, PC
<1>8. CASE WriteResult(t) \/ DumpErrored(t) \/ AcquireError(t) \/ LogError(t)
  BY <1>8 DEF WriteResult, DumpErrored, AcquireError, LogError, NextSolver, PC
<1> QED BY <1>1, <1>2, <1>3, <1>4, <1>5, <1>6, <1>7, <1>8 DEF Step

\* A step keeps Queue: get_next_task() is one critical section.
LEMMA QueueStep ==
  ASSUME TypeOK, Control, Queue, [Next]_vars
  PROVE  Queue'
<1> USE DEF Queue
<1>1. ASSUME NEW t \in Thread, Step(t) PROVE Queue'
  <2>1. CASE Gone
    BY <2>1 DEF Gone
  <2>2. CASE /\ pc[t] = "fetch" /\ remaining # 0
             /\ task' = [task EXCEPT ![t] = remaining]
             /\ remaining' = remaining - 1 /\ Goto(t, "parse")
    <3>1. remaining \in Nat /\ \A u \in Thread : task[u] \in Nat
      BY CampaignAssumption DEF TypeOK, ProcessTypeOK, ThreadTypeOK, Task
    <3> QED BY <2>2, <3>1 DEF Goto, TypeOK, ThreadTypeOK
  <2>3. CASE UNCHANGED remaining /\ task' = [task EXCEPT ![t] = 0] /\ Goto(t, "fetch")
    BY <2>3 DEF Goto, TypeOK, ThreadTypeOK
  <2>4. CASE /\ UNCHANGED <<task, remaining>>
             /\ \E p \in PC : Goto(t, p) /\ (p = "end" => remaining = 0)
    BY <2>4 DEF Goto, TypeOK, ThreadTypeOK
  <2> QED BY <1>1, <2>1, <2>2, <2>3, <2>4, QueueMoves
<1>2. ASSUME Gone PROVE Queue'
  BY <1>2 DEF Gone
<1>3. ASSUME Launch PROVE Queue'
  BY <1>3 DEF Launch, Control, ThreadControl
<1>4. ASSUME UNCHANGED vars PROVE Queue'
  BY <1>4 DEF vars, process, thread
<1> QED BY <1>1, <1>2, <1>3, <1>4 DEF Next, Over, Die, JoinAll

-----------------------------------------------------------------------------
(* The mutexes, and the table of configurations they protect *)

\* A mutex of Storage is held by the thread in its critical section, and by a
\* thread that is inside exit().
Guarded == [m \in Mutex |-> IF m = "insert_mutex" THEN {"lookup", "commit"}
                                                  ELSE {"log", "exit"}]

Locks == \A m \in Mutex : \A t \in Thread : pc[t] \in Guarded[m] <=> owner[m] = t

\* Between lookup and commit, what was looked up is what is in the database.
Lookups ==
  \A t \in Thread : pc[t] = "commit" =>
    IF cfg[t] = 0 THEN MatchingConfigs(Current(t)) = {}
                  ELSE cfg[t] \in MatchingConfigs(Current(t))

ConfigTable == Lookups /\ NoDuplicateConfig /\ LinkedToOwnConfig

\* A thread outside the critical sections keeps Locks by taking the mutex of
\* the one it enters.
LEMMA LockTaken ==
  ASSUME TypeOK, Locks, NEW t \in Thread, NEW m \in Mutex, NEW p,
         Lock(m, t), pc' = [pc EXCEPT ![t] = p],
         \A n \in Mutex : pc[t] \notin Guarded[n],
         \A n \in Mutex : p \in Guarded[n] <=> n = m
  PROVE  Locks'
<1>1. /\ pc \in [Thread -> PC] /\ owner \in [Mutex -> Thread \union {NoThread}]
      /\ NoThread \notin Thread
  BY CampaignAssumption DEF TypeOK, ProcessTypeOK, ThreadTypeOK
<1>2. Guarded' = Guarded
  BY DEF Guarded, Mutex
<1>3. owner[m] = NoThread /\ owner' = [owner EXCEPT ![m] = t]
  BY DEF Lock
<1>4. ASSUME NEW n \in Mutex, NEW u \in Thread
      PROVE  pc'[u] \in Guarded[n] <=> owner'[n] = u
  <2>1. pc[u] \in Guarded[n] <=> owner[n] = u
    BY DEF Locks
  <2>2. CASE u = t
    BY <1>1, <1>3, <2>1, <2>2
  <2>3. CASE u # t
    BY <1>1, <1>3, <2>1, <2>3
  <2> QED BY <2>2, <2>3
<1> QED BY <1>2, <1>4 DEF Locks, Mutex

\* A thread keeps Locks that gives the mutex back as it leaves.
LEMMA LockGiven ==
  ASSUME TypeOK, Locks, NEW t \in Thread, NEW m \in Mutex, NEW p,
         Unlock(m), pc' = [pc EXCEPT ![t] = p],
         pc[t] \in Guarded[m], \A n \in Mutex : p \notin Guarded[n]
  PROVE  Locks'
<1>1. /\ pc \in [Thread -> PC] /\ owner \in [Mutex -> Thread \union {NoThread}]
      /\ NoThread \notin Thread
  BY CampaignAssumption DEF TypeOK, ProcessTypeOK, ThreadTypeOK
<1>2. Guarded' = Guarded
  BY DEF Guarded, Mutex
<1>3. owner[m] = t /\ owner' = [owner EXCEPT ![m] = NoThread]
  BY DEF Unlock, Locks
<1>4. ASSUME NEW n \in Mutex, NEW u \in Thread
      PROVE  pc'[u] \in Guarded[n] <=> owner'[n] = u
  <2>1. pc[u] \in Guarded[n] <=> owner[n] = u
    BY DEF Locks
  <2>2. pc[t] \in Guarded[n] => n = m
    BY DEF Guarded, Mutex
  <2>3. CASE u = t
    BY <1>1, <1>3, <2>1, <2>2, <2>3
  <2>4. CASE u # t
    BY <1>1, <1>3, <2>1, <2>4
  <2> QED BY <2>3, <2>4
<1> QED BY <1>2, <1>4 DEF Locks, Mutex

\* A step keeps Locks: every path out of a critical section releases its
\* mutex, but for exit().
LEMMA LocksStep ==
  ASSUME TypeOK, Control, Locks, [Next]_vars
  PROVE  Locks'
<1> USE DEF TypeOK, ProcessTypeOK, ThreadTypeOK, At, Goto, process, thread, vars
<1> DEFINE I == "insert_mutex"
           E == "insert_error_mutex"
<1>0. Locks <=> \A t \in Thread : /\ pc[t] \in {"lookup", "commit"} <=> owner[I] = t
                                  /\ pc[t] \in {"log", "exit"} <=> owner[E] = t
  BY DEF Locks, Guarded, Mutex
<1>1. Locks' <=> \A t \in Thread : /\ pc'[t] \in {"lookup", "commit"} <=> owner'[I] = t
                                   /\ pc'[t] \in {"log", "exit"} <=> owner'[E] = t
  BY DEF Locks, Guarded, Mutex
<1>2. ASSUME NEW t \in Thread, UNCHANGED owner,
             NEW p \in PC, pc' = [pc EXCEPT ![t] = p],
             p \in {"lookup", "commit"} <=> pc[t] \in {"lookup", "commit"},
             p \in {"log", "exit"} <=> pc[t] \in {"log", "exit"}
      PROVE  Locks'
  BY <1>0, <1>1, <1>2
<1>3. ASSUME NEW t \in Thread, AcquireInsert(t) \/ AcquireError(t) PROVE Locks'
  <2>1. CASE AcquireInsert(t)
    BY <2>1, LockTaken DEF AcquireInsert, Guarded, Mutex
  <2>2. CASE AcquireError(t)
    BY <2>2, LockTaken DEF AcquireError, Guarded, Mutex
  <2> QED BY <1>3, <2>1, <2>2
<1>4. ASSUME NEW t \in Thread, CommitResult(t) PROVE Locks'
  BY <1>4, LockGiven DEF CommitResult, Guarded, Mutex
<1>5. ASSUME NEW t \in Thread, InsertFails(t) PROVE Locks'
  <2>1. pc[t] \in {"lookup", "commit"}
    BY <1>5 DEF InsertFails
  <2>2. CASE pc' = [pc EXCEPT ![t] = "lookup"] /\ UNCHANGED owner
    BY <1>2, <2>1, <2>2 DEF PC
  <2>3. CASE Raise(t, "io") /\ Unlock(I)
    BY <2>1, <2>3, LockGiven DEF Raise, Guarded, Mutex
  <2> QED BY <1>5, <2>2, <2>3 DEF InsertFails, RetryInsert
<1>6. ASSUME NEW t \in Thread, LogError(t) PROVE Locks'
  <2>1. /\ pc[t] = "log" /\ Unlock(E)
        /\ \E p \in {"fail", "select"} : pc' = [pc EXCEPT ![t] = p]
    BY <1>6 DEF LogError, NextSolver
  <2> QED BY <2>1, LockGiven DEF Guarded, Mutex
<1>7. ASSUME NEW t \in Thread, LogFails(t) PROVE Locks'
  <2>1. CASE pc' = pc
    BY <1>0, <1>1, <1>7, <2>1 DEF LogFails
  <2>2. CASE pc' = [pc EXCEPT ![t] = "exit"]
    BY <1>2, <1>7, <2>2 DEF LogFails, PC
  <2> QED BY <1>7, <2>1, <2>2 DEF LogFails
<1>8. ASSUME NEW t \in Thread,
             GetNextTask(t) \/ Parse(t) \/ Select(t) \/ WriteResult(t) \/ DumpErrored(t)
      PROVE  Locks'
  <2>1. /\ UNCHANGED owner /\ pc[t] \in {"fetch", "parse", "select", "write", "dump"}
        /\ \E p \in {"fetch", "parse", "select", "route", "end", "report"} :
             pc' = [pc EXCEPT ![t] = p]
    BY <1>8 DEF GetNextTask, Parse, Select, WriteResult, DumpErrored, NextSolver
  <2> QED BY <1>0, <1>1, <2>1
<1>9. ASSUME NEW t \in Thread,
             Route(t) \/ CheckResult(t) \/ CheckError(t) \/ Solve(t) \/ LookupConfig(t)
      PROVE  Locks'
  <2>1. CASE LookupConfig(t)
    BY <1>2, <2>1 DEF LookupConfig, PC
  <2>2. CASE ~LookupConfig(t)
    <3>1. /\ UNCHANGED owner
          /\ pc[t] \in {"route", "check_result", "check_error", "solve"}
          /\ \E p \in {"check_result", "check_error", "solve", "insert", "dump",
                       "report", "select"} : pc' = [pc EXCEPT ![t] = p]
      BY <1>9, <2>2 DEF Route, CheckResult, CheckError, CheckErrorAborts, Solve, NextSolver, Raise
    <3> QED BY <1>0, <1>1, <3>1
  <2> QED BY <2>1, <2>2
<1>10. ASSUME Gone PROVE Locks'
  BY <1>1, <1>10, CampaignAssumption DEF Gone, Mutex
<1>11. ASSUME Launch PROVE Locks'
  <2>1. UNCHANGED owner /\ \A t \in Thread : pc'[t] \in {"fetch", "off"}
    BY <1>11 DEF Launch
  <2>2. \A t \in Thread : pc[t] = "end"
    BY <1>11 DEF Launch, Control
  <2> QED BY <1>0, <1>1, <2>1, <2>2
<1>12. ASSUME UNCHANGED vars PROVE Locks'
  BY <1>0, <1>1, <1>12
<1> QED
  BY <1>3, <1>4, <1>5, <1>6, <1>7, <1>8, <1>9, <1>10, <1>11, <1>12
  DEF Next, Step, Over, Die, JoinAll, SolveSampledFails, CheckErrorAborts, HandleFail, Abort

\* What one transaction of insert() writes keeps the configurations unique and
\* the new result linked, if the lookup before it is still right.
LEMMA StoreResultConfigs ==
  ASSUME TypeOK, Control, ConfigTable, NEW t \in Thread, pc[t] = "commit",
         StoreResult(t)
  PROVE  NoDuplicateConfig' /\ LinkedToOwnConfig'
<1> USE DEF TypeOK, DatabaseTypeOK, ConfigTable
<1> DEFINE j == Current(t)
           id == IF cfg[t] = 0 THEN Len(configs) + 1 ELSE cfg[t]
           row == [key |-> ConfigKey(j), limit |-> TaskList[j[1]].limit]
<1>1. IF cfg[t] = 0 THEN \A n \in DOMAIN configs : configs[n].key # ConfigKey(j)
                    ELSE cfg[t] \in DOMAIN configs /\ configs[cfg[t]].key = ConfigKey(j)
  BY DEF Lookups, MatchingConfigs
<1>2. /\ DOMAIN configs = 1 .. Len(configs) /\ Len(configs) \in Nat
      /\ DOMAIN results = 1 .. Len(results) /\ Len(results) \in Nat
  BY LenProperties
<1>3. IF cfg[t] = 0
      THEN /\ DOMAIN configs' = 1 .. Len(configs) + 1
           /\ \A n \in DOMAIN configs : configs'[n] = configs[n]
           /\ configs'[Len(configs) + 1] = row
      ELSE configs' = configs
  BY <1>2 DEF StoreResult
<1>4. /\ DOMAIN results' = 1 .. Len(results) + 1
      /\ \A n \in DOMAIN results : results'[n] = results[n]
      /\ results'[Len(results) + 1].cfg = id
      /\ results'[Len(results) + 1].job = j
  BY <1>2 DEF StoreResult
<1>5. NoDuplicateConfig'
  <2>1. CASE cfg[t] = 0
    <3>1. \A n \in DOMAIN configs : configs'[n].key # ConfigKey(j)
      BY <1>1, <1>3, <2>1
    <3>2. configs'[Len(configs) + 1].key = ConfigKey(j)
      BY <1>3, <2>1
    <3>3. \A m, n \in DOMAIN configs : configs'[m].key = configs'[n].key => m = n
      BY <1>3, <2>1 DEF NoDuplicateConfig
    <3>4. DOMAIN configs' = DOMAIN configs \union {Len(configs) + 1}
      BY <1>2, <1>3, <2>1
    <3> QED BY <3>1, <3>2, <3>3, <3>4, Zenon DEF NoDuplicateConfig
  <2>2. CASE cfg[t] # 0
    BY <1>3, <2>2 DEF NoDuplicateConfig
  <2> QED BY <2>1, <2>2
<1>6. id \in DOMAIN configs' /\ configs'[id].key = ConfigKey(j)
  BY <1>1, <1>2, <1>3
<1>7. \A n \in DOMAIN configs : n \in DOMAIN configs' /\ configs'[n] = configs[n]
  BY <1>2, <1>3
<1>8. ASSUME NEW n \in DOMAIN results'
      PROVE  /\ results'[n].cfg \in DOMAIN configs'
             /\ configs'[results'[n].cfg].key = ConfigKey(results'[n].job)
  <2>1. CASE n \in DOMAIN results
    BY <1>4, <1>7, <2>1 DEF LinkedToOwnConfig
  <2>2. CASE n = Len(results) + 1
    BY <1>4, <1>6, <2>2
  <2>3. n \in DOMAIN results \/ n = Len(results) + 1
    BY <1>2, <1>4, <1>8
  <2> QED BY <2>1, <2>2, <2>3
<1>9. LinkedToOwnConfig'
  BY <1>8 DEF LinkedToOwnConfig, ConfigKey
<1> QED BY <1>5, <1>9

\* A step keeps ConfigTable: nobody writes between the lookup and the commit of
\* the thread that holds insert_mutex.
LEMMA ConfigTableStep ==
  ASSUME TypeOK, Control, Locks, ConfigTable, [Next]_vars
  PROVE  ConfigTable'
<1> USE DEF At, Goto, db, process, thread, vars
<1>1. ASSUME UNCHANGED <<results, configs>>,
             \A t \in Thread : pc'[t] = "commit" =>
               /\ pc[t] = "commit" /\ cfg'[t] = cfg[t]
               /\ task'[t] = task[t] /\ solver'[t] = solver[t]
      PROVE  ConfigTable'
  BY <1>1 DEF ConfigTable, Lookups, NoDuplicateConfig, LinkedToOwnConfig,
              MatchingConfigs, ConfigKey, Current
<1>2. ASSUME NEW t \in Thread, CommitResult(t) \/ InsertFails(t), StoreResult(t),
             pc[t] = "commit"
      PROVE  ConfigTable'
  <2>1. \A u \in Thread : pc[u] = "commit" => u = t
    BY <1>2 DEF Locks, Guarded, Mutex
  <2>2. \A u \in Thread : pc'[u] # "commit"
    BY <1>2, <2>1 DEF CommitResult, InsertFails, RetryInsert, Raise, TypeOK, ThreadTypeOK
  <2> QED BY <1>2, <2>2, StoreResultConfigs DEF ConfigTable, Lookups
<1>3. ASSUME NEW t \in Thread, LookupConfig(t) PROVE ConfigTable'
  <2>1. \A u \in Thread : pc[u] # "commit"
    BY <1>3 DEF LookupConfig, Locks, Guarded, Mutex
  <2>2. /\ UNCHANGED <<results, configs, task, solver>>
        /\ \A u \in Thread : pc'[u] = "commit" => u = t
    BY <1>3, <2>1 DEF LookupConfig, TypeOK, ThreadTypeOK
  <2>3. 0 \notin DOMAIN configs
    BY LenProperties DEF TypeOK, DatabaseTypeOK
  <2>4. IF cfg'[t] = 0 THEN MatchingConfigs(Current(t)) = {}
                       ELSE cfg'[t] \in MatchingConfigs(Current(t))
    <3>1. CASE MatchingConfigs(Current(t)) = {}
      BY <1>3, <3>1 DEF LookupConfig, TypeOK, ThreadTypeOK
    <3>2. CASE MatchingConfigs(Current(t)) # {}
      <4>1. PICK n \in MatchingConfigs(Current(t)) : cfg' = [cfg EXCEPT ![t] = n]
        BY <1>3, <3>2, Zenon DEF LookupConfig
      <4>2. n # 0
        BY <2>3 DEF MatchingConfigs
      <4> QED BY <4>1, <4>2 DEF TypeOK, ThreadTypeOK
    <3> QED BY <3>1, <3>2
  <2>5. MatchingConfigs(Current(t))' = MatchingConfigs(Current(t))
    BY <2>2 DEF MatchingConfigs, ConfigKey, Current
  <2>6. Lookups'
    BY <2>2, <2>4, <2>5, Zenon DEF Lookups
  <2> QED BY <2>2, <2>6 DEF ConfigTable, NoDuplicateConfig, LinkedToOwnConfig, ConfigKey
<1>4. ASSUME NEW t \in Thread, InsertFails(t), UNCHANGED db PROVE ConfigTable'
  BY <1>1, <1>4 DEF InsertFails, RetryInsert, Raise, TypeOK, ThreadTypeOK
<1>5. ASSUME NEW t \in Thread,
             GetNextTask(t) \/ Parse(t) \/ Select(t) \/ Route(t) \/ CheckResult(t)
               \/ CheckError(t) \/ Solve(t) \/ AcquireInsert(t)
      PROVE  ConfigTable'
  BY <1>1, <1>5 DEF GetNextTask, Parse, Select, Route, CheckResult, CheckError, CheckErrorAborts,
     Solve, AcquireInsert, NextSolver, Raise, TypeOK, ThreadTypeOK
<1>6. ASSUME NEW t \in Thread,
             WriteResult(t) \/ DumpErrored(t) \/ AcquireError(t) \/ LogError(t)
               \/ LogFails(t)
      PROVE  ConfigTable'
  BY <1>1, <1>6 DEF WriteResult, DumpErrored, AcquireError, LogError, LogFails,
     NextSolver, TypeOK, ThreadTypeOK
<1>7. ASSUME Gone, UNCHANGED db PROVE ConfigTable'
  BY <1>1, <1>7 DEF Gone
<1>8. ASSUME Launch PROVE ConfigTable'
  BY <1>1, <1>8 DEF Launch
<1>9. ASSUME UNCHANGED vars PROVE ConfigTable'
  BY <1>1, <1>9
<1>10. ASSUME NEW t \in Thread, CommitResult(t) \/ InsertFails(t) PROVE ConfigTable'
  BY <1>2, <1>4, <1>10 DEF CommitResult, InsertFails
<1> QED
  BY <1>3, <1>5, <1>6, <1>7, <1>8, <1>9, <1>10
  DEF Next, Step, Over, Die, JoinAll, SolveSampledFails, CheckErrorAborts, HandleFail, Abort

-----------------------------------------------------------------------------
(* Accounting: nothing is dropped *)

\* What this launch has to show for a job, and what still has to be done.
Stored(j) == \E n \in DOMAIN results : results[n].job = j /\ results[n].inv = invocation

Reported(j) == \E n \in DOMAIN errors : errors[n].job = j /\ errors[n].inv = invocation

Skipped(j) == \/ "skip_done" \in flags /\ HasResult(ResultKey(j))
              \/ "skip_oom" \in flags /\ OomRows(ErrorKey(j)) # {}

Done(j) == Stored(j) \/ Reported(j) \/ Skipped(j)

Todo(j) == \/ j[1] <= remaining
           \/ \E t \in Thread : task[t] = j[1] /\ j[2] >= solver[t]

\* While a process runs, every job is still to be done or this launch has
\* something to show for it.
Accounting ==
  /\ proc \in {"up", "exiting"} => \A j \in Job : Todo(j) \/ Done(j)
  /\ \A t \in Thread : pc[t] = "write" => Stored(Current(t))
  /\ Accounted

\* No step removes or changes a row.
LEMMA DatabaseGrows ==
  ASSUME TypeOK, Control, [Next]_vars
  PROVE  /\ \A n \in DOMAIN results : n \in DOMAIN results' /\ results'[n] = results[n]
         /\ \A n \in DOMAIN errors : n \in DOMAIN errors' /\ errors'[n] = errors[n]
<1> USE DEF TypeOK, DatabaseTypeOK, db, process, vars
<1>1. CASE UNCHANGED <<results, errors>>
  BY <1>1
<1>2. ASSUME NEW t \in Thread, StoreResult(t)
      PROVE  \A n \in DOMAIN results : n \in DOMAIN results' /\ results'[n] = results[n]
  BY <1>2, LenProperties DEF StoreResult
<1>3. ASSUME NEW t \in Thread, CommitResult(t) \/ InsertFails(t)
      PROVE  /\ UNCHANGED errors
             /\ \A n \in DOMAIN results : n \in DOMAIN results' /\ results'[n] = results[n]
  BY <1>2, <1>3 DEF CommitResult, InsertFails, StoreResult
<1>4. ASSUME NEW t \in Thread, LogError(t)
      PROVE  /\ UNCHANGED results
             /\ \A n \in DOMAIN errors : n \in DOMAIN errors' /\ errors'[n] = errors[n]
  BY <1>4, LenProperties DEF LogError
<1> QED
  BY <1>1, <1>3, <1>4
  DEF Next, Step, Over, Die, JoinAll, SolveSampledFails, CheckErrorAborts, HandleFail, Abort, Launch,
      GetNextTask, Parse, Select, Route, CheckResult, CheckError, CheckErrorAborts, Solve,
      AcquireInsert, LookupConfig, WriteResult, DumpErrored, AcquireError, LogFails

\* A step of a thread belongs to the launch it is in.
LEMMA SameLaunch ==
  ASSUME NEW t \in Thread, Step(t)
  PROVE  UNCHANGED <<invocation, flags>>
BY DEF Step, GetNextTask, Parse, Select, Route, CheckResult, CheckError, CheckErrorAborts,
   Solve, SolveSampledFails, AcquireInsert, LookupConfig, CommitResult, InsertFails,
   StoreResult, WriteResult, DumpErrored, AcquireError, LogError, LogFails, HandleFail,
   Abort, Gone, db, process

\* So what a launch has to show for a job stays there.
LEMMA DoneStays ==
  ASSUME TypeOK, Control, [Next]_vars, UNCHANGED <<invocation, flags>>
  PROVE  /\ \A j : Stored(j) => Stored(j)'
         /\ \A j : Done(j) => Done(j)'
<1>1. ASSUME NEW j, Stored(j) PROVE Stored(j)'
  BY <1>1, DatabaseGrows DEF Stored
<1>2. ASSUME NEW j, Reported(j) PROVE Reported(j)'
  BY <1>2, DatabaseGrows DEF Reported
<1>3. ASSUME NEW j, Skipped(j) PROVE Skipped(j)'
  <2>1. HasResult(ResultKey(j)) => HasResult(ResultKey(j))'
    BY DatabaseGrows, Zenon DEF HasResult, ResultKey, Solver
  <2>2. OomRows(ErrorKey(j)) # {} => OomRows(ErrorKey(j))' # {}
    <3>1. \A n \in OomRows(ErrorKey(j)) : n \in OomRows(ErrorKey(j))'
      BY DatabaseGrows DEF OomRows, ErrorKey, Solver
    <3> QED BY <3>1
  <2> QED BY <1>3, <2>1, <2>2, Zenon DEF Skipped
<1>4. ASSUME NEW j, Done(j) PROVE Done(j)'
  BY <1>1, <1>2, <1>3, <1>4, Zenon DEF Done
<1> QED BY <1>1, <1>4

\* Nothing of what is still to be done is lost when a thread moves on.
LEMMA TodoStep ==
  ASSUME TypeOK, Control, Accounting, NEW t \in Thread, Step(t), NEW j \in Job, Todo(j)
  PROVE  Todo(j)' \/ Done(j)' \/ proc' = "aborted"
<1> USE DEF Todo, TypeOK, ThreadTypeOK, At, Goto, process, thread
<1>0. /\ j = <<j[1], j[2]>> /\ j[1] \in Nat \ {0} /\ j[2] \in Nat \ {0}
      /\ remaining \in Nat /\ solver[t] \in Nat
  <2>1. j[1] \in Task
    BY JobMember
  <2>2. j[2] \in DOMAIN TaskList[j[1]].solvers
    BY JobMember
  <2>3. j[2] \in Nat \ {0}
    BY <2>1, <2>2, TaskSolvers
  <2>4. Len(TaskList) \in Nat
    BY CampaignAssumption, LenProperties
  <2>5. remaining \in Nat
    BY <2>4 DEF ProcessTypeOK
  <2>6. Task \subseteq Nat \ {0}
    BY <2>4 DEF Task
  <2> QED BY <2>1, <2>3, <2>5, <2>6, JobMember
<1>a. [Next]_vars /\ UNCHANGED <<invocation, flags>>
  BY SameLaunch DEF Next
<1>1. CASE UNCHANGED <<task, solver, remaining>>
  BY <1>1
<1>2. CASE GetNextTask(t)
  <2>1. CASE remaining = 0
    BY <1>1, <1>2, <2>1 DEF GetNextTask
  <2>2. CASE remaining # 0
    <3>1. solver[t] = 0 /\ task[t] = 0
      BY <1>2 DEF GetNextTask, Control, ThreadControl
    <3>2. task'[t] = remaining /\ solver' = solver /\ remaining' = remaining - 1
      BY <1>2, <2>2 DEF GetNextTask
    <3>3. \A u \in Thread : u # t => task'[u] = task[u]
      BY <1>2, <2>2 DEF GetNextTask
    <3>4. CASE j[1] <= remaining
      BY <1>0, <3>1, <3>2, <3>4
    <3>5. CASE \E u \in Thread : task[u] = j[1] /\ j[2] >= solver[u]
      BY <1>0, <3>1, <3>2, <3>3, <3>5
    <3> QED BY <3>4, <3>5
  <2> QED BY <2>1, <2>2
<1>3. CASE Parse(t)
  BY <1>0, <1>3 DEF Parse
<1>4. CASE Select(t)
  <2>1. CASE Goto(t, "route") /\ UNCHANGED <<task, solver>>
    BY <1>1, <1>4, <2>1 DEF Select
  <2>2. CASE solver[t] \notin DOMAIN TaskList[task[t]].solvers
    <3>1. solver[t] \in Nat \ {0}
      BY <1>4 DEF Select, Control, ThreadControl
    <3>2. ~(task[t] = j[1] /\ j[2] >= solver[t])
      BY <2>2, <3>1, JobMember, TaskSolvers
    <3>3. /\ \A u \in Thread : u # t => task'[u] = task[u] /\ solver'[u] = solver[u]
          /\ remaining' = remaining
      BY <1>4 DEF Select
    <3> QED BY <3>2, <3>3
  <2> QED BY <1>4, <2>1, <2>2 DEF Select
<1>5. ASSUME NextSolver(t), UNCHANGED remaining, j = Current(t) => Done(j)'
      PROVE  Todo(j)' \/ Done(j)'
  <2>1. /\ \A u \in Thread : u # t => solver'[u] = solver[u]
        /\ solver'[t] = solver[t] + 1 /\ UNCHANGED <<task, remaining>>
    BY <1>5 DEF NextSolver
  <2>2. j[2] > solver[t] => j[2] >= solver'[t]
    BY <1>0, <2>1
  <2>3. task[t] = j[1] /\ j[2] = solver[t] => j = Current(t)
    BY <1>0 DEF Current
  <2>4. task[t] = j[1] /\ j[2] >= solver[t] => j[2] > solver[t] \/ j = Current(t)
    BY <1>0, <2>3
  <2> QED BY <1>5, <2>1, <2>2, <2>4
<1>6. CASE CheckResult(t) \/ CheckError(t)
  <2>1. CASE UNCHANGED <<task, solver, trial, cfg, fault>>
    BY <1>1, <1>6, <2>1 DEF CheckResult, CheckError
  <2>2. CASE /\ NextSolver(t)
             /\ \/ "skip_done" \in flags /\ HasResult(ResultKey(Current(t)))
                \/ "skip_oom" \in flags /\ OomRows(ErrorKey(Current(t))) # {}
    <3>1. j = Current(t) => Done(j)
      BY <2>2 DEF Done, Skipped
    <3>2. j = Current(t) => Done(j)'
      BY <1>a, <3>1, DoneStays
    <3> QED BY <1>5, <1>6, <2>2, <3>2 DEF CheckResult, CheckError
  <2> QED BY <1>6, <2>1, <2>2 DEF CheckResult, CheckError
<1>7. CASE WriteResult(t)
  <2>1. j = Current(t) => Done(j)
    BY <1>7 DEF WriteResult, Accounting, Done
  <2>2. j = Current(t) => Done(j)'
    BY <1>a, <2>1, DoneStays
  <2> QED BY <1>5, <1>7, <2>2 DEF WriteResult
<1>8. CASE LogError(t)
  <2>1. ASSUME j = Current(t) PROVE Done(j)'
    <3> DEFINE row == [job |-> Current(t), fault |-> fault[t], inv |-> invocation]
    <3>1. Len(errors) + 1 \in DOMAIN errors' /\ errors'[Len(errors) + 1] = row
      BY <1>8, LenProperties DEF LogError, DatabaseTypeOK
    <3>2. row.job = j /\ row.inv = invocation
      BY <2>1
    <3> HIDE DEF row
    <3>3. Reported(j)'
      BY <1>a, <3>1, <3>2 DEF Reported
    <3> QED BY <3>3 DEF Done
  <2>2. CASE NextSolver(t)
    BY <1>5, <1>8, <2>1, <2>2 DEF LogError
  <2> QED BY <1>1, <1>8, <2>2 DEF LogError
<1>9. CASE CheckErrorAborts(t) \/ SolveSampledFails(t) \/ HandleFail(t)
  BY <1>9 DEF SolveSampledFails, CheckErrorAborts, HandleFail, Abort
<1> QED
  BY <1>1, <1>2, <1>3, <1>4, <1>6, <1>7, <1>8, <1>9
  DEF Step, Route, Solve, AcquireInsert,
      LookupConfig, CommitResult, InsertFails, RetryInsert, Raise, DumpErrored,
      AcquireError, LogFails

\* A step keeps Accounting.
LEMMA AccountingStep ==
  ASSUME TypeOK, Control, Queue, Accounting, [Next]_vars
  PROVE  Accounting'
<1> USE DEF Accounting
<1>1. ASSUME proc' \in {"up", "exiting"}
      PROVE  \A j \in Job : Todo(j)' \/ Done(j)'
  <2> SUFFICES ASSUME NEW j \in Job PROVE Todo(j)' \/ Done(j)'
    OBVIOUS
  <2>1. ASSUME NEW t \in Thread, Step(t) PROVE Todo(j)' \/ Done(j)'
    <3>1. proc \in {"up", "exiting"}
      BY <2>1, QueueMoves
    <3>2. Todo(j) \/ Done(j)
      BY <3>1
    <3> QED BY <1>1, <2>1, <3>2, TodoStep, SameLaunch, DoneStays DEF Next
  <2>2. ASSUME Launch PROVE Todo(j)'
    BY <2>2, JobMember DEF Launch, Todo, Task
  <2>3. ASSUME UNCHANGED vars PROVE Todo(j)' \/ Done(j)'
    <3>1. UNCHANGED <<invocation, flags>>
      BY <2>3 DEF vars, db, process
    <3> QED BY <1>1, <2>3, <3>1, DoneStays DEF vars, process, thread, Todo
  <2> QED BY <1>1, <2>1, <2>2, <2>3 DEF Next, Over, Die, JoinAll
<1>2. ASSUME NEW u \in Thread, pc'[u] = "write" PROVE Stored(Current(u))'
  <2>0. UNCHANGED <<invocation, flags>>
    BY <1>2, SameLaunch DEF Next, Over, Die, JoinAll, Launch, Gone, vars, db, process
  <2>1. CASE pc[u] = "write" /\ task'[u] = task[u] /\ solver'[u] = solver[u]
    <3>1. PICK j : j = Current(u)
      OBVIOUS
    <3>2. Stored(j)'
      BY <2>0, <2>1, <3>1, DoneStays
    <3> QED BY <2>1, <3>1, <3>2 DEF Current, Stored
  <2>2. CASE CommitResult(u)
    <3>1. /\ Len(results) + 1 \in DOMAIN results'
          /\ results'[Len(results) + 1].job = Current(u)
          /\ results'[Len(results) + 1].inv = invocation
      BY <2>2, LenProperties DEF CommitResult, StoreResult, TypeOK, DatabaseTypeOK
    <3>2. Current(u)' = Current(u)
      BY <2>2 DEF CommitResult, Current
    <3> QED BY <2>0, <3>1, <3>2 DEF Stored
  <2>3. ASSUME NEW t \in Thread, Step(t), ~CommitResult(u)
        PROVE  pc[u] = "write" /\ task'[u] = task[u] /\ solver'[u] = solver[u]
    <3>1. CASE u # t
      BY <1>2, <2>3, <3>1, OthersStay DEF TypeOK, Gone
    <3>2. CASE u = t
      BY <1>2, <2>3, <3>2
      DEF Step, GetNextTask, Parse, Select, Route, CheckResult, CheckError, CheckErrorAborts, Solve,
          SolveSampledFails, AcquireInsert, LookupConfig, InsertFails, RetryInsert,
          WriteResult, DumpErrored, AcquireError, LogError, LogFails, HandleFail, Abort,
          Gone, NextSolver, Raise, Goto, At, TypeOK, ThreadTypeOK
    <3> QED BY <3>1, <3>2
  <2>4. ~Gone /\ ~Launch
    BY <1>2 DEF Gone, Launch
  <2>5. UNCHANGED vars => pc[u] = "write" /\ UNCHANGED <<task, solver>>
    BY <1>2 DEF vars, thread
  <2> QED BY <2>1, <2>2, <2>3, <2>4, <2>5 DEF Next, Over, Die, JoinAll
<1>3. ASSUME proc' = "finished" PROVE \A j \in Job : Done(j)'
  <2>1. CASE UNCHANGED vars
    <3>1. UNCHANGED <<invocation, flags>> /\ proc = "finished"
      BY <1>3, <2>1 DEF vars, db, process
    <3> QED BY <3>1, DoneStays DEF Accounted, Done, Stored, Reported, Skipped
  <2>2. CASE JoinAll
    <3>1. remaining = 0 /\ \A t \in Thread : task[t] = 0
      BY <2>2 DEF JoinAll, Queue, Control, ThreadControl
    <3>2. \A j \in Job : ~Todo(j)
      BY <3>1, JobMember DEF Todo, Task
    <3>3. UNCHANGED <<invocation, flags>>
      BY <2>2 DEF JoinAll, Gone, db
    <3> QED BY <2>2, <3>2, <3>3, DoneStays DEF JoinAll
  <2>3. ASSUME NEW t \in Thread, Step(t) PROVE FALSE
    BY <1>3, <2>3, QueueMoves
  <2> QED BY <1>3, <2>1, <2>2, <2>3 DEF Next, Over, Launch, Die
<1>4. Accounted'
  BY <1>3 DEF Accounted, Done, Stored, Reported, Skipped
<1> QED BY <1>1, <1>2, <1>4

-----------------------------------------------------------------------------
(* A launch stores a job once *)

\* What a launch is past: its task has been handed out, and the thread that has
\* it is at a later solver, or about to write the file of this one.
Past(j) == /\ j[1] > remaining
           /\ \A t \in Thread : task[t] = j[1] =>
                \/ j[2] < solver[t]
                \/ j[2] = solver[t] /\ pc[t] = "write"

RowsOfLaunch ==
  /\ \A n \in DOMAIN results : results[n].inv <= invocation
  /\ \A n \in DOMAIN results :
       results[n].inv = invocation /\ proc \in {"up", "exiting"} => Past(results[n].job)
  /\ OneRowPerRun

\* A thread does not go back to a job it is past.
LEMMA PastStays ==
  ASSUME TypeOK, Control, Queue, NEW t \in Thread, Step(t), NEW j \in Job, Past(j)
  PROVE  Past(j)' \/ proc' = "aborted"
<1> USE DEF Past, TypeOK, ThreadTypeOK, At, Goto, process, thread
<1>0. /\ j[1] \in Nat \ {0} /\ j[2] \in Nat \ {0}
      /\ remaining \in Nat /\ solver[t] \in Nat
  <2>1. j[1] \in Task
    BY JobMember
  <2>2. j[2] \in DOMAIN TaskList[j[1]].solvers
    BY JobMember
  <2>3. j[2] \in Nat \ {0}
    BY <2>1, <2>2, TaskSolvers
  <2>4. Len(TaskList) \in Nat
    BY CampaignAssumption, LenProperties
  <2>5. remaining \in Nat
    BY <2>4 DEF ProcessTypeOK
  <2>6. Task \subseteq Nat \ {0}
    BY <2>4 DEF Task
  <2> QED BY <2>1, <2>3, <2>5, <2>6
<1>1. ASSUME UNCHANGED <<task, solver, remaining>>, pc[t] # "write",
             NEW p \in PC, pc' = [pc EXCEPT ![t] = p]
      PROVE  Past(j)'
  BY <1>1
<1>2. CASE GetNextTask(t)
  <2>1. pc[t] # "write" /\ pc'[t] # "write"
    BY <1>2 DEF GetNextTask
  <2>2. CASE remaining = 0
    BY <1>1, <1>2, <2>1, <2>2 DEF GetNextTask, PC
  <2>3. CASE remaining # 0
    <3>1. /\ task' = [task EXCEPT ![t] = remaining] /\ remaining' = remaining - 1
          /\ UNCHANGED solver /\ pc' = [pc EXCEPT ![t] = "parse"]
      BY <1>2, <2>3 DEF GetNextTask
    <3> QED BY <1>0, <2>1, <3>1
  <2> QED BY <2>2, <2>3
<1>3. CASE Parse(t)
  <2>1. task[t] # j[1]
    BY <1>0, <1>3 DEF Parse, Control, ThreadControl
  <2> QED BY <1>3, <2>1 DEF Parse
<1>4. CASE Select(t)
  <2>1. CASE Goto(t, "route") /\ UNCHANGED <<task, solver>>
    BY <1>1, <1>4, <2>1 DEF Select, PC
  <2>2. CASE task' = [task EXCEPT ![t] = 0]
    BY <1>0, <1>4, <2>2 DEF Select
  <2> QED BY <1>4, <2>1, <2>2 DEF Select
<1>5. ASSUME NextSolver(t), UNCHANGED remaining PROVE Past(j)'
  BY <1>0, <1>5 DEF NextSolver
<1>6. ASSUME pc[t] # "write", UNCHANGED remaining, NEW f \in Fault, Raise(t, f)
      PROVE  Past(j)'
  BY <1>6 DEF Raise
<1>7. CASE Route(t) \/ Solve(t)
  BY <1>1, <1>6, <1>7 DEF Route, Solve, Fault, PC
<1>8. CASE CheckResult(t) \/ CheckError(t)
  BY <1>1, <1>5, <1>8 DEF CheckResult, CheckError, CheckErrorAborts, PC
<1>9. CASE AcquireInsert(t) \/ LookupConfig(t) \/ CommitResult(t)
  BY <1>1, <1>9 DEF AcquireInsert, LookupConfig, CommitResult, PC
<1>10. CASE InsertFails(t)
  BY <1>1, <1>6, <1>10 DEF InsertFails, RetryInsert, Fault, PC
<1>11. CASE WriteResult(t) \/ DumpErrored(t) \/ AcquireError(t)
  BY <1>1, <1>5, <1>11 DEF WriteResult, DumpErrored, AcquireError, PC
<1>12. CASE LogError(t)
  BY <1>1, <1>5, <1>12 DEF LogError, PC
<1>13. CASE LogFails(t)
  <2>1. CASE pc' = pc
    BY <1>13, <2>1 DEF LogFails
  <2>2. CASE Goto(t, "exit")
    BY <1>1, <1>13, <2>2 DEF LogFails, PC
  <2> QED BY <1>13, <2>1, <2>2 DEF LogFails
<1>14. CASE CheckErrorAborts(t) \/ SolveSampledFails(t) \/ HandleFail(t)
  BY <1>14 DEF SolveSampledFails, CheckErrorAborts, HandleFail, Abort
<1> QED BY <1>2, <1>3, <1>4, <1>7, <1>8, <1>9, <1>10, <1>11, <1>12, <1>13, <1>14 DEF Step

\* A row of the results names a job and a launch.
LEMMA RowType ==
  ASSUME DatabaseTypeOK, NEW n \in DOMAIN results
  PROVE  results[n].job \in Job /\ results[n].inv \in Nat
<1> DEFINE Row == [job: Job, cfg: Nat, inv: Nat]
<1>1. results \in Seq(Row)
  BY DEF DatabaseTypeOK
<1>2. results[n] \in Row
  BY <1>1, ElementOfSeq, LenProperties, Zenon
<1> QED BY <1>2

\* A step keeps RowsOfLaunch, if a commit that fails has no effect.
LEMMA RowsOfLaunchStep ==
  ASSUME ~LossyCommit, TypeOK, Control, Queue, RowsOfLaunch, [Next]_vars
  PROVE  RowsOfLaunch'
<1> USE DEF RowsOfLaunch
<1>1. ASSUME NEW t \in Thread, Step(t), UNCHANGED results PROVE RowsOfLaunch'
  <2>1. \A n \in DOMAIN results : results[n].job \in Job
    BY RowType DEF TypeOK
  <2>2. invocation' = invocation /\ proc \in {"up", "exiting"}
    BY <1>1 DEF Step, GetNextTask, Parse, Select, Route, CheckResult, CheckError, CheckErrorAborts, Solve,
       SolveSampledFails, AcquireInsert, LookupConfig, CommitResult, InsertFails,
       StoreResult, WriteResult, DumpErrored, AcquireError, LogError, LogFails,
       HandleFail, Abort, At, db
  <2>3. proc' # "aborted" =>
          \A n \in DOMAIN results : results[n].inv = invocation => Past(results[n].job)'
    BY <1>1, <2>1, <2>2, PastStays
  <2> QED BY <1>1, <2>2, <2>3, Zenon DEF OneRowPerRun
<1>2. ASSUME NEW t \in Thread, CommitResult(t) PROVE RowsOfLaunch'
  <2> DEFINE j == Current(t)
             N == Len(results) + 1
  <2>1. /\ DOMAIN results' = DOMAIN results \union {N}
        /\ \A n \in DOMAIN results : results'[n] = results[n]
        /\ results'[N].job = j /\ results'[N].inv = invocation
        /\ invocation' = invocation
    BY <1>2, LenProperties DEF CommitResult, StoreResult, TypeOK, DatabaseTypeOK
  <2>2. /\ j \in Job /\ proc \in {"up", "exiting"} /\ proc' = proc
        /\ pc[t] = "commit" /\ task[t] # 0
        /\ j[1] = task[t] /\ j[2] = solver[t]
    BY <1>2 DEF CommitResult, Control, ThreadControl, Running, At, Current
  <2>3. ~Past(j) /\ solver[t] \in Nat
    BY <2>2 DEF Past, TypeOK, ThreadTypeOK
  <2>4. Past(j)'
    <3>1. /\ UNCHANGED <<task, solver, remaining>>
          /\ pc' = [pc EXCEPT ![t] = "write"]
      BY <1>2 DEF CommitResult, Goto
    <3>2. j[1] > remaining /\ \A u \in Thread : task[u] = j[1] => u = t
      BY <2>2 DEF Queue
    <3>3. j' = j
      BY <3>1 DEF Current
    <3> HIDE DEF j
    <3> QED BY <2>2, <3>1, <3>2, <3>3 DEF Past, TypeOK, ThreadTypeOK
  <2>5. \A n \in DOMAIN results : results[n].job \in Job
    BY RowType DEF TypeOK
  <2>6. Step(t)
    BY <1>2 DEF Step
  <2>7. ASSUME NEW n \in DOMAIN results, results[n].inv = invocation
        PROVE  Past(results[n].job)'
    <3>1. PICK r \in Job : r = results[n].job
      BY <2>5
    <3>2. Past(r)'
      BY <2>2, <2>6, <2>7, <3>1, PastStays
    <3>3. r = results'[n].job
      BY <2>1, <3>1
    <3> QED BY <3>2, <3>3 DEF Past
  <2>8. \A n \in DOMAIN results : results[n].inv = invocation => results[n].job # j
    BY <2>2, <2>3
  <2>9. OneRowPerRun'
    <3> HIDE DEF j, N
    <3> QED BY <2>1, <2>8 DEF OneRowPerRun
  <2>10. \A n \in DOMAIN results' : results'[n].inv <= invocation'
    <3>1. invocation \in Nat
      BY CampaignAssumption DEF TypeOK, DatabaseTypeOK
    <3> QED BY <2>1, <3>1
  <2>11. (\A n \in DOMAIN results : results[n].inv = invocation => Past(results[n].job))'
    <3> SUFFICES ASSUME NEW n \in DOMAIN results', results'[n].inv = invocation'
                 PROVE  Past(results[n].job)'
      OBVIOUS
    <3>1. CASE n \in DOMAIN results
      BY <2>1, <2>7, <3>1
    <3>2. CASE n = N
      <4>1. j' = results'[n].job
        BY <1>2, <2>1, <3>2 DEF CommitResult, Current
      <4> HIDE DEF j
      <4> QED BY <2>4, <4>1 DEF Past
    <3> QED BY <2>1, <3>1, <3>2
  <2> QED BY <2>9, <2>10, <2>11
<1>3. ASSUME Launch PROVE RowsOfLaunch'
  <2>1. \A n \in DOMAIN results : results[n].inv \in Nat
    BY RowType DEF TypeOK
  <2>2. invocation \in Nat /\ invocation' = invocation + 1 /\ UNCHANGED results
    BY <1>3, CampaignAssumption DEF Launch, TypeOK, DatabaseTypeOK
  <2> QED BY <2>1, <2>2 DEF OneRowPerRun
<1>4. ASSUME UNCHANGED db, proc' \notin {"up", "exiting"} PROVE RowsOfLaunch'
  BY <1>4 DEF db, OneRowPerRun
<1>5. ASSUME UNCHANGED vars PROVE RowsOfLaunch'
  BY <1>5 DEF vars, db, process, thread, Past, OneRowPerRun
<1>6. ASSUME NEW t \in Thread, Step(t), ~CommitResult(t) PROVE UNCHANGED results
  BY <1>6 DEF Step, GetNextTask, Parse, Select, Route, CheckResult, CheckError, CheckErrorAborts, Solve,
     SolveSampledFails, AcquireInsert, LookupConfig, InsertFails, WriteResult,
     DumpErrored, AcquireError, LogError, LogFails, HandleFail, Abort, db
<1> QED BY <1>1, <1>2, <1>3, <1>4, <1>5, <1>6 DEF Next, Over, Die, JoinAll

-----------------------------------------------------------------------------
(* How errors end a launch *)

\* With assertions, an error of this launch that is not a lack of memory has its
\* thread on the way to handle_fail(); without them, no thread is.
FailModes ==
  /\ \A n \in DOMAIN errors :
       /\ errors[n].inv <= invocation
       /\ /\ FailHard /\ proc \in {"up", "exiting"}
          /\ errors[n].inv = invocation /\ errors[n].fault # "oom"
          => \E t \in Thread : pc[t] = "fail"
  /\ \A t \in Thread : pc[t] = "fail" => FailHard
  /\ HardFailStops

\* A row of the errors names a launch.
LEMMA ErrorRowType ==
  ASSUME DatabaseTypeOK, NEW n \in DOMAIN errors
  PROVE  errors[n].inv \in Nat
<1> DEFINE Row == [job: Job, fault: Fault, inv: Nat]
<1>1. errors \in Seq(Row)
  BY DEF DatabaseTypeOK
<1>2. errors[n] \in Row
  BY <1>1, ElementOfSeq, LenProperties, Zenon
<1> QED BY <1>2

\* A step keeps FailModes.
LEMMA FailModesStep ==
  ASSUME TypeOK, Control, FailModes, [Next]_vars
  PROVE  FailModes'
<1> USE DEF FailModes
<1>1. ASSUME NEW t \in Thread, Step(t), ~LogError(t), proc' # "aborted" PROVE FailModes'
  <2>1. /\ UNCHANGED <<errors, invocation>> /\ proc \in {"up", "exiting"}
        /\ proc' \in {"up", "exiting"}
    BY <1>1 DEF Step, GetNextTask, Parse, Select, Route, CheckResult, CheckError, CheckErrorAborts, Solve,
       SolveSampledFails, AcquireInsert, LookupConfig, CommitResult, InsertFails,
       StoreResult, WriteResult, DumpErrored, AcquireError, LogFails,
       HandleFail, Abort, At, db, process
  <2>2. pc[t] # "fail" /\ pc'[t] # "fail"
    BY <1>1 DEF Step, GetNextTask, Parse, Select, Route, CheckResult, CheckError, CheckErrorAborts, Solve,
       SolveSampledFails, AcquireInsert, LookupConfig, CommitResult, InsertFails,
       RetryInsert, WriteResult, DumpErrored, AcquireError, LogFails, HandleFail, Abort,
       NextSolver, Raise, At, Goto, thread, TypeOK, ThreadTypeOK
  <2>3. \A u \in Thread : u # t => pc'[u] = pc[u]
    BY <1>1, OthersStay DEF TypeOK
  <2>4. \A u \in Thread : pc'[u] = "fail" <=> pc[u] = "fail"
    BY <2>2, <2>3
  <2> QED BY <2>1, <2>4 DEF HardFailStops
<1>2. ASSUME NEW t \in Thread, LogError(t) PROVE FailModes'
  <2> DEFINE row == [job |-> Current(t), fault |-> fault[t], inv |-> invocation]
             N == Len(errors) + 1
  <2>1. /\ DOMAIN errors' = DOMAIN errors \union {N} /\ errors'[N] = row
        /\ \A n \in DOMAIN errors : errors'[n] = errors[n]
        /\ invocation' = invocation /\ invocation \in Nat
    BY <1>2, LenProperties, CampaignAssumption DEF LogError, TypeOK, DatabaseTypeOK
  <2>2. proc \in {"up", "exiting"} /\ proc' = proc /\ pc[t] = "log"
    BY <1>2 DEF LogError, At
  <2>3. IF FailHard /\ fault[t] # "oom" THEN pc' = [pc EXCEPT ![t] = "fail"]
                                        ELSE pc' = [pc EXCEPT ![t] = "select"]
    BY <1>2 DEF LogError, NextSolver, Goto
  <2>4. \A u \in Thread : pc[u] = "fail" => pc'[u] = "fail"
    BY <2>2, <2>3 DEF TypeOK, ThreadTypeOK
  <2>5. \A u \in Thread : pc'[u] = "fail" => FailHard
    BY <2>3 DEF TypeOK, ThreadTypeOK
  <2>6. FailHard /\ fault[t] # "oom" => pc'[t] = "fail"
    BY <2>3 DEF TypeOK, ThreadTypeOK
  <2>7. row.fault = fault[t] /\ row.inv = invocation
    OBVIOUS
  <2> HIDE DEF N, row
  <2>8. \A n \in DOMAIN errors' :
          /\ errors'[n].inv <= invocation'
          /\ FailHard /\ errors'[n].inv = invocation' /\ errors'[n].fault # "oom"
             => \E u \in Thread : pc'[u] = "fail"
    BY <2>1, <2>2, <2>4, <2>6, <2>7
  <2> QED BY <2>2, <2>5, <2>8 DEF HardFailStops
<1>3. ASSUME Gone, UNCHANGED db, proc' \in {"down", "aborted"} PROVE FailModes'
  BY <1>3 DEF Gone, HardFailStops, db
<1>4. ASSUME JoinAll PROVE FailModes'
  BY <1>4, CampaignAssumption DEF JoinAll, Gone, HardFailStops, db
<1>5. ASSUME Launch PROVE FailModes'
  <2>1. \A n \in DOMAIN errors : errors[n].inv \in Nat
    BY ErrorRowType DEF TypeOK
  <2>2. /\ invocation \in Nat /\ invocation' = invocation + 1 /\ UNCHANGED errors
        /\ proc' = "up" /\ \A t \in Thread : pc'[t] \in {"fetch", "off"}
    BY <1>5, CampaignAssumption DEF Launch, TypeOK, DatabaseTypeOK
  <2> QED BY <2>1, <2>2 DEF HardFailStops
<1>6. ASSUME UNCHANGED vars PROVE FailModes'
  BY <1>6 DEF vars, db, process, thread, HardFailStops
<1>7. ASSUME NEW t \in Thread, Step(t), ~LogError(t), proc' = "aborted"
      PROVE  Gone /\ UNCHANGED db
  BY <1>7 DEF Step, GetNextTask, Parse, Select, Route, CheckResult, CheckError, CheckErrorAborts, Solve,
     SolveSampledFails, AcquireInsert, LookupConfig, CommitResult, InsertFails,
     WriteResult, DumpErrored, AcquireError, LogFails, HandleFail, Abort, At, process
<1> QED BY <1>1, <1>2, <1>3, <1>4, <1>5, <1>6, <1>7 DEF Next, Over, Die

-----------------------------------------------------------------------------
(* What was found missing is still missing when it is stored *)

\* Where a thread is between the check of -u and its commit.
Unstored == {"check_error", "solve", "insert", "lookup", "commit"}

\* A launch whose checks look at the database and do not give up.
Skipping == "skip_done" \in flags /\ ~ReadsGiveUp

\* The results an earlier launch has left under a key.
Earlier(key) ==
  {n \in DOMAIN results : ResultKey(results[n].job) = key /\ results[n].inv # invocation}

StillMissing ==
  Skipping => \A t \in Thread : pc[t] \in Unstored => Earlier(ResultKey(Current(t))) = {}

\* What the transaction of insert() adds to the results.
LEMMA StoreResultAppends ==
  ASSUME DatabaseTypeOK, NEW t \in Thread, StoreResult(t)
  PROVE  LET N == Len(results) + 1 IN
         /\ DOMAIN results' = DOMAIN results \union {N} /\ N \notin DOMAIN results
         /\ \A n \in DOMAIN results : results'[n] = results[n]
         /\ results'[N].job = Current(t)
         /\ results'[N].inv = invocation
         /\ invocation' = invocation
BY LenProperties DEF StoreResult, DatabaseTypeOK

\* A step keeps StillMissing: what the threads store meanwhile is of this launch.
LEMMA StillMissingStep ==
  ASSUME TypeOK, Control, StillMissing, [Next]_vars
  PROVE  StillMissing'
<1> USE DEF TypeOK, ThreadTypeOK, At, Goto, db, process, thread, vars
<1>1. ASSUME NEW t \in Thread, Step(t), ~Gone,
             \A n \in DOMAIN results' \ DOMAIN results : results'[n].inv = invocation,
             pc'[t] \in Unstored =>
               /\ pc[t] \in Unstored \/ CheckResult(t)
               /\ task'[t] = task[t] /\ solver'[t] = solver[t]
      PROVE  StillMissing'
  <2> SUFFICES ASSUME Skipping, NEW u \in Thread, pc'[u] \in Unstored
               PROVE  Earlier(ResultKey(Current(u)))' = {}
    BY <1>1, SameLaunch DEF StillMissing, Skipping
  <2>1. /\ pc[u] \in Unstored \/ (u = t /\ CheckResult(t))
        /\ task'[u] = task[u] /\ solver'[u] = solver[u]
    BY <1>1, OthersStay
  <2>2. Current(u)' = Current(u) /\ invocation' = invocation
    BY <1>1, <2>1, SameLaunch DEF Current
  <2>3. Earlier(ResultKey(Current(u))) = {}
    <3>1. CASE pc[u] \in Unstored
      BY <3>1 DEF StillMissing
    <3>2. CASE u = t /\ CheckResult(t)
      <4>1. ~HasResult(ResultKey(Current(t)))
        BY <3>2 DEF CheckResult, NextSolver, Skipping, Unstored
      <4> QED BY <3>2, <4>1 DEF HasResult, Earlier
    <3> QED BY <2>1, <3>1, <3>2
  <2>4. \A n \in DOMAIN results : results'[n] = results[n]
    BY <1>1, DatabaseGrows DEF Next
  <2>5. \A n \in DOMAIN results' :
          ResultKey(results'[n].job) = ResultKey(Current(u)) => results'[n].inv = invocation
    BY <1>1, <2>3, <2>4 DEF Earlier
  <2> QED BY <2>2, <2>5 DEF Earlier, ResultKey, Solver
<1>2. ASSUME NEW t \in Thread, CommitResult(t) \/ InsertFails(t) PROVE StillMissing'
  <2>1. \A n \in DOMAIN results' \ DOMAIN results : results'[n].inv = invocation
    <3>1. CASE UNCHANGED results
      BY <3>1
    <3>2. CASE StoreResult(t)
      BY <3>2, StoreResultAppends
    <3> QED BY <1>2, <3>1, <3>2 DEF CommitResult, InsertFails
  <2>2. ~Gone
    BY <1>2 DEF CommitResult, InsertFails, RetryInsert, Raise, Gone
  <2>3. pc[t] \in Unstored
    BY <1>2 DEF CommitResult, InsertFails, Unstored
  <2>4. pc'[t] \in Unstored => task'[t] = task[t] /\ solver'[t] = solver[t]
    BY <1>2 DEF CommitResult, InsertFails, RetryInsert, Raise
  <2> QED BY <1>1, <1>2, <2>1, <2>2, <2>3, <2>4 DEF Step
<1>3. ASSUME NEW t \in Thread, Step(t), ~CommitResult(t), ~InsertFails(t), ~Gone
      PROVE  StillMissing'
  <2>1. UNCHANGED results
    BY <1>3 DEF Step, GetNextTask, Parse, Select, Route, CheckResult, CheckError,
       CheckErrorAborts, Solve, SolveSampledFails, AcquireInsert, LookupConfig,
       WriteResult, DumpErrored, AcquireError, LogError, LogFails, HandleFail, Abort
  <2>2. pc'[t] \in Unstored =>
          /\ pc[t] \in Unstored \/ CheckResult(t)
          /\ task'[t] = task[t] /\ solver'[t] = solver[t]
    BY <1>3 DEF Unstored, Step, GetNextTask, Parse, Select, Route, CheckResult,
       CheckError, CheckErrorAborts, Solve, SolveSampledFails, AcquireInsert,
       LookupConfig, WriteResult, DumpErrored, AcquireError, LogError, LogFails,
       HandleFail, Abort, NextSolver, Raise
  <2> QED BY <1>1, <1>3, <2>1, <2>2
<1>4. ASSUME Gone PROVE StillMissing'
  BY <1>4 DEF Gone, StillMissing, Unstored
<1>5. ASSUME Launch PROVE StillMissing'
  BY <1>5 DEF Launch, StillMissing, Unstored
<1>6. ASSUME UNCHANGED vars PROVE StillMissing'
  BY <1>6 DEF StillMissing, Skipping, Earlier, ResultKey, Solver, Current
<1> QED BY <1>2, <1>3, <1>4, <1>5, <1>6 DEF Next, Over, Die, JoinAll

-----------------------------------------------------------------------------
(* The files of a launch *)

\* No two solver runs of a launch have a file name in common.
DistinctFiles ==
  /\ ~FixedSeed
  /\ \A i, j \in Job : (i[1] = j[1] /\ Solver(i) = Solver(j)) => i = j

\* File names tell the jobs apart, and results from solutions that failed.
LEMMA FileNames ==
  ASSUME DistinctFiles, NEW i \in Job, NEW j \in Job
  PROVE  /\ FileName(i) = FileName(j) => i = j
         /\ ErroredName(i) # FileName(j)
<1>1. ASSUME NEW k \in Job
      PROVE  FileName(k) = <<TaskList[k[1]].inst, Solver(k), k[1], invocation>>
  BY DEF DistinctFiles, FileName
<1>2. FileName(i) = FileName(j) => i = j
  <2> SUFFICES ASSUME FileName(i) = FileName(j) PROVE i = j
    OBVIOUS
  <2> DEFINE a == TaskList[i[1]].inst
             b == Solver(i)
             c == TaskList[j[1]].inst
             d == Solver(j)
  <2>1. <<a, b, i[1], invocation>> = <<c, d, j[1], invocation>>
    BY <1>1
  <2>2. b = d /\ i[1] = j[1]
    <3> HIDE DEF a, b, c, d
    <3> QED BY <2>1
  <2> QED BY <2>2 DEF DistinctFiles
<1>3. ErroredName(i) # FileName(j)
  <2> DEFINE a == TaskList[i[1]].inst
             b == Solver(i)
             S == {a, b, i[1], invocation, "ERRORED"}
  <2>1. FileName(i) \in Seq(S) /\ Len(FileName(i)) = 4
    <3>1. FileName(i) = <<a, b, i[1], invocation>>
      BY <1>1
    <3> HIDE DEF a, b
    <3> QED BY <3>1
  <2>2. Len(FileName(j)) = 4
    <3> DEFINE c == TaskList[j[1]].inst
               d == Solver(j)
    <3>1. FileName(j) = <<c, d, j[1], invocation>>
      BY <1>1
    <3> HIDE DEF c, d
    <3> QED BY <3>1
  <2>3. Len(Append(FileName(i), "ERRORED")) = 5
    <3> DEFINE q == FileName(i)
    <3>1. "ERRORED" \in S /\ q \in Seq(S) /\ Len(q) = 4
      BY <2>1
    <3> HIDE DEF S, q
    <3>2. Len(Append(q, "ERRORED")) = Len(q) + 1
      BY <3>1, AppendProperties, Zenon
    <3> QED BY <3>1, <3>2 DEF q
  <2> QED BY <2>2, <2>3 DEF ErroredName
<1> QED BY <1>2, <1>3

\* The result of j is in its file.
Filed(j) == FileName(j) \in DOMAIN files /\ files[FileName(j)] = j

\* In a launch that is not lost, a result is in its file or with the thread that
\* is about to write it.  An error has its ERRORED file from the moment it is
\* reported.
FilesInv ==
  ResultDir =>
    /\ proc \in {"up", "exiting", "finished"} =>
         \A n \in DOMAIN results : results[n].inv = invocation =>
           \/ Filed(results[n].job)
           \/ \E t \in Thread : pc[t] = "write" /\ Current(t) = results[n].job
    /\ \A n \in DOMAIN errors :
         (errors[n].inv = invocation /\ errors[n].fault \in {"result", "io"}) =>
           ErroredName(errors[n].job) \in DOMAIN files
    /\ \A t \in Thread :
         (pc[t] \in {"report", "log"} /\ fault[t] \in {"result", "io"}) =>
           ErroredName(Current(t)) \in DOMAIN files

\* A thread that writes nothing keeps FilesInv.
LEMMA NoWriteKeepsFiles ==
  ASSUME FilesInv, NEW t \in Thread, proc \in {"up", "exiting"},
         UNCHANGED <<results, errors, files, invocation>>,
         pc[t] # "write",
         \A u \in Thread : u # t => /\ pc'[u] = pc[u] /\ task'[u] = task[u]
                                    /\ solver'[u] = solver[u] /\ fault'[u] = fault[u],
         (pc'[t] \in {"report", "log"} /\ fault'[t] \in {"result", "io"}) =>
           /\ pc[t] \in {"report", "log"} /\ fault[t] \in {"result", "io"}
           /\ task'[t] = task[t] /\ solver'[t] = solver[t]
  PROVE  FilesInv'
<1> SUFFICES ASSUME ResultDir PROVE FilesInv'
  BY DEF FilesInv
<1>1. \A j : FileName(j)' = FileName(j) /\ Filed(j)' = Filed(j)
             /\ ErroredName(j)' = ErroredName(j)
  BY DEF FileName, Filed, ErroredName, Solver
<1>2. \A u \in Thread : pc[u] = "write" => pc'[u] = "write" /\ Current(u)' = Current(u)
  BY DEF Current
<1>3. ASSUME NEW n \in DOMAIN results', results'[n].inv = invocation'
      PROVE  \/ Filed(results[n].job)'
             \/ \E u \in Thread : pc'[u] = "write" /\ Current(u)' = results'[n].job
  <2>1. results'[n] = results[n] /\ results[n].inv = invocation /\ n \in DOMAIN results
    BY <1>3
  <2>2. Filed(results[n].job)' = Filed(results[n].job)
    BY DEF FileName, Filed, Solver
  <2> QED BY <1>2, <2>1, <2>2 DEF FilesInv
<1>4. (\A n \in DOMAIN errors :
         (errors[n].inv = invocation /\ errors[n].fault \in {"result", "io"}) =>
           ErroredName(errors[n].job) \in DOMAIN files)'
  BY DEF FilesInv, ErroredName, FileName, Solver
<1>5. (\A u \in Thread :
         (pc[u] \in {"report", "log"} /\ fault[u] \in {"result", "io"}) =>
           ErroredName(Current(u)) \in DOMAIN files)'
  <2> SUFFICES ASSUME NEW u \in Thread, pc'[u] \in {"report", "log"},
                      fault'[u] \in {"result", "io"}
               PROVE  ErroredName(Current(u))' \in DOMAIN files'
    OBVIOUS
  <2>1. /\ pc[u] \in {"report", "log"} /\ fault[u] \in {"result", "io"}
        /\ Current(u)' = Current(u)
    BY DEF Current
  <2>2. ErroredName(Current(u))' = ErroredName(Current(u))
    BY <2>1 DEF ErroredName, FileName, Solver
  <2> QED BY <2>1, <2>2 DEF FilesInv
<1> QED BY <1>3, <1>4, <1>5 DEF FilesInv

\* A thread that writes a file overwrites no other that matters.
LEMMA WriteKeepsFiles ==
  ASSUME DistinctFiles, TypeOK, Control, Queue, FilesInv, ResultDir, NEW t \in Thread,
         WriteResult(t) \/ DumpErrored(t)
  PROVE  FilesInv'
<1> DEFINE j == Current(t)
           name == IF pc[t] = "write" THEN FileName(j) ELSE ErroredName(j)
<1>1. /\ pc[t] \in {"write", "dump"} /\ j \in Job /\ proc \in {"up", "exiting"}
      /\ UNCHANGED <<results, errors, invocation, proc>>
  BY DEF WriteResult, DumpErrored, Control, ThreadControl, Running, At, Current, process
<1>2. /\ DOMAIN files' = DOMAIN files \union {name}
      /\ \A x \in DOMAIN files : x # name => files'[x] = files[x]
      /\ files'[name] = j
  BY DEF WriteResult, DumpErrored, WriteFile, At
<1>3. \A u \in Thread : u # t => /\ pc'[u] = pc[u] /\ task'[u] = task[u]
                                 /\ solver'[u] = solver[u] /\ fault'[u] = fault[u]
  BY <1>1, OthersStay DEF TypeOK, Step
<1>4. IF pc[t] = "write" THEN pc'[t] = "select"
      ELSE pc'[t] = "report" /\ task'[t] = task[t] /\ solver'[t] = solver[t]
  BY DEF WriteResult, DumpErrored, NextSolver, Goto, At, TypeOK, ThreadTypeOK
<1>5. \A k : FileName(k)' = FileName(k) /\ ErroredName(k)' = ErroredName(k)
  BY <1>1 DEF FileName, ErroredName, Solver
<1>6. \A n \in DOMAIN results : results[n].job \in Job
  BY RowType DEF TypeOK
<1>7. ASSUME NEW k \in Job
      PROVE  /\ Filed(k) => Filed(k)'
             /\ pc[t] = "write" /\ k = j => Filed(k)'
  <2>1. k # j => FileName(k) # name
    BY <1>1, FileNames
  <2>2. pc[t] # "write" => FileName(k) # name
    BY <1>1, FileNames
  <2>3. FileName(k)' = FileName(k)
    BY <1>1 DEF FileName, Solver
  <2> HIDE DEF j
  <2> QED BY <1>2, <2>1, <2>2, <2>3 DEF Filed
<1>8. ASSUME NEW n \in DOMAIN results', results'[n].inv = invocation'
      PROVE  \/ Filed(results[n].job)'
             \/ \E u \in Thread : pc'[u] = "write" /\ Current(u)' = results'[n].job
  <2>1. PICK k \in Job : k = results[n].job
    BY <1>1, <1>6
  <2>2. n \in DOMAIN results /\ results[n].inv = invocation /\ k = results'[n].job
    BY <1>1, <1>8, <2>1
  <2>3. Filed(k) \/ \E u \in Thread : pc[u] = "write" /\ Current(u) = k
    BY <1>1, <2>1, <2>2 DEF FilesInv
  <2>4. Filed(k)' \/ \E u \in Thread : pc'[u] = "write" /\ Current(u)' = k
    <3>1. CASE Filed(k)
      BY <1>7, <3>1
    <3>2. ASSUME NEW u \in Thread, pc[u] = "write", Current(u) = k
          PROVE  Filed(k)' \/ (pc'[u] = "write" /\ Current(u)' = k)
      <4>1. CASE u = t
        BY <1>7, <3>2, <4>1
      <4>2. CASE u # t
        BY <1>3, <3>2, <4>2 DEF Current
      <4> QED BY <4>1, <4>2
    <3> QED BY <2>3, <3>1, <3>2
  <2>5. Filed(k)' <=> Filed(results[n].job)'
    BY <2>2 DEF Filed, FileName, Solver
  <2> QED BY <2>2, <2>4, <2>5
<1>9. (\A n \in DOMAIN errors :
         (errors[n].inv = invocation /\ errors[n].fault \in {"result", "io"}) =>
           ErroredName(errors[n].job) \in DOMAIN files)'
  <2> HIDE DEF name
  <2> QED BY <1>1, <1>2 DEF FilesInv, ErroredName, FileName, Solver
<1>10. ASSUME NEW u \in Thread, pc'[u] \in {"report", "log"}, fault'[u] \in {"result", "io"}
       PROVE  ErroredName(Current(u))' \in DOMAIN files'
  <2>1. ErroredName(Current(u))' = ErroredName(Current(u)')
    BY <1>1 DEF ErroredName, FileName, Solver, Current
  <2>2. Current(u)' = Current(u)
    BY <1>3, <1>4, <1>10 DEF Current
  <2>3. CASE u = t
    BY <1>1, <1>2, <1>4, <1>10, <2>1, <2>2, <2>3
  <2>4. CASE u # t
    <3> HIDE DEF name
    <3> QED BY <1>2, <1>3, <1>10, <2>1, <2>2, <2>4 DEF FilesInv
  <2> QED BY <2>3, <2>4
<1> QED BY <1>1, <1>8, <1>9, <1>10 DEF FilesInv

\* A step keeps FilesInv, if a commit that fails has no effect.
LEMMA FilesStep ==
  ASSUME ~LossyCommit, DistinctFiles, TypeOK, Control, Queue, FailModes, RowsOfLaunch,
         FilesInv, [Next]_vars
  PROVE  FilesInv'
<1> SUFFICES ASSUME ResultDir PROVE FilesInv'
  BY DEF FilesInv
<1>1. ASSUME NEW t \in Thread, Step(t), proc' # "aborted", ~CommitResult(t),
             ~WriteResult(t), ~DumpErrored(t), ~LogError(t)
      PROVE  FilesInv'
  <2>1. /\ proc \in {"up", "exiting"} /\ pc[t] # "write"
        /\ UNCHANGED <<results, errors, files, invocation>>
    BY <1>1 DEF Step, GetNextTask, Parse, Select, Route, CheckResult, CheckError, CheckErrorAborts, Solve,
       SolveSampledFails, AcquireInsert, LookupConfig, InsertFails, AcquireError,
       LogFails, HandleFail, Abort, At, db
  <2>2. (pc'[t] \in {"report", "log"} /\ fault'[t] \in {"result", "io"}) =>
          /\ pc[t] \in {"report", "log"} /\ fault[t] \in {"result", "io"}
          /\ task'[t] = task[t] /\ solver'[t] = solver[t]
    BY <1>1 DEF Step, GetNextTask, Parse, Select, Route, CheckResult, CheckError, CheckErrorAborts, Solve,
       SolveSampledFails, AcquireInsert, LookupConfig, InsertFails, RetryInsert,
       AcquireError, LogFails, HandleFail, Abort, NextSolver, Raise, At, Goto, thread,
       TypeOK, ThreadTypeOK
  <2>3. \A u \in Thread : u # t => /\ pc'[u] = pc[u] /\ task'[u] = task[u]
                                   /\ solver'[u] = solver[u] /\ fault'[u] = fault[u]
    BY <1>1, OthersStay DEF TypeOK
  <2> QED BY <2>1, <2>2, <2>3, NoWriteKeepsFiles
<1>2. ASSUME NEW t \in Thread, CommitResult(t) PROVE FilesInv'
  <2>1. /\ DOMAIN results' = DOMAIN results \union {Len(results) + 1}
        /\ \A n \in DOMAIN results : results'[n] = results[n]
        /\ results'[Len(results) + 1].job = Current(t)
        /\ UNCHANGED <<errors, files, invocation, proc>>
    BY <1>2, StoreResultAppends DEF CommitResult, StoreResult, TypeOK
  <2>2. /\ proc \in {"up", "exiting"} /\ pc[t] = "commit"
        /\ pc' = [pc EXCEPT ![t] = "write"] /\ UNCHANGED <<task, solver, fault>>
    BY <1>2 DEF CommitResult, At, Goto
  <2>3. \A k : Filed(k)' = Filed(k) /\ ErroredName(k)' = ErroredName(k)
    BY <2>1 DEF Filed, ErroredName, FileName, Solver
  <2>4. pc'[t] = "write" /\ \A u \in Thread : Current(u)' = Current(u)
                                             /\ (pc[u] = "write" => pc'[u] = "write")
    BY <2>2 DEF TypeOK, ThreadTypeOK, Current
  <2>5. ASSUME NEW n \in DOMAIN results', results'[n].inv = invocation'
        PROVE  \/ Filed(results[n].job)'
               \/ \E u \in Thread : pc'[u] = "write" /\ Current(u)' = results'[n].job
    <3>1. CASE n \in DOMAIN results
      <4>1. \/ Filed(results[n].job)
            \/ \E u \in Thread : pc[u] = "write" /\ Current(u) = results[n].job
        BY <2>1, <2>2, <2>5, <3>1 DEF FilesInv
      <4>2. Filed(results[n].job)' <=> Filed(results[n].job)
        BY <2>1, <3>1 DEF Filed, FileName, Solver
      <4> QED BY <2>1, <2>4, <3>1, <4>1, <4>2
    <3>2. CASE n = Len(results) + 1
      BY <2>1, <2>4, <3>2
    <3> QED BY <2>1, <3>1, <3>2
  <2>6. (\A n \in DOMAIN errors :
           (errors[n].inv = invocation /\ errors[n].fault \in {"result", "io"}) =>
             ErroredName(errors[n].job) \in DOMAIN files)'
    BY <2>1 DEF FilesInv, ErroredName, FileName, Solver
  <2>7. ASSUME NEW u \in Thread, pc'[u] \in {"report", "log"}, fault'[u] \in {"result", "io"}
        PROVE  ErroredName(Current(u))' \in DOMAIN files'
    <3>1. pc[u] \in {"report", "log"} /\ fault[u] \in {"result", "io"}
      BY <2>2, <2>7 DEF TypeOK, ThreadTypeOK
    <3>2. ErroredName(Current(u))' = ErroredName(Current(u))
      BY <2>1, <2>2 DEF ErroredName, FileName, Solver, Current
    <3> QED BY <2>1, <3>1, <3>2 DEF FilesInv
  <2> QED BY <2>5, <2>6, <2>7 DEF FilesInv
<1>3. ASSUME NEW t \in Thread, WriteResult(t) \/ DumpErrored(t) PROVE FilesInv'
  BY <1>3, WriteKeepsFiles
<1>4. ASSUME NEW t \in Thread, LogError(t) PROVE FilesInv'
  <2> DEFINE N == Len(errors) + 1
  <2>1. /\ DOMAIN errors' = DOMAIN errors \union {N}
        /\ \A n \in DOMAIN errors : errors'[n] = errors[n]
        /\ errors'[N].job = Current(t) /\ errors'[N].fault = fault[t]
        /\ UNCHANGED <<results, files, invocation, proc>>
    BY <1>4, LenProperties DEF LogError, TypeOK, DatabaseTypeOK
  <2>2. pc[t] = "log" /\ pc'[t] \in {"fail", "select"} /\ proc \in {"up", "exiting"}
    BY <1>4 DEF LogError, NextSolver, Goto, At, TypeOK, ThreadTypeOK
  <2>3. \A u \in Thread : u # t => /\ pc'[u] = pc[u] /\ task'[u] = task[u]
                                   /\ solver'[u] = solver[u] /\ fault'[u] = fault[u]
    BY <1>4, <2>1, <2>2, OthersStay DEF TypeOK, Step
  <2>4. \A u \in Thread : pc[u] = "write" => pc'[u] = "write" /\ Current(u)' = Current(u)
    BY <2>2, <2>3 DEF Current
  <2>5. ASSUME NEW n \in DOMAIN results', results'[n].inv = invocation'
        PROVE  \/ Filed(results[n].job)'
               \/ \E u \in Thread : pc'[u] = "write" /\ Current(u)' = results'[n].job
    <3>1. \/ Filed(results[n].job)
          \/ \E u \in Thread : pc[u] = "write" /\ Current(u) = results[n].job
      BY <2>1, <2>2, <2>5 DEF FilesInv
    <3>2. Filed(results[n].job)' <=> Filed(results[n].job)
      BY <2>1 DEF Filed, FileName, Solver
    <3> QED BY <2>1, <2>4, <3>1, <3>2
  <2>6. ASSUME NEW n \in DOMAIN errors', errors'[n].inv = invocation',
               errors'[n].fault \in {"result", "io"}
        PROVE  ErroredName(errors[n].job)' \in DOMAIN files'
    <3>1. CASE n \in DOMAIN errors
      <4>1. errors[n].inv = invocation /\ errors[n].fault \in {"result", "io"}
            /\ errors'[n] = errors[n]
        BY <2>1, <2>6, <3>1
      <4>2. ErroredName(errors[n].job)' = ErroredName(errors[n].job)
        BY <2>1, <4>1 DEF ErroredName, FileName, Solver
      <4> QED BY <2>1, <3>1, <4>1, <4>2 DEF FilesInv
    <3>2. CASE n = N
      <4>1. ErroredName(Current(t)) \in DOMAIN files
        BY <2>1, <2>2, <2>6, <3>2 DEF FilesInv
      <4>2. ErroredName(errors[n].job)' = ErroredName(Current(t))
        BY <2>1, <3>2 DEF ErroredName, FileName, Solver
      <4> QED BY <2>1, <4>1, <4>2
    <3> QED BY <2>1, <3>1, <3>2
  <2>7. ASSUME NEW u \in Thread, pc'[u] \in {"report", "log"}, fault'[u] \in {"result", "io"}
        PROVE  ErroredName(Current(u))' \in DOMAIN files'
    <3>1. u # t
      BY <2>2, <2>7
    <3>2. ErroredName(Current(u))' = ErroredName(Current(u))
      BY <2>1, <2>3, <3>1 DEF ErroredName, FileName, Solver, Current
    <3> QED BY <2>1, <2>3, <2>7, <3>1, <3>2 DEF FilesInv
  <2> QED BY <2>5, <2>6, <2>7 DEF FilesInv
<1>5. ASSUME Gone, UNCHANGED db, \/ proc' \in {"down", "aborted"}
                                 \/ JoinAll
      PROVE  FilesInv'
  <2>1. \A u \in Thread : pc'[u] = "end"
    BY <1>5 DEF Gone
  <2>2. (\A n \in DOMAIN errors :
           (errors[n].inv = invocation /\ errors[n].fault \in {"result", "io"}) =>
             ErroredName(errors[n].job) \in DOMAIN files)'
    BY <1>5 DEF FilesInv, ErroredName, FileName, Solver, db
  <2>3. ASSUME JoinAll, NEW n \in DOMAIN results', results'[n].inv = invocation'
        PROVE  Filed(results[n].job)'
    <3>1. Filed(results[n].job)
      BY <1>5, <2>3 DEF FilesInv, JoinAll, db
    <3> QED BY <1>5, <3>1 DEF Filed, FileName, Solver, db
  <2> QED BY <1>5, <2>1, <2>2, <2>3 DEF FilesInv
<1>6. ASSUME Launch PROVE FilesInv'
  <2>1. /\ invocation \in Nat /\ invocation' = invocation + 1
        /\ UNCHANGED <<results, errors, files>>
        /\ \A u \in Thread : pc'[u] \in {"fetch", "off"}
    BY <1>6, CampaignAssumption DEF Launch, TypeOK, DatabaseTypeOK
  <2>2. \A n \in DOMAIN results : results[n].inv # invocation'
    <3>1. \A n \in DOMAIN results : results[n].inv \in Nat
      BY RowType DEF TypeOK
    <3> QED BY <2>1, <3>1 DEF RowsOfLaunch
  <2>3. \A n \in DOMAIN errors : errors[n].inv # invocation'
    BY <2>1, ErrorRowType DEF FailModes, TypeOK
  <2> QED BY <2>1, <2>2, <2>3 DEF FilesInv
<1>7. ASSUME UNCHANGED vars PROVE FilesInv'
  BY <1>7 DEF vars, db, process, thread, FilesInv, Filed, ErroredName, FileName, Solver,
     Current
<1>8. ASSUME NEW t \in Thread, Step(t), proc' = "aborted" PROVE Gone /\ UNCHANGED db
  BY <1>8 DEF Step, GetNextTask, Parse, Select, Route, CheckResult, CheckError, CheckErrorAborts, Solve,
     SolveSampledFails, AcquireInsert, LookupConfig, CommitResult, InsertFails,
     WriteResult, DumpErrored, AcquireError, LogError, LogFails, HandleFail, Abort, At,
     process
<1> QED BY <1>1, <1>2, <1>3, <1>4, <1>5, <1>6, <1>7, <1>8 DEF Next, Over, Die, JoinAll

-----------------------------------------------------------------------------
(* Theorems *)

\* The inductive invariant.
IInv == TypeOK /\ Control /\ Queue /\ Locks /\ ConfigTable /\ Accounting /\ FailModes

\* The invariants hold initially.
LEMMA InitIInv == Init => IInv /\ RowsOfLaunch
<1> SUFFICES ASSUME Init PROVE IInv /\ RowsOfLaunch
  OBVIOUS
<1> USE CampaignAssumption DEF Init
<1>1. TypeOK
  BY DEF TypeOK, DatabaseTypeOK, ProcessTypeOK, ThreadTypeOK, PC, Ended, Mutex, Task, Fault
<1>2. Control
  BY DEF Control, ThreadControl, Ended, Running, Failing
<1>3. Queue /\ Locks
  BY DEF Queue, Locks, Guarded, Mutex
<1>4. DOMAIN results = {} /\ DOMAIN configs = {} /\ DOMAIN errors = {}
  OBVIOUS
<1>5. ConfigTable
  BY <1>4 DEF ConfigTable, Lookups, NoDuplicateConfig, LinkedToOwnConfig
<1>6. Accounting
  BY DEF Accounting, Accounted
<1>7. FailModes /\ RowsOfLaunch
  BY <1>4 DEF FailModes, HardFailStops, RowsOfLaunch, OneRowPerRun
<1> QED BY <1>1, <1>2, <1>3, <1>5, <1>6, <1>7 DEF IInv

\* So do the ones that take a hypothesis on the constants.
LEMMA InitOthers == Init => StillMissing /\ FilesInv
<1> SUFFICES ASSUME Init PROVE StillMissing /\ FilesInv
  OBVIOUS
<1>1. /\ DOMAIN results = {} /\ DOMAIN errors = {}
      /\ \A t \in Thread : pc[t] = "end"
  BY DEF Init
<1> QED BY <1>1 DEF StillMissing, Unstored, FilesInv

\* A step keeps the inductive invariant.
LEMMA NextIInv == IInv /\ [Next]_vars => IInv'
<1> SUFFICES ASSUME IInv, [Next]_vars PROVE IInv'
  OBVIOUS
<1>1. TypeOK'
  BY DatabaseTypeStep, ProcessTypeStep, ThreadTypeStep DEF IInv, TypeOK
<1> QED
  BY <1>1, ControlStep, QueueStep, LocksStep, ConfigTableStep, AccountingStep,
     FailModesStep
  DEF IInv

\* The queue and the tasks are numbers.
LEMMA QueueTypes ==
  ASSUME TypeOK
  PROVE  remaining \in Nat /\ \A t \in Thread : task[t] \in Nat
<1>1. Len(TaskList) \in Nat
  BY CampaignAssumption, LenProperties
<1> QED BY <1>1 DEF TypeOK, ProcessTypeOK, ThreadTypeOK, Task

\* The inductive invariant holds in every state of a campaign,
THEOREM Invariant == Spec => []IInv
BY InitIInv, NextIInv, PTL DEF Spec

\* and with it the types of the tables, of the process and of the threads.
THEOREM TypesAreRight == Spec => []TypeOK
<1>1. IInv => TypeOK
  BY DEF IInv
<1> QED BY <1>1, Invariant, PTL

\* No job is lost between the queue and the database: when a launch ends
\* normally, it has a result or an error of its own for every solver run of every
\* task that it was not told to skip.
THEOREM NothingDropped == Spec => []Accounted
<1>1. IInv => Accounted
  BY DEF IInv, Accounting
<1> QED BY <1>1, Invariant, PTL

\* The mutex around insert() is enough to keep the configurations in the
\* database free of duplicates,
THEOREM ConfigsAreUnique == Spec => []NoDuplicateConfig
<1>1. IInv => NoDuplicateConfig
  BY DEF IInv, ConfigTable
<1> QED BY <1>1, Invariant, PTL

\* and every result linked to its own, whatever is retried, lost or launched
\* again between the lookup and the commit.
THEOREM ResultsAreLinked == Spec => []LinkedToOwnConfig
<1>1. IInv => LinkedToOwnConfig
  BY DEF IInv, ConfigTable
<1> QED BY <1>1, Invariant, PTL

\* If a commit that fails has no effect, a launch stores a job at most once.
THEOREM StoredOnce == ASSUME ~LossyCommit PROVE Spec => []OneRowPerRun
<1>1. IInv /\ RowsOfLaunch /\ [Next]_vars => RowsOfLaunch'
  BY RowsOfLaunchStep DEF IInv
<1>2. RowsOfLaunch => OneRowPerRun
  BY DEF RowsOfLaunch
<1> QED BY <1>1, <1>2, InitIInv, Invariant, PTL DEF Spec

\* With assertions, a launch does not end normally after an error other than a
\* lack of memory.
THEOREM HardFailsStop == Spec => []HardFailStops
<1>1. IInv => HardFailStops
  BY DEF IInv, FailModes
<1> QED BY <1>1, Invariant, PTL

\* With -u, what a launch stores was not in the database when it began, although
\* the check is many steps earlier, commits take effect that are reported as
\* failed, and threads that share the columns of a result store theirs meanwhile.
THEOREM NothingComputedAgain == Spec => NoRecompute
<1>1. IInv /\ StillMissing /\ [Next]_vars => StillMissing'
  BY StillMissingStep DEF IInv
<1>2. IInv /\ StillMissing /\ [Next]_vars =>
        [\A n \in DOMAIN results' \ DOMAIN results :
           "skip_done" \in flags /\ ~ReadsGiveUp =>
             \A m \in DOMAIN results :
               ResultKey(results[m].job) = ResultKey(results'[n].job)
                 => results[m].inv = invocation]_results
  <2> SUFFICES ASSUME IInv, StillMissing, [Next]_vars, "skip_done" \in flags, ~ReadsGiveUp,
                      NEW n \in DOMAIN results' \ DOMAIN results,
                      NEW m \in DOMAIN results,
                      ResultKey(results[m].job) = ResultKey(results'[n].job)
               PROVE  results[m].inv = invocation
    OBVIOUS
  <2>1. ASSUME NEW t \in Thread, Step(t), ~CommitResult(t), ~InsertFails(t)
        PROVE  UNCHANGED results
    BY <2>1 DEF Step, GetNextTask, Parse, Select, Route, CheckResult, CheckError,
       CheckErrorAborts, Solve, SolveSampledFails, AcquireInsert, LookupConfig,
       WriteResult, DumpErrored, AcquireError, LogError, LogFails, HandleFail, Abort, db
  <2>2. PICK t \in Thread : CommitResult(t) \/ InsertFails(t)
    BY <2>1 DEF Next, Over, Die, JoinAll, Launch, db, vars
  <2>3. StoreResult(t) /\ pc[t] = "commit"
    BY <2>2 DEF CommitResult, InsertFails, At, db
  <2>4. results'[n].job = Current(t)
    BY <2>3, StoreResultAppends DEF IInv, TypeOK
  <2>5. Earlier(ResultKey(Current(t))) = {}
    BY <2>3 DEF StillMissing, Skipping, Unstored
  <2> QED BY <2>4, <2>5 DEF Earlier
<1> QED BY <1>1, <1>2, InitIInv, InitOthers, Invariant, PTL DEF Spec, NoRecompute

\* A launch that ends normally leaves every result it stored in its file, and
\* every solution that failed in its ERRORED file: if the seed is not fixed, no
\* task runs a solver twice, and a commit that fails has no effect.
THEOREM FilesAreKept ==
  ASSUME ~LossyCommit, DistinctFiles PROVE Spec => []FilesOfThisLaunch
<1>1. IInv /\ RowsOfLaunch /\ [Next]_vars => RowsOfLaunch'
  BY RowsOfLaunchStep DEF IInv
<1>2. IInv /\ RowsOfLaunch /\ FilesInv /\ [Next]_vars => FilesInv'
  BY FilesStep DEF IInv
<1>3. IInv /\ FilesInv => FilesOfThisLaunch
  <2> SUFFICES ASSUME IInv, FilesInv, proc = "finished", ResultDir PROVE FilesOfThisLaunch
    BY DEF FilesOfThisLaunch
  <2>1. \A t \in Thread : pc[t] = "end"
    BY DEF IInv, Control, Ended
  <2> QED BY <2>1 DEF FilesInv, Filed, FilesOfThisLaunch
<1> QED BY <1>1, <1>2, <1>3, InitIInv, InitOthers, Invariant, PTL DEF Spec

\* The threads, the queue and the life of the process implement TaskPool.
THEOREM Refinement == Spec => ImplementsTaskPool
<1>1. Init => Pool!Init
  BY DEF Init, Pool!Init, Pool!Idle, PoolStatus
<1>2. ASSUME IInv, [Next]_vars PROVE [Pool!Next]_(Pool!vars)
  <2>0. /\ TypeOK /\ Control /\ Queue /\ remaining \in Nat
        /\ \A t \in Thread : pc[t] \in {"fetch", "end", "off"} <=> task[t] = 0
    BY <1>2, QueueTypes DEF IInv, Control, ThreadControl
  <2>1. ASSUME NEW t \in Thread, Step(t) PROVE [Pool!Next]_(Pool!vars)
    <3>1. proc \in {"up", "exiting"}
      BY <2>0, <2>1, QueueMoves
    <3>2. ASSUME pc[t] = "fetch", remaining # 0, task' = [task EXCEPT ![t] = remaining],
                 remaining' = remaining - 1, UNCHANGED proc
          PROVE  Pool!Take(t)
      <4>1. 1 .. remaining' = (1 .. remaining) \ {remaining} /\ remaining \in 1 .. remaining
        BY <2>0, <3>2
      <4> QED BY <2>0, <3>1, <3>2, <4>1 DEF Pool!Take, PoolStatus
    <3>3. ASSUME pc[t] = "select", task' = [task EXCEPT ![t] = 0],
                 UNCHANGED <<proc, remaining>>
          PROVE  Pool!Complete(t)
      BY <2>0, <3>1, <3>3 DEF Pool!Complete, PoolStatus
    <3>4. ASSUME Gone, proc' = "aborted" PROVE Pool!Lose
      BY <3>1, <3>4 DEF Gone, Pool!Lose, Pool!Idle, PoolStatus
    <3>5. ASSUME UNCHANGED <<task, remaining>>, proc' \in {proc, "exiting"}
          PROVE  UNCHANGED Pool!vars
      BY <3>1, <3>5 DEF Pool!vars, PoolStatus
    <3> QED BY <2>0, <2>1, <3>2, <3>3, <3>4, <3>5, QueueMoves DEF Pool!Next
  <2>2. CASE Launch
    BY <2>2 DEF Launch, Ended, Task, Pool!Next, Pool!Open, PoolStatus
  <2>3. CASE Die
    BY <2>3 DEF Die, Gone, Pool!Next, Pool!Lose, Pool!Idle, PoolStatus
  <2>4. CASE JoinAll
    <3>1. remaining = 0 /\ \A t \in Thread : task[t] = 0
      BY <2>0, <2>4 DEF JoinAll, Queue, Control
    <3>2. task = [t \in Thread |-> 0]
      BY <2>0, <3>1 DEF TypeOK, ThreadTypeOK
    <3> QED BY <2>4, <3>1, <3>2
            DEF JoinAll, Gone, Pool!Next, Pool!Close, Pool!Idle, PoolStatus
  <2>5. CASE UNCHANGED vars
    BY <2>5 DEF vars, process, thread, Pool!vars, PoolStatus
  <2> QED BY <1>2, <2>1, <2>2, <2>3, <2>4, <2>5 DEF Next, Over
<1> QED BY <1>1, <1>2, Invariant, PTL DEF Spec, ImplementsTaskPool, Pool!Spec

\* No two threads ever work on the same task.
THEOREM TasksAreExclusive == Spec => []TasksExclusive
<1>1. IInv => TasksExclusive
  BY QueueTypes DEF IInv, Queue, TasksExclusive, Pool!Exclusive
<1> QED BY <1>1, Invariant, PTL
=============================================================================
