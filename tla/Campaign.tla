------------------------------ MODULE Campaign ------------------------------
(***************************************************************************)
(* One campaign of TCPSPSuite: the worker threads of a Parallelizer take   *)
(* tasks (an instance and a solver configuration) from a shared queue, run *)
(* every solver the configuration matches through Runner::run, and write   *)
(* results and errors through Storage to a database that outlives the      *)
(* process.  A process may die at any moment and be launched again on the  *)
(* same database, as the job chains of scripts/deploy-singlenode.py do.    *)
(*                                                                         *)
(* The database is modelled from its use: a transaction takes effect as a  *)
(* whole when it commits and not at all otherwise, and any attempt may     *)
(* fail with odb::recoverable.  Nothing is assumed about the isolation of  *)
(* a transaction that has not committed yet.                               *)
(***************************************************************************)
EXTENDS Naturals, Sequences, FiniteSets

CONSTANTS
  Thread,       \* the worker threads of one process (option -p)
  NoThread,     \* owner of a free mutex
  TaskList,     \* the tasks, in the order run_in_parallel() pushes them
  RetryCount,   \* Storage::retry_count
  MaxLaunches,  \* bound on the number of times the campaign is launched
  LaunchFlags,  \* the sets of options a launch may be given
  FixedSeed,    \* option -i: every task runs with the same seed
  ResultDir,    \* option -x: is a result directory given
  Assertions,   \* are assertions compiled in
  SoftFail,     \* is SOFT_FAIL on
  ReadsGiveUp,  \* may a check exhaust its retries
  LossyCommit   \* may a commit take effect and still report a failure

\* Options that a set of LaunchFlags may hold: -u, --skip-oom, -m and "-p 1"; a
\* launch without the last one has all threads.
Flags == {"skip_done", "skip_oom", "memory", "single"}

Task == 1 .. Len(TaskList)

\* A task names its instance, the solvers its configuration matches, and the
\* configuration by its name, its key-value pairs and its time limit.
ASSUME CampaignAssumption ==
  /\ Thread # {} /\ NoThread \notin Thread
  /\ TaskList \in Seq([inst: STRING, solvers: Seq(STRING), name: STRING,
                       kvs: STRING, limit: Nat])
  /\ RetryCount \in Nat \ {0}
  /\ MaxLaunches \in Nat
  /\ LaunchFlags \subseteq SUBSET Flags
  /\ {FixedSeed, ResultDir, Assertions, SoftFail, ReadsGiveUp, LossyCommit}
       \subseteq BOOLEAN

\* handle_fail() is an assertion, unless the program is to fail softly.
FailHard == Assertions /\ ~SoftFail

\* One solver run: the solver at place k among those that task i matches.
Job == UNION {{<<i, k>> : k \in DOMAIN TaskList[i].solvers} : i \in Task}

\* The columns by which Storage finds a result, an error and a configuration.
Solver(j) == TaskList[j[1]].solvers[j[2]]
ResultKey(j) == LET t == TaskList[j[1]] IN <<t.inst, Solver(j), t.name, t.kvs>>
ErrorKey(j) == LET t == TaskList[j[1]] IN <<t.inst, Solver(j), t.name>>
ConfigKey(j) == LET t == TaskList[j[1]] IN <<t.name, t.kvs>>

Fault == {"transform", "solver", "result", "io", "oom"}
Mutex == {"insert_mutex", "insert_error_mutex"}

VARIABLES
  (* the database and the result directory, which survive a process *)
  results,    \* rows of DBResult, in the order of their ids
  configs,    \* rows of DBConfig with their DBConfigKV, in the order of ids
  errors,     \* rows of DBError
  files,      \* file name -> the job whose result the file holds
  invocation, \* rows of DBInvocation: the number of launches so far
  (* the process *)
  proc,       \* "down", "up", "exiting" (inside exit()), "aborted", "finished"
  flags,      \* the options of the last launch
  remaining,  \* remaining_tasks is the prefix of TaskList of this length
  owner,      \* mutex -> the thread that holds it
  (* its worker threads *)
  pc, task, solver, trial, cfg, fault

db == <<results, configs, errors, files, invocation>>
process == <<proc, flags, remaining, owner>>
thread == <<pc, task, solver, trial, cfg, fault>>
vars == <<db, process, thread>>

Current(t) == <<task[t], solver[t]>>

\* A result file is named after the instance, the solver and the seed, and
\* a seed that is not fixed is drawn anew for every task and launch.
FileName(j) ==
  IF FixedSeed THEN <<TaskList[j[1]].inst, Solver(j)>>
               ELSE <<TaskList[j[1]].inst, Solver(j), j[1], invocation>>

ErroredName(j) == Append(FileName(j), "ERRORED")

HasResult(key) == \E n \in DOMAIN results : ResultKey(results[n].job) = key
OomRows(key) == {n \in DOMAIN errors :
                   errors[n].fault = "oom" /\ ErrorKey(errors[n].job) = key}

\* The memory sampler only runs when there is no parallelism.
Sampling == "memory" \in flags /\ ("single" \in flags \/ Cardinality(Thread) = 1)

\* A process that is no more: lost, aborted over an error, or done.
Ended == {"down", "aborted", "finished"}

PC == {"fetch", "parse", "select", "route", "check_result", "check_error",
       "solve", "insert", "lookup", "commit", "write", "dump", "report",
       "log", "fail", "exit", "end", "off"}

DatabaseTypeOK ==
  /\ results \in Seq([job: Job, cfg: Nat, inv: Nat])
  /\ configs \in Seq([key: STRING \X STRING, limit: Nat])
  /\ errors \in Seq([job: Job, fault: Fault, inv: Nat])
  /\ \A name \in DOMAIN files : files[name] \in Job
  /\ invocation \in 0 .. MaxLaunches

ProcessTypeOK ==
  /\ proc \in Ended \union {"up", "exiting"}
  /\ flags \in SUBSET Flags
  /\ remaining \in 0 .. Len(TaskList)
  /\ owner \in [Mutex -> Thread \union {NoThread}]

ThreadTypeOK ==
  /\ pc \in [Thread -> PC]
  /\ task \in [Thread -> Task \union {0}]
  /\ solver \in [Thread -> Nat]
  /\ trial \in [Thread -> 0 .. RetryCount]
  /\ cfg \in [Thread -> Nat]
  /\ fault \in [Thread -> Fault \union {"none"}]

TypeOK == DatabaseTypeOK /\ ProcessTypeOK /\ ThreadTypeOK

-----------------------------------------------------------------------------
(* Launching, ending and losing a process *)

\* Everything that lives in the memory of a process that is not running.
Gone ==
  /\ remaining' = 0
  /\ UNCHANGED flags
  /\ owner' = [m \in Mutex |-> NoThread]
  /\ pc' = [t \in Thread |-> "end"]
  /\ task' = [t \in Thread |-> 0]
  /\ solver' = [t \in Thread |-> 0]
  /\ trial' = [t \in Thread |-> 0]
  /\ cfg' = [t \in Thread |-> 0]
  /\ fault' = [t \in Thread |-> "none"]

Init ==
  /\ results = <<>> /\ configs = <<>> /\ errors = <<>>
  /\ files = << >>
  /\ invocation = 0
  /\ proc = "down"
  /\ remaining = 0
  /\ flags = {}
  /\ owner = [m \in Mutex |-> NoThread]
  /\ pc = [t \in Thread |-> "end"]
  /\ task = [t \in Thread |-> 0]
  /\ solver = [t \in Thread |-> 0]
  /\ trial = [t \in Thread |-> 0]
  /\ cfg = [t \in Thread |-> 0]
  /\ fault = [t \in Thread |-> "none"]

\* main(): Storage::initialize() writes the invocation, then run_in_parallel()
\* fills the queue and starts as many threads as -p says.
Launch ==
  /\ proc \in Ended
  /\ invocation < MaxLaunches
  /\ invocation' = invocation + 1
  /\ proc' = "up"
  /\ flags' \in LaunchFlags
  /\ remaining' = Len(TaskList)
  /\ \E workers \in IF "single" \in flags' THEN {{t} : t \in Thread} ELSE {Thread} :
       pc' = [t \in Thread |-> IF t \in workers THEN "fetch" ELSE "off"]
  /\ UNCHANGED <<results, configs, errors, files, owner, task, solver, trial,
                 cfg, fault>>

\* The process is lost: it is killed, or an exception escapes from a thread
\* and std::terminate() is called (a parse error, a non-recoverable database
\* error, a solver that throws anything but a RuntimeError or bad_alloc).
Die ==
  /\ proc \in {"up", "exiting"}
  /\ proc' = "down"
  /\ Gone
  /\ UNCHANGED db

\* exit() in one thread has run its course and takes the others with it.
ExitEnds == proc = "exiting" /\ Die

\* Mutant: the main thread only waits for one of the workers.
JoinAny ==
  /\ proc = "up"
  /\ \E t \in Thread : pc[t] = "end"
  /\ proc' = "finished"
  /\ Gone
  /\ UNCHANGED db

\* The main thread has joined every worker: "Finished normally".
JoinAll ==
  /\ proc = "up"
  /\ \A t \in Thread : pc[t] \in {"end", "off"}
  /\ proc' = "finished"
  /\ Gone
  /\ UNCHANGED db

\* abort() by way of assert(false) or std::terminate().
Abort ==
  /\ proc' = "aborted"
  /\ Gone
  /\ UNCHANGED db

-----------------------------------------------------------------------------
(* Steps of one worker thread *)

\* Nothing stops the other threads while one of them is inside exit().
At(t, p) == proc \in {"up", "exiting"} /\ pc[t] = p

Goto(t, p) == pc' = [pc EXCEPT ![t] = p]

\* Leave Runner::run and go on with the next solver of for_each.
NextSolver(t) ==
  /\ Goto(t, "select")
  /\ solver' = [solver EXCEPT ![t] = @ + 1]
  /\ trial' = [trial EXCEPT ![t] = 0]
  /\ cfg' = [cfg EXCEPT ![t] = 0]
  /\ fault' = [fault EXCEPT ![t] = "none"]
  /\ UNCHANGED task

\* An exception reaches the code that will record it as an error.  If there is
\* a solution already, that is written to a file first.
Raise(t, f) ==
  /\ Goto(t, IF f \in {"result", "io"} THEN "dump" ELSE "report")
  /\ fault' = [fault EXCEPT ![t] = f]
  /\ trial' = [trial EXCEPT ![t] = 0]
  /\ cfg' = [cfg EXCEPT ![t] = 0]
  /\ UNCHANGED <<task, solver>>

Lock(m, t) == owner[m] = NoThread /\ owner' = [owner EXCEPT ![m] = t]
Unlock(m) == owner' = [owner EXCEPT ![m] = NoThread]

\* Mutants: the queue is not checked for emptiness, or the task is not removed.
GetNextTaskUnchecked(t) ==
  /\ At(t, "fetch")
  /\ task' = [task EXCEPT ![t] = remaining]
  /\ remaining' = remaining - 1
  /\ Goto(t, "parse")
  /\ UNCHANGED <<db, proc, flags, owner, solver, trial, cfg, fault>>

GetNextTaskKept(t) ==
  /\ At(t, "fetch")
  /\ IF remaining = 0
     THEN Goto(t, "end") /\ UNCHANGED <<remaining, task>>
     ELSE /\ task' = [task EXCEPT ![t] = remaining]
          /\ remaining' \in {remaining, remaining - 1}
          /\ Goto(t, "parse")
  /\ UNCHANGED <<db, proc, flags, owner, solver, trial, cfg, fault>>

\* get_next_task(): one critical section of queue_mutex.
GetNextTask(t) ==
  /\ At(t, "fetch")
  /\ IF remaining = 0
     THEN Goto(t, "end") /\ UNCHANGED <<remaining, task>>
     ELSE /\ task' = [task EXCEPT ![t] = remaining]
          /\ remaining' = remaining - 1
          /\ Goto(t, "parse")
  /\ UNCHANGED <<db, proc, flags, owner, solver, trial, cfg, fault>>

\* The instance is read and its traits are computed.
Parse(t) ==
  /\ At(t, "parse")
  /\ Goto(t, "select")
  /\ solver' = [solver EXCEPT ![t] = 1]
  /\ UNCHANGED <<db, process, task, trial, cfg, fault>>

\* for_each over the matching solvers, then back to the queue.
Select(t) ==
  /\ At(t, "select")
  /\ IF solver[t] \in DOMAIN TaskList[task[t]].solvers
     THEN Goto(t, "route") /\ UNCHANGED <<task, solver>>
     ELSE /\ Goto(t, "fetch")
          /\ task' = [task EXCEPT ![t] = 0]
          /\ solver' = [solver EXCEPT ![t] = 0]
  /\ UNCHANGED <<db, process, trial, cfg, fault>>

\* Runner::run: find and apply the transformations, construct the solver.
Route(t) ==
  /\ At(t, "route")
  /\ \/ Goto(t, "check_result") /\ UNCHANGED <<task, solver, trial, cfg, fault>>
     \/ Raise(t, "transform")
     \/ Raise(t, "oom")
  /\ UNCHANGED <<db, process>>

\* Mutant: the row count of the query is compared with >= 0.
CheckResultNever(t) ==
  /\ At(t, "check_result")
  /\ Goto(t, "check_error")
  /\ UNCHANGED <<task, solver, trial, cfg, fault>>
  /\ UNCHANGED <<db, process>>

\* -u: skip what has a result.  After retry_count failures: "Assuming no
\* result".  Attempts that fail change nothing, so all of them are one step.
CheckResult(t) ==
  /\ At(t, "check_result")
  /\ \/ /\ "skip_done" \in flags /\ HasResult(ResultKey(Current(t)))
        /\ NextSolver(t)
     \/ /\ \/ "skip_done" \notin flags
           \/ ~HasResult(ResultKey(Current(t)))
           \/ ReadsGiveUp
        /\ Goto(t, "check_error")
        /\ UNCHANGED <<task, solver, trial, cfg, fault>>
  /\ UNCHANGED <<db, process>>

\* --skip-oom: skip what went out of memory before, by configuration name.
CheckError(t) ==
  /\ At(t, "check_error")
  /\ \/ /\ "skip_oom" \in flags
        /\ \E n \in OomRows(ErrorKey(Current(t))) :
             Assertions => OomRows(ErrorKey(Current(t))) = {n}
        /\ NextSolver(t)
     \/ /\ \/ "skip_oom" \notin flags
           \/ OomRows(ErrorKey(Current(t))) = {}
           \/ ReadsGiveUp
        /\ Goto(t, "solve")
        /\ UNCHANGED <<task, solver, trial, cfg, fault>>
  /\ UNCHANGED <<db, process>>

\* query_one() asserts that there is no more than one row, but every launch and
\* every configuration of that name may have stored one.
CheckErrorAborts(t) ==
  /\ At(t, "check_error")
  /\ "skip_oom" \in flags /\ Assertions
  /\ \E m, n \in OomRows(ErrorKey(Current(t))) : m # n
  /\ Abort

\* solver.run(), get_solution() and verify().  A solution that claims to be
\* feasible and is not raises InconsistentResultError; one that does not claim
\* it is stored as it is.
Solve(t) ==
  /\ At(t, "solve")
  /\ \/ Goto(t, "insert") /\ UNCHANGED <<task, solver, trial, cfg, fault>>
     \/ Raise(t, "result")
     \/ ~Sampling /\ Raise(t, "solver")
     \/ ~Sampling /\ Raise(t, "oom")
  /\ UNCHANGED <<db, process>>

\* The solver throws while the memory sampler runs: unwinding destroys
\* LinuxMemoryInfo, whose thread has not been joined, and that terminates the
\* process before any handler is reached.
SolveSampledFails(t) ==
  /\ At(t, "solve")
  /\ Sampling
  /\ Abort

\* Mutant: insert() without its guard.
AcquireInsertUnguarded(t) ==
  /\ At(t, "insert")
  /\ Goto(t, "lookup")
  /\ UNCHANGED <<db, process, task, solver, trial, cfg, fault>>

\* Storage::insert(): the guard, then up to retry_count transactions under it.
AcquireInsert(t) ==
  /\ At(t, "insert")
  /\ Lock("insert_mutex", t)
  /\ Goto(t, "lookup")
  /\ UNCHANGED <<db, proc, flags, remaining, task, solver, trial, cfg, fault>>

\* Mutant: the lookup only compares the names.
MatchingConfigsByName(j) ==
  {n \in DOMAIN configs : configs[n].key[1] = ConfigKey(j)[1]}

\* get_solverconfig() inside the transaction: the first configuration with
\* this name and exactly these key-value pairs, 0 if there is none.
MatchingConfigs(j) == {n \in DOMAIN configs : configs[n].key = ConfigKey(j)}

LookupConfig(t) ==
  /\ At(t, "lookup")
  /\ LET found == MatchingConfigs(Current(t)) IN
     IF found = {} THEN cfg' = [cfg EXCEPT ![t] = 0]
     ELSE \E n \in found : /\ \A m \in found : n <= m
                           /\ cfg' = [cfg EXCEPT ![t] = n]
  /\ Goto(t, "commit")
  /\ UNCHANGED <<db, process, task, solver, trial, fault>>

\* The rows one transaction of insert() writes for the current job of t.
StoreResult(t) ==
  LET j == Current(t)
      id == IF cfg[t] = 0 THEN Len(configs) + 1 ELSE cfg[t]
  IN  /\ configs' = IF cfg[t] # 0 THEN configs
                    ELSE Append(configs, [key |-> ConfigKey(j),
                                          limit |-> TaskList[j[1]].limit])
      /\ results' = Append(results, [job |-> j, cfg |-> id, inv |-> invocation])
      /\ UNCHANGED <<errors, files, invocation>>

CommitResult(t) ==
  /\ At(t, "commit")
  /\ StoreResult(t)
  /\ Unlock("insert_mutex")
  /\ Goto(t, "write")
  /\ cfg' = [cfg EXCEPT ![t] = 0]
  /\ trial' = [trial EXCEPT ![t] = 0]
  /\ UNCHANGED <<proc, flags, remaining, task, solver, fault>>

\* Mutant: the mutex is not released when insert() gives up.
RetryInsertStuck(t) ==
  IF trial[t] + 1 < RetryCount
  THEN /\ trial' = [trial EXCEPT ![t] = @ + 1]
       /\ cfg' = [cfg EXCEPT ![t] = 0]
       /\ Goto(t, "lookup")
       /\ UNCHANGED <<owner, task, solver, fault>>
  ELSE Raise(t, "io") /\ UNCHANGED owner

\* A recoverable failure rolls the transaction back and starts the next trial;
\* after the last one IOError leaves insert() and releases the mutex.
RetryInsert(t) ==
  IF trial[t] + 1 < RetryCount
  THEN /\ trial' = [trial EXCEPT ![t] = @ + 1]
       /\ cfg' = [cfg EXCEPT ![t] = 0]
       /\ Goto(t, "lookup")
       /\ UNCHANGED <<owner, task, solver, fault>>
  ELSE Raise(t, "io") /\ Unlock("insert_mutex")

InsertFails(t) ==
  /\ \/ At(t, "lookup") /\ UNCHANGED db
     \/ At(t, "commit") /\ UNCHANGED db
     \/ At(t, "commit") /\ LossyCommit /\ StoreResult(t)
  /\ RetryInsert(t)
  /\ UNCHANGED <<proc, flags, remaining>>

\* A file is written, over whatever has that name.
WriteFile(name, j) ==
  files' = IF ResultDir
           THEN [n \in DOMAIN files \union {name} |->
                   IF n = name THEN j ELSE files[n]]
           ELSE files

WriteResult(t) ==
  /\ At(t, "write")
  /\ WriteFile(FileName(Current(t)), Current(t))
  /\ NextSolver(t)
  /\ UNCHANGED <<results, configs, errors, invocation, process>>

\* Mutant: the dump does not get the ERRORED suffix.
DumpErroredUnmarked(t) ==
  /\ At(t, "dump")
  /\ WriteFile(FileName(Current(t)), Current(t))
  /\ Goto(t, "report")
  /\ UNCHANGED <<results, configs, errors, invocation, process, task, solver,
                 trial, cfg, fault>>

\* The handler of Runner::run dumps the solution that could not be stored.
DumpErrored(t) ==
  /\ At(t, "dump")
  /\ WriteFile(ErroredName(Current(t)), Current(t))
  /\ Goto(t, "report")
  /\ UNCHANGED <<results, configs, errors, invocation, process, task, solver,
                 trial, cfg, fault>>

\* Storage::insert_error(), for ErrorHandler::handle and for Selector.
AcquireError(t) ==
  /\ At(t, "report")
  /\ Lock("insert_error_mutex", t)
  /\ Goto(t, "log")
  /\ UNCHANGED <<db, proc, flags, remaining, task, solver, trial, cfg, fault>>

\* Mutant: handle_fail() is called in no build.
LogErrorGoesOn(t) ==
  /\ At(t, "log")
  /\ errors' = Append(errors, [job |-> Current(t), fault |-> fault[t],
                               inv |-> invocation])
  /\ Unlock("insert_error_mutex")
  /\ NextSolver(t)
  /\ UNCHANGED <<results, configs, files, invocation, proc, flags, remaining>>

\* Only a RuntimeError has handle_fail() after it, not a lack of memory.
LogError(t) ==
  /\ At(t, "log")
  /\ errors' = Append(errors, [job |-> Current(t), fault |-> fault[t],
                               inv |-> invocation])
  /\ Unlock("insert_error_mutex")
  /\ IF FailHard /\ fault[t] # "oom"
     THEN Goto(t, "fail") /\ UNCHANGED <<task, solver, trial, cfg, fault>>
     ELSE NextSolver(t)
  /\ UNCHANGED <<results, configs, files, invocation, proc, flags, remaining>>

\* After the last trial: exit(-1), with the mutex still held.
LogFails(t) ==
  /\ At(t, "log")
  /\ IF trial[t] + 1 < RetryCount
     THEN /\ trial' = [trial EXCEPT ![t] = @ + 1]
          /\ UNCHANGED <<proc, pc>>
     ELSE /\ proc' = "exiting"
          /\ Goto(t, "exit")
          /\ UNCHANGED trial
  /\ UNCHANGED <<db, flags, remaining, owner, task, solver, cfg, fault>>

\* handle_fail(): assert(false).
HandleFail(t) ==
  /\ At(t, "fail")
  /\ Abort

Step(t) ==
  \/ GetNextTask(t) \/ Parse(t) \/ Select(t) \/ Route(t)
  \/ CheckResult(t) \/ CheckError(t) \/ CheckErrorAborts(t)
  \/ Solve(t) \/ SolveSampledFails(t)
  \/ AcquireInsert(t) \/ LookupConfig(t) \/ CommitResult(t) \/ InsertFails(t)
  \/ WriteResult(t) \/ DumpErrored(t)
  \/ AcquireError(t) \/ LogError(t) \/ LogFails(t) \/ HandleFail(t)

\* The campaign is over: no launch is left.
Over == proc \in Ended /\ invocation = MaxLaunches /\ UNCHANGED vars

Next ==
  \/ \E t \in Thread : Step(t)
  \/ Launch \/ Die \/ JoinAll \/ Over

\* A thread that can go on is scheduled eventually, a solver is asked to quit
\* by its time limit, and exit() ends.  Nothing says that a process is killed,
\* or that it is ever launched again.  Memory sampling is left out: stop() may
\* not return then (see MemoryInfo).
Fairness ==
  /\ \A t \in Thread : WF_vars(Step(t))
  /\ WF_vars(JoinAll)
  /\ WF_vars(ExitEnds)

Spec == Init /\ [][Next]_vars

FairSpec == Spec /\ Fairness
-----------------------------------------------------------------------------
(* Properties *)

\* Nothing is dropped on the way from the queue to the database: when a launch
\* ends normally, it has stored a result or an error of its own for every solver
\* run of every task, or it was told to skip what the database has a row for.
\* (Parallelizer, Selector, Runner, Storage)
Accounted ==
  proc = "finished" =>
    \A j \in Job :
      \/ \E n \in DOMAIN results : results[n].job = j /\ results[n].inv = invocation
      \/ \E n \in DOMAIN errors : errors[n].job = j /\ errors[n].inv = invocation
      \/ "skip_done" \in flags /\ HasResult(ResultKey(j))
      \/ "skip_oom" \in flags /\ OomRows(ErrorKey(j)) # {}

\* A configuration is stored once, whichever threads store results for it and
\* however often their transactions are retried: what the assertion that was
\* taken out of get_solverconfig() says.
NoDuplicateConfig ==
  \A m, n \in DOMAIN configs : configs[m].key = configs[n].key => m = n

\* A result refers to a configuration that exists, with the name and the
\* key-value pairs it was computed with.
LinkedToOwnConfig ==
  \A n \in DOMAIN results :
    /\ results[n].cfg \in DOMAIN configs
    /\ configs[results[n].cfg].key = ConfigKey(results[n].job)

\* One solver run of one launch stores at most one result.
OneRowPerRun ==
  \A m, n \in DOMAIN results :
    (results[m].job = results[n].job /\ results[m].inv = results[n].inv) => m = n

\* With -u, nothing is computed that the database had a result of when the launch
\* began, from the check until the commit many steps later: as long as the check
\* does not give up.  (Two tasks of one launch that a result is found for by the
\* same columns may both be computed, when both are checked before either is
\* stored.)
NoRecompute ==
  [][\A n \in DOMAIN results' \ DOMAIN results :
       "skip_done" \in flags /\ ~ReadsGiveUp =>
         \A m \in DOMAIN results :
           ResultKey(results[m].job) = ResultKey(results'[n].job)
             => results[m].inv = invocation]_results

\* When a launch with a result directory ends normally, every result it stored
\* is in the file of that name, and every solution it could not verify or
\* store is in its ERRORED file.
FilesOfThisLaunch ==
  (proc = "finished" /\ ResultDir) =>
    /\ \A n \in DOMAIN results : results[n].inv = invocation =>
         LET j == results[n].job IN
         FileName(j) \in DOMAIN files /\ files[FileName(j)] = j
    /\ \A n \in DOMAIN errors :
         (errors[n].inv = invocation /\ errors[n].fault \in {"result", "io"}) =>
           ErroredName(errors[n].job) \in DOMAIN files

\* A launch that is told to fail on an error does not end normally after one.
\* The error is in the database before the process fails.
HardFailStops ==
  (FailHard /\ proc = "finished") =>
    \A n \in DOMAIN errors :
      errors[n].inv = invocation => errors[n].fault = "oom"

\* A launch that is told to fail softly is not aborted over an error that has a
\* handler.  It does not hold when the memory sampler is used; nor with --skip-oom
\* where two such errors are stored and assertions are compiled in.
SoftFailSurvives == ~FailHard => proc # "aborted"

\* The threads neither deadlock on the mutexes of Storage nor run forever: a
\* launch ends, also if transactions keep failing.
Terminates == proc \in {"up", "exiting"} ~> proc \in Ended

\* The tasks are handed out as TaskPool says, whatever the solvers, the
\* database and the other threads do.
PoolStatus == CASE proc \in {"up", "exiting"} -> "open"
                [] proc = "finished" -> "complete"
                [] OTHER -> "lost"

Pool == INSTANCE TaskPool WITH status <- PoolStatus,
                               pending <- 1 .. remaining,
                               working <- task

ImplementsTaskPool == Pool!Spec

\* In particular: no two threads work on the same task.
TasksExclusive == Pool!Exclusive

\* With -x there is a file for every result in the database.  It does not hold:
\* a process lost between the commit and the write leaves a result that a
\* launch with -u skips, and without a configuration in the file name two
\* configurations with the same seed overwrite each other's file.
EveryResultHasFile ==
  (proc = "finished" /\ ResultDir) =>
    \A n \in DOMAIN results :
      \E name \in DOMAIN files : files[name] = results[n].job
=============================================================================
