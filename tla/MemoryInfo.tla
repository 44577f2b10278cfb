----------------------------- MODULE MemoryInfo -----------------------------
(***************************************************************************)
(* manager::LinuxMemoryInfo: while a solver runs, a second thread samples  *)
(* the resident memory of the process and keeps its maximum.               *)
(*                                                                         *)
(* Two threads share one object.  The client is the worker thread that     *)
(* executes Runner::run and calls start() and stop(); the sampler is the   *)
(* std::thread that executes run().  Every access to requested_action      *)
(* happens under the mutex m, and each critical section touches nothing    *)
(* else that is shared, so one critical section is one action and m itself *)
(* is not a variable: run() holds m from its lock to the wait, gives it up *)
(* for the wait, and holds it again until the loop body ends.              *)
(*                                                                         *)
(* A timed wait may end by timeout, by notify_one or spuriously at any     *)
(* moment, so notify_one changes no state: it only makes the end of the    *)
(* wait come sooner.                                                       *)
(***************************************************************************)
EXTENDS Naturals

CONSTANT MaxRss   \* largest resident set size of the process, in pages

ASSUME MaxRssAssumption == MaxRss \in Nat

VARIABLES
  client,            \* where the worker thread is
  sampler,           \* where the sampling thread is
  requested_action,  \* the action the sampler finds after its wait
  rss,               \* resident pages of the process, moved by the solver
  rss_pages_before,  \* the baseline taken by reset()
  rss_max_pages,     \* the largest value sampled since reset()
  seen               \* history: the values rss had since start()

vars == <<client, sampler, requested_action, rss, rss_pages_before,
          rss_max_pages, seen>>

ACTION_FINISH == "FINISH"
ACTION_MEASURE == "MEASURE"
\* requested_action has no initialiser: whatever the memory held
ArbitraryAction == {ACTION_FINISH, ACTION_MEASURE, "INDETERMINATE"}

Pages == 0 .. MaxRss

TypeOK ==
  /\ client \in {"idle", "solving", "joining", "stopped"}
  /\ sampler \in {"none", "top", "waiting", "done"}
  /\ requested_action \in ArbitraryAction
  /\ rss \in Pages
  /\ rss_pages_before \in Pages
  /\ rss_max_pages \in Pages
  /\ seen \subseteq Pages

\* A LinuxMemoryInfo has just been constructed; nothing is measured yet.
Init ==
  /\ client = "idle"
  /\ sampler = "none"
  /\ requested_action \in ArbitraryAction
  /\ rss \in Pages
  /\ rss_pages_before \in Pages
  /\ rss_max_pages \in Pages
  /\ seen = {}

-----------------------------------------------------------------------------
\* reset() takes the baseline, then the sampler thread is spawned.
Start ==
  /\ client = "idle"
  /\ client' = "solving"
  /\ sampler' = "top"
  /\ rss_pages_before' = rss
  /\ rss_max_pages' = rss
  /\ seen' = {rss}
  /\ UNCHANGED <<requested_action, rss>>

\* The solver allocates or frees memory.
Allocate ==
  /\ client = "solving"
  /\ rss' \in Pages
  /\ seen' = seen \union {rss'}
  /\ UNCHANGED <<client, sampler, requested_action, rss_pages_before,
                 rss_max_pages>>

\* Mutant: measure() without the guard on ACTION_FINISH.
MeasureUnguarded ==
  /\ client \in {"solving", "joining"}
  /\ requested_action' = ACTION_MEASURE
  /\ UNCHANGED <<client, sampler, rss, rss_pages_before, rss_max_pages, seen>>

\* measure() asks for a sample, but never takes back a request to finish.
Measure ==
  /\ client \in {"solving", "joining"}
  /\ requested_action # ACTION_FINISH
  /\ requested_action' = ACTION_MEASURE
  /\ UNCHANGED <<client, sampler, rss, rss_pages_before, rss_max_pages, seen>>

\* stop(): the critical section and the notification, up to the join.
RequestStop ==
  /\ client = "solving"
  /\ client' = "joining"
  /\ requested_action' = ACTION_FINISH
  /\ UNCHANGED <<sampler, rss, rss_pages_before, rss_max_pages, seen>>

\* Mutant: stop() does not join.
JoinMissing ==
  /\ client = "joining"
  /\ client' = "stopped"
  /\ UNCHANGED <<sampler, requested_action, rss, rss_pages_before,
                 rss_max_pages, seen>>

\* stop(): my_thread.join() returns once the sampler has left run().
Join ==
  /\ client = "joining"
  /\ sampler = "done"
  /\ client' = "stopped"
  /\ UNCHANGED <<sampler, requested_action, rss, rss_pages_before,
                 rss_max_pages, seen>>

\* The next Runner constructs a new object in the same stack slot: all of its
\* unread fields hold whatever the last one left there.
NextRun ==
  /\ client = "stopped"
  /\ client' = "idle"
  /\ sampler' = "none"
  /\ seen' = {}
  /\ UNCHANGED <<requested_action, rss, rss_pages_before, rss_max_pages>>

Client == Start \/ Allocate \/ Measure \/ RequestStop \/ Join \/ NextRun

-----------------------------------------------------------------------------
\* Top of the loop of run(): lock m, ask for a measurement, wait.
Arm ==
  /\ sampler = "top"
  /\ requested_action' = ACTION_MEASURE
  /\ sampler' = "waiting"
  /\ UNCHANGED <<client, rss, rss_pages_before, rss_max_pages, seen>>

\* Mutant: sample() keeps the last value.
SampleLast ==
  /\ sampler = "waiting"
  /\ requested_action = ACTION_MEASURE
  /\ rss_max_pages' = rss
  /\ sampler' = "top"
  /\ UNCHANGED <<client, requested_action, rss, rss_pages_before, seen>>

\* The wait is over and the action is to measure: sample(), loop.
Sample ==
  /\ sampler = "waiting"
  /\ requested_action = ACTION_MEASURE
  /\ rss_max_pages' = IF rss > rss_max_pages THEN rss ELSE rss_max_pages
  /\ sampler' = "top"
  /\ UNCHANGED <<client, requested_action, rss, rss_pages_before, seen>>

\* Mutant: the case for ACTION_FINISH breaks out of the switch, not the loop.
FinishBreaks ==
  /\ sampler = "waiting"
  /\ requested_action = ACTION_FINISH
  /\ sampler' = "top"
  /\ UNCHANGED <<client, requested_action, rss, rss_pages_before,
                 rss_max_pages, seen>>

\* The wait is over and the action is to finish: run() returns.
Finish ==
  /\ sampler = "waiting"
  /\ requested_action = ACTION_FINISH
  /\ sampler' = "done"
  /\ UNCHANGED <<client, requested_action, rss, rss_pages_before,
                 rss_max_pages, seen>>

Sampler == Arm \/ Sample \/ Finish

Next == Client \/ Sampler

\* The scheduler runs a ready thread eventually, and the timed wait ends after
\* sampling_ms at the latest.  A solver asked to quit by its time limit ends.
Fairness == WF_vars(Sampler) /\ WF_vars(Join) /\ WF_vars(RequestStop)

Spec == Init /\ [][Next]_vars

FairSpec == Spec /\ Fairness
-----------------------------------------------------------------------------
\* What a measurement reports is real: the maximum is a value the process did
\* have since start(), and it is not below the baseline that
\* get_rss_bytes_max() subtracts from it without a check for underflow.
PeakIsReal ==
  client # "idle" =>
    /\ rss_max_pages \in seen
    /\ rss_pages_before \in seen
    /\ rss_pages_before <= rss_max_pages

\* The getters read without the mutex, from the moment stop() has returned.
\* That is only sound because no sampler is left then that could still write.
ReadsAfterJoin == client = "stopped" => sampler = "done"

\* The other side of the same handshake: the sampler never ends on its own, by
\* reading an action nobody requested, while the solver is being measured.
SamplesUntilStopped == client = "solving" => sampler \in {"top", "waiting"}

\* Both sides at once: samples are taken for exactly as long as the solver runs,
\* and whoever reads the maximum or starts another solver is alone.
SamplerSpansRun == ReadsAfterJoin /\ SamplesUntilStopped

\* A request to finish that a waiting sampler has been given is never taken
\* back: measure() has its guard for exactly this.
FinishIsSticky ==
  [][sampler = "waiting" /\ requested_action = ACTION_FINISH
       => requested_action' = ACTION_FINISH]_vars

\* A request to finish that reaches the sampler during its wait lets stop()
\* return.
StopHonoured ==
  (client = "joining" /\ sampler = "waiting" /\ requested_action = ACTION_FINISH)
    ~> client = "stopped"

\* stop() returns, so that a successful run can be written to the database.
\* It does not hold: run() sets the action to measure at the top of its loop
\* whatever was requested, so a request made before the sampler has reached
\* its first wait, or between two waits, is lost and the join never returns.
StopReturns == client = "joining" ~> client = "stopped"
=============================================================================
