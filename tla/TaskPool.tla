------------------------------ MODULE TaskPool ------------------------------
(***************************************************************************)
(* What a Parallelizer promises: once opened, it hands each task to one    *)
(* worker, once, and it says that it is complete only when every task has  *)
(* been handed out and every worker is done with its task.  It may be lost *)
(* at any time, and opened again with all of its tasks.                    *)
(***************************************************************************)
CONSTANTS Thread, Task

VARIABLES
  status,   \* "open", "complete" or "lost"
  pending,  \* tasks not handed out yet
  working   \* thread -> its task, 0 if it has none

vars == <<status, pending, working>>

Idle == [t \in Thread |-> 0]

Init == status = "lost" /\ pending = {} /\ working = Idle

\* run_in_parallel() fills the queue with every task.
Open ==
  /\ status # "open"
  /\ status' = "open"
  /\ pending' = Task
  /\ UNCHANGED working

\* A thread without a task gets one that nobody else will get.
Take(t) ==
  /\ status = "open"
  /\ working[t] = 0
  /\ \E i \in pending : /\ pending' = pending \ {i}
                        /\ working' = [working EXCEPT ![t] = i]
  /\ UNCHANGED status

\* A thread is done with its task.
Complete(t) ==
  /\ status = "open"
  /\ working[t] # 0
  /\ working' = [working EXCEPT ![t] = 0]
  /\ UNCHANGED <<status, pending>>

\* run_in_parallel() returns.
Close ==
  /\ status = "open"
  /\ pending = {} /\ working = Idle
  /\ status' = "complete"
  /\ UNCHANGED <<pending, working>>

\* The process is gone, and with it the queue.
Lose ==
  /\ status = "open"
  /\ status' = "lost"
  /\ pending' = {} /\ working' = Idle

Next == \/ \E t \in Thread : Take(t) \/ Complete(t)
        \/ Open \/ Close \/ Lose

Spec == Init /\ [][Next]_vars

-----------------------------------------------------------------------------
\* No task is given to two threads, and none that a thread works on is still
\* in the queue for another one: get_next_task() reads and removes under one
\* lock.
Exclusive ==
  \A t \in Thread :
    working[t] # 0 =>
      /\ working[t] \notin pending
      /\ \A u \in Thread : working[u] = working[t] => u = t
=============================================================================
