# A TLA+ model of TCPSPSuite

TCPSPSuite runs *campaigns*: every instance of a scheduling problem is solved
with every configured solver, and the results are stored in a database. This
project models the machinery of a campaign (queue, worker threads, storage,
error handling, memory sampler, partitions on a cluster and the merger of their
databases), the search of SWAG and the lists it keeps its graph in, GRASP, the
four ILP formulations, the costs and the verification of what they return, the
graph algorithms all of them rest on, and the traits of instances with the router
through the transformers. The models are checked
with TLC on small instances, and the properties that matter most are proved with
TLAPS for all values of the constants.

Paths in this file are relative to `src/`.

## 1. The system

| Part | State it keeps | Operations | Interacts with |
|---|---|---|---|
| `main.cpp` | parsed options, the storage, the queue | reads instances and configurations, builds the queue, starts the Parallelizer | everything |
| `manager/parallelizer` | `remaining_tasks` under `mutex`, the worker threads | `run_in_parallel`, `get_next_task`, `run_thread` | Selector, by call, from every thread |
| `manager/selector` | none | `run_all`: every solver a configuration matches | Runner; handles errors nobody else does |
| `manager/runner` | locals | transform, check, solve, verify, store, write | solvers, Storage, LinuxMemoryInfo, SolutionWriter |
| `manager/memoryinfo` | requested action, baseline, maximum | `start`, `measure`, `stop`, sampling thread | Runner, and its own thread by a condition variable |
| `manager/errors` | none | `handle`: store the error, then fail or go on | Storage |
| `db/storage` | the database, `insert_mutex`, `insert_error_mutex` | `insert`, `insert_error`, `check_result`, `check_error`, lookup of configurations | the database, retried transactions |
| `swag/` | precedence graph, time windows, queues of the propagation, candidates, sky line, best schedule | `iteration`: insert, propagate, delete, reset | `datastructures/skyline`, `instance/` |
| `grasp/`, `baselines/`, `ilp/` | their own schedules and formulations | `run`, `get_solution` | instances, sky lines, an external ILP solver |
| `instance/` | jobs, resources, lag graph, traits, solutions | `verify`, costs, transformations and their router | solvers and Runner |
| `datastructures/` | sky lines, level tree, pool, reset vector, circular vector, overlaps | updates and queries | solvers |
| `tools/` | - | merge databases, check completeness | the database files of campaigns |
| `util/`, `io/`, `visualization/`, `autotune.cpp` | configuration, log | parse, write | everything |

What is hard about it:

* *Threads.* Workers share the queue and the storage; the memory sampler shares
  one object with the worker that started it.
* *Failure.* Transactions fail and are retried as a whole. Processes are killed
  and started again on their database (`scripts/`). Errors abort the process or
  must not, depending on the build.
* *Laziness.* SWAG puts off propagation beyond the peak it works on and still
  decides by time windows; it keeps a sky line, a candidate list and two queues
  of deferred jobs in step by hand, and it undoes part of its own decisions.
* *Arithmetic.* Unsigned differences, borders computed in floating point, running
  sums.

`PROJECT.json` lists every component, and every hazard at its line.

What makes each part correct:

* Campaign: no task is lost or handed out twice; what is finished is stored, once,
  linked to its own configuration; errors end the process exactly when the build
  says so; a resumed campaign does not repeat work; no deadlock.
* Memory sampler: what is reported was measured; the sampler is gone before its
  results are read; a stop request is not lost.
* SWAG: whenever it is stopped it returns a feasible schedule, and the best one
  it recorded; it never inserts a precedence that makes the problem infeasible;
  every iteration ends.
* Graph algorithms, sky lines, interval sweeps, permutations: they compute what
  their definition says. Routers and mergers: they end, and lose nothing.

## 2. Modules

| Module | Models | Extends / uses |
|---|---|---|
| `MemoryInfo` | `manager/memoryinfo.cpp`: worker and sampler as two threads | |
| `MemoryInfoProofs` | its inductive invariant and theorems | `MemoryInfo`, `TLAPS` |
| `TaskPool` | *abstract*: tasks are pending, worked on or done; a launch completes or is lost | |
| `Campaign` | parallelizer, selector, runner, errors, storage, launches | refines `TaskPool` |
| `MCCampaign` | task lists and option sets for TLC | `Campaign` |
| `CampaignProofs` | inductive invariant, safety theorems, refinement | `Campaign`, `TLAPS` |
| `Schedules` | instances, feasibility, usage, peak | |
| `Anytime` | *abstract*: there is always a feasible solution, and it only gets better; feasibility and peak are parameters | |
| `Swag` | the search of `swag/swag.cpp` | `Schedules`; refines `Anytime` |
| `MCSwag` | small instances for TLC | `Swag` |
| `SwagProofs` | inductive invariant, safety theorems, refinement | `Swag`, `ScheduleProofs` |
| `SwagGraph` | the adjacency lists of `swag/swag.cpp` and `bulk_delete` | |
| `LagSchedules` | instances with any lags; what feasible, earliest and latest mean | `Schedules` |
| `CriticalPaths` | `algorithms/graphalgos.cpp`, `TraitsBuilder::check_lag_dag` | `LagSchedules` |
| `Traits` | the other flags of `TraitsBuilder`, and `TraitsRouter` | `CriticalPaths` |
| `ILP` | what the models of `ilp/` admit, and what is made of the answer | `LagSchedules` |
| `Solutions` | `instance/solution.cpp`: costs and verification; `ilp/dtilp.cpp` with extensions and costs | `LagSchedules` |
| `GRASP` | the search of `grasp/grasp.cpp` in its four implementations | `LagSchedules` |
| `Cluster` | partitions, nodes, `tools/dbmerger.cpp`, the completeness checker | |
| `ClusterProofs` | the merger, its links, the partitions | `Cluster`, `SumProofs` |
| `SumProofs` | least and greatest elements, iterated functions, sums over finite sets | `TLAPS` |
| `ScheduleProofs` | least solutions of a lag graph, usage and peaks, earliest and latest schedules | `LagSchedules`, `SumProofs` |
| `GraphProofs` | theorems about `SwagGraph`, `CriticalPaths` and `Traits` | these, `ScheduleProofs` |
| `SolverProofs` | theorems about `GRASP`, `ILP` and `Solutions` | these, `ScheduleProofs` |
| `MCParts` | instances for TLC; the modules from `SwagGraph` on in one specification | all of these |

### MemoryInfo

`client` is the worker inside `Runner::run`, `sampler` the thread inside
`LinuxMemoryInfo::run`. Each critical section of the mutex `m` is one action,
because nothing outside a critical section touches shared state. A timed wait
may end at any moment, so `notify_one` needs no state. `rss` stands for the
process, which the solver grows and shrinks (`Allocate`). `requested_action` is
not initialised in the code and starts with any value.

### Campaign

`db` (results, configurations, errors, files, invocations) outlives the
`process` (status, options, queue, mutexes), which owns the `thread` variables.
The `pc` of a thread names the function or critical section it is in:

    fetch -> parse -> select -> route -> check_result -> check_error -> solve
          -> insert -> lookup -> commit -> write -> select ...
    error handlers: dump -> report -> log -> fail | select

An attempt of a transaction is two steps, the lookup of the configuration
(`lookup`) and everything from there to the commit (`commit`); each may fail, and
then the whole is retried (`RetryInsert`), at most `RetryCount` times. `Launch`
starts a process on the database; `Die` takes it away at any moment; `JoinAll`
ends it normally; `Abort` models `assert(false)` and `std::terminate`; `exit()` is
called with a mutex held (`LogFails`) and ends later (`ExitEnds`), while other
threads go on. Whether assertions are compiled in and whether SOFT_FAIL is on are
two constants: an error aborts only a build with the first and without the second
(`FailHard`), and the assertion in `query_one()` any build with the first
(`CheckErrorAborts`). A launch has its own options (`flags`), among them the number
of its threads. The columns of measurements are left out. The outcome of a
transformation, a solver and a verification is a choice (`Route`, `Solve`).

### Swag

`pc` names the function or loop that runs. The variables carry the names of the
members of `SWAGSolver` where they have one (`es` and `lf` are `earliest_starts`
and `latest_finishs`; `esLate` and `lfLate` the two `out_of_range` vectors). One
round of a propagation loop is one action (`PushES`, `PushLF`, `RebuildES`,
`RebuildLF`), and a caller is split at its loops:

    InitES, InitLF                 initialize_times
    Iterate                        between two iterations; the time is read here
    RangeLF, RangeES               iteration: the peak has moved
    StuckLF, StuckES, Unstick      iteration_unstick: propagate, look, record
    Unstuck                        ... then delete or reset
    RebuildES, RebuildLF           create_new_candidate_edges
    ResetLF, ResetES               reset
    Candidate                      the loop over candidates
    InsertES, InsertLF             insert_edge

The queues are stacks, as in the code. The order of adjacency lists, the order
of jobs with equal keys after `std::sort`, the random choice of a candidate and
the choice among equal maxima of the sky line are left open. The scorers only
bias the random choice. `iteration_count` and `last_complete_push` occur as their
difference `sincePush`. Resource usage is one number per job, as the solver's
`required_traits` demand.

`find_edges_to_delete_backwards` and `_forwards` contain a breadth-first search
that never takes a step, because the edges it starts from are already marked as
seen: they give up all inserted edges at one job, and that is what
`BackwardsEdges` and `ForwardsEdges` say.

`Schedules!Feasible` is `Solution::verify`, `Peak` is what `compute_costs` and
the sky line agree on. `Anytime` knows nothing of the search: a solution appears
(`Start`) and is replaced by better ones (`Improve`). `Swag` maps its
`best_start_times` and `best_score` to it.

### SwagGraph

`Swag` has a set of edges where the code has two families of lists: an entry for
an edge in the list of its source holds the index of the edge's entry in the list
of its target, and the other way round. `bulk_delete` closes gaps by moving last
entries forward, in the lists of the sources first and of the targets second,
collects the indices this invalidates, and applies the changes of a list when it
comes by, in three passes (`graphPass`: `forward`, `reverse`, `repoint`; an action
is one entry deleted or one list finished). `graphEdges` records which edges were
asked for; the code has no such variable, and it is what the lists are compared
with.

### CriticalPaths, Traits and LagSchedules

`LagSchedules` defines by quantifiers over all start times what a feasible schedule
is, and what earliest starts and latest finishs are, for lags of any sign.
`CriticalPaths` is the code: a depth first search with a stack, run from every job
without a predecessor and writing indices from the back, a forward and a reverse
sweep in that order, and the scan of `NecessaryOrderComputer`. It also runs on
graphs with cycles, because `check_lag_dag`, `check_consistent_windows` and the ILP
formulations do; what it finds there is stated as a bound, and exactly for graphs
without. `Traits` takes its flags from there, computes the others
as `TraitsBuilder` does and runs the breadth first search of the router with its
walk back. Flags about drains and availabilities come as any set.

### ILP

A model is the set of its solutions, and a solution is what the program reads of
it: start times, and the least bound on the usage that the other variables admit
with them. Every formulation is the set its constraints describe, with the
variables it leaves out left out, so that a variable pruned once too often or a
big-M that cuts too deep shows as a schedule that is missing. Event times of EBILP
are continuous and are rounded by the code; they are counted in halves. The
external solver answers with any solution, an optimal one, or none, and says the
truth about it.

### Solutions

The start times of a solver (`TakeSchedule`: any; `SolveDTILP`: an optimum of the
formulation with extensions and costs) go through `compute_costs()`, one event per
step, and `verify()`. `solEvents` are the events that are left, taken in the order of
the comparison they are sorted by (`EventBefore`); `solLast`, `solCurrent` and
`solMaxUsage` are locals of the sweep. The runner asks for the costs first; neither call reads what the other
writes. Between two events the code sums over the time steps and the changes of
availability and costs, and so does `SegmentCosts`. `verify()` looks at windows,
lags and the hard deadline in this order, and the first two of its faults end it.

The number of switch-on steps of DTILP is an unsigned in the code: where extensions
and hard deadline leave less than none it wraps (`CountWraps`), and the model cannot
be built. Overshoot and capacity are variables without an upper bound, so that a
coefficient below zero brings the sum of the costs down as far as one likes, and the
costs, which are bounded by 0 from below, to 0 (`OvershootRebate`,
`InvestmentRebate`).

There is one resource, as the costs of several are added up, and availability, cost
functions, both limits on extensions and the hard deadline come with the instance.
No lag recharges a job, and no job is longer than its window.

### GRASP

`Place` puts a job at one of the positions the random generator may choose, for
both structures of the usage (array and sky line, whose lists of candidates differ);
`Move`, `Keep` and `Weigh` are the two hill climbers. Their costs are those of
`Instance::calculate_max_costs` (`MaxCosts`), which lets every job last one step
longer and so is not the peak. A time limit may cut the
search between any two of them, as in the code. The positions that the reduction
of a running sum at `grasp.cpp:298` makes unreachable or reachable are followed as
the code computes them.

### Cluster

Every node computes its partition by two calls of `nth_element` on hashes, whose
arrangement of equal elements is open, and open for every node on its own; it runs one task per step, may be lost, and
is launched again with `-u` (`Relaunch`). The merger reads one source after the
other in chunks of ids, each copied in one transaction; `destConfigs` are the
configurations of the destination, and the session's cache returns those it has
written itself without their entries. It may be interrupted between any two steps
and started again on the same files. `Missing` is what the completeness checker
reports then.

## 3. Runs

| Run | Question | Bounds |
|---|---|---|
| `MemoryInfo` | Is the handshake right, in every interleaving? | resident set 0..3 pages, any number of objects one after another |
| `MemoryInfoStop` | Does `stop()` return? *It may not.* | as above |
| `CampaignParallel` | Do rows, files and configurations fit together, whatever fails? Does every launch end? Does it refine `TaskPool`? | 2 threads, 2 configurations with one name, 3 solver runs, 2 trials, all option sets, no symmetry |
| `CampaignResume` | Does a relaunch neither lose nor repeat? Do errors end it? | 2 threads, 2 tasks found by the same columns, 2 launches with 3 sets of options, process lost at any step, commits that fail after taking effect |
| `CampaignSampled` | Does SOFT_FAIL survive an error while memory is sampled? *No.* | 1 thread |
| `CampaignSeed` | Is there a file for every result? *No.* | 2 threads, fixed seed |
| `Swag` | Everything about the search | 4 instances of 5 jobs, 1 deletion per reset, 3 trials, forced push after 2 iterations |
| `SwagStuck` | Is there always a candidate? *No.* | 2 jobs |
| `Parts` | Everything about the modules that `MCParts` extends | see below |
| `HardDeadline` | Does `verify()` reject what ends after the hard deadline? *No.* | the instances of `Parts` |
| `GraspCosts` | Are the best costs of GRASP the peak of its best schedule? *No.* | the instances of `Parts` |
| `ClusterSplit` | Is every task in exactly one partition? *No, if hashes are equal.* | the tasks of `Parts` |

`CampaignParallel` has 165,630 distinct states, `CampaignResume` 1,189,321 and
`Parts` 299,043.

Why the bounds are enough. Two threads meet in every critical section and a
third adds no new pair; every property of `Campaign` speaks of at most two rows or
threads. Two trials are one retry, the difference between once and again; two
launches are one resume, whose options may differ from those of the first: none,
`-u --skip-oom`, or `-u -m` with one thread. In `CampaignResume` the tasks differ in
their time limits only, so that a result of one is found for the other and two errors
of one kind may be stored. In `CampaignParallel` the two configurations share their
name, so that both halves of the lookup matter. In `MemoryInfo` three pages are a
baseline, a peak above it and a value between. The instances in `MCSwag` were
chosen so that the interesting things happen: `Chain` puts off the propagation of
starts, `Crowd` runs out of room, deletes and resets, and `LateStarts` and
`LateFinishs` keep the peak at a job that cannot move, so that candidates are
judged while windows elsewhere are stale. With them the run reaches states where a
window beyond the active range is out of date when an edge is inserted, where the
starts read at the beginning of an iteration violate a precedence, where a forced
push finds deferred jobs, and where only some of the inserted edges are deleted.

The parts in `MCParts` share no state at run time. The first step of a behaviour
chooses one of them (`part`), the others stay as they are, and the number of states
is the sum over the parts. Each of them ends, hence no check for deadlock. Their
bounds:

* `SwagGraph`: five jobs, two lags and five other pairs, at most four edges out of
  a job. A deletion can then remove the first, the last and a middle entry of a
  list at once, move an entry whose counterpart is deleted or moved in the same
  call, and leave a list empty; a sixth job adds another list, not another case.
* `CriticalPaths`, `Traits`: all 81 graphs over four ordered pairs of three jobs,
  each pair with a lag of -1, of 2 or without one, in a wide and in a narrow set of
  windows and in one without slack for jobs without duration. Three jobs are the
  least with a path, a transitive edge, two roots, a cycle of two jobs behind a root,
  and one of three that no root reaches; all of them occur. The four requests take
  none, one or several transformers, or are out of reach.
* `ILP`: six formulations on instances with three jobs and a horizon of 4, with and
  without lags, one without a schedule and one with disjoint windows; the two that
  need most time are given to some of the formulations only. All pairs of "must
  come before", "may" and "must overlap" occur.
* `Solutions`: nine instances of three jobs with all start times up to the last
  extended deadline, or all optima of DTILP. Availability and costs change while
  jobs run, at events and between them; the limits bind on time only or on jobs
  only; a hard deadline cuts the extensions short, leaves no schedule, or leaves a job
  less than no step; one instance allows no extensions, some have coefficients below
  zero, and one has costs that are not linear, which DTILP
  does not take.
* `GRASP`: three combinations of order, structure and climber that contain every
  option once, candidates, samples and selections of 2, reset after 2 iterations in
  vain.
* `Cluster`: three tasks on two nodes with any hashes among two values, so that
  ties lie inside a partition and across the border, or a task is alone in its hash
  (three different hashes give no other partitions), and a name that is shared with
  and without key-values; chunks of two rows, so that a
  source has a full and a partial chunk; one node and one merger lost.

Only `CampaignResume` is reduced by symmetry (of the threads); no liveness is
checked there.

**Violations.** Seven runs show a disagreement between the code and what the
repository says of it (PROJECT.json `findings` quotes both):

1. `LinuxMemoryInfo::run` overwrites a stop request made while it is not waiting;
   `stop()` then joins a thread that never ends.
2. A solver that throws while memory is sampled destroys a joinable thread:
   `std::terminate`, also with SOFT_FAIL.
3. With a fixed seed, two configurations write to one result file.
4. SWAG asserts that there is a candidate after a reset; there need not be one.
5. `verify()` fills in the error "violates hard deadline" and then returns true, so
   that the runner stores the solution.
6. `calculate_max_costs()` ends a job one step too late: GRASP adds up jobs of which
   one starts when the other ends, and prefers schedules with gaps.
7. Tasks with equal hashes (the seed is not hashed) are arranged by every process on
   its own: one may be run in two partitions and another one in none.

Some properties hold only under a condition the code does not enforce, and the
runs or theorems name it. `NoRecompute` is about what the database had when the
launch began: two equal tasks on two threads may both pass the check before either
commits, which the run reaches. `OneRowPerRun` needs commits that do not both take
effect and report failure. `CostsFollowSchedules` excludes the weighted selection of
GRASP, which takes the peak within a window for the peak and goes on with the usage
of a schedule it has left. `TasksShared` counts tasks by hash; what it leaves open
for tied tasks is the violation of `ClusterSplit`. `ClusterComplete` starts from the
partitions as they are, and allows that a result whose configuration has no
key-values is linked to another configuration of its name. `PathsExact` and
`TraitsTrue` each have a part for all graphs and a stronger one for graphs without
cycles. `DiscreteOptimum` speaks of the cheapest schedule where no coefficient is
below zero. `EveryResultHasFile` would also fail if the process is lost between the
commit and the write and is resumed with `-u`.

## 4. Fairness

* `MemoryInfo`: weak fairness of the sampler (its wait is timed and the scheduler
  runs it) and of the client's steps towards `stop()` (a solver obeys its time
  limit). Nothing forces the solver to allocate.
* `Campaign`: weak fairness of every thread's step, of the join and of `exit()`. A
  thread that waits for a mutex needs no more: the holder always releases it or
  exits. No fairness for `Die` or `Launch`. Memory sampling is excluded from
  `CampaignParallel`, the run with the liveness property, because of violation 1.
* `Swag`: weak fairness of the solver's step. It is one thread that never waits.
  The time limit (`TimeIsUp`) has no fairness: iterations must end by themselves.
* The parts of `MCParts` have no fairness: what is asked of them is what they
  return, not that they return.

## 5. Proofs

Assumptions are the named ASSUMEs of the modules, which TLC evaluates on its
instances, plus the hypotheses named below.

**MemoryInfoProofs.** The invariant ties the two threads together: while the
client is solving the sampler exists and has not finished, while it is joining a
waiting sampler holds a request, and the maximum and the baseline are in the set
of seen values. `ReportedPeak` (what is reported was measured, after the sampler
has been joined, and while the client is solving there is a sampler) and
`RequestKept` follow.

**CampaignProofs.** The inductive invariant has these parts, each preserved by
lemmas of its own:

* types; the control of a thread (which fields are set at which `pc`);
* mutual exclusion: a thread inside an insert section owns the mutex;
* the configuration table: what a lookup found is still there, and if it found
  nothing, there is still nothing, because only the owner of `insert_mutex` stores;
* accounting: every job before the position of the queue is done, or some thread
  has it in hand, or the launch is no longer going to end normally;
* rows of the current launch belong to jobs that no thread has still to store;
* failure modes: in which builds a thread can be at `fail`, and what it has stored
  by then.
* between the check of `-u` and the commit, what the check did not find is still
  missing among the results of earlier launches (`StillMissing`): whatever the threads
  store in between is of this launch;
* the files: in a launch that is not lost, a stored result is in its file, or with
  the thread that is about to write it, and an error has its `ERRORED` file from the
  moment it is reported (`FilesInv`).

Accounting is not inductive on its own, as a thread may drop a task between the
solvers it matches; the invariant therefore says for every thread which jobs of
its task are still to do. Theorems: `TypesAreRight`, `NothingDropped`,
`ConfigsAreUnique`, `ResultsAreLinked`, `HardFailsStop`, `NothingComputedAgain`,
`Refinement` and `TasksAreExclusive` without further hypotheses, `StoredOnce` assuming
`~LossyCommit`, and `FilesAreKept` assuming `~LossyCommit` and `DistinctFiles`: the
seed is not fixed, and no task matches a solver twice. Without `DistinctFiles` a
result is overwritten, which `CampaignSeed` shows.

**SwagProofs.** What has to be explained is why an edge may be inserted on the
strength of windows that are out of date. The inductive invariant says:

* `Admits`: there is *some* schedule within the current windows that respects
  lag graph and inserted edges. The solver never computes it. A propagation keeps
  it (a schedule above the starts stays above what an edge forces), a deletion
  only makes room, and a reset returns to the base. For an insertion the witness
  is built (`InsertAdmits`): the target of the edge and all jobs that start after
  its end move as late as they can, the others as early as they can, where the
  windows say what a job can do within the active range, and the old schedule
  says it beyond;
* `StartsTight`, `FinishsTight`: along every edge the starts (finishs) are
  consistent, or the job that should push is in the queue, or it was put aside and
  then the other job lies beyond the active range. These two carry the hypotheses
  of `InsertAdmits` from the last propagation to the insertion;
* `BaseOK`: the windows to which a reset returns are consistent along the lag graph;
* `SkyLineFollows`: a job that is not where the sky line has it is marked as changed;
* `TypeOK` and `Control`: which queues can hold something in which function.

Theorems: `TypesAreRight`, `GraphStaysSolvable`, `BestIsFeasible`,
`SkyLineIsCurrent`, `EdgesAreNew` and `Refinement`. They hold for every set of
solvable instances, any number of jobs, and all values of the parameters.

The second half of the module asks what the windows are worth. The definition of
`Swag!Complete` is a recursion: so many rounds of "take the maximum over the
incoming edges". `ScheduleProofs` shows that it is the least solution of the graph,
whenever there is one (`LeastIsReached`: a job that still moves in round n has a
chain of n jobs behind it that holds it, and a chain longer than the number of jobs
would repeat one and rise for ever, against the bound of the solution). With `Admits`
there is one, and that is `GraphIsSolvable`. For the rest the windows need a reason
from below:

* `HeldInv`: no end of a window is held by nothing. Its value is the base value, or
  an edge forces it, or the job is marked to be looked at again. This is the other
  side of `StartsTight`; deletions are where it could fail, as they take the edge
  away that holds a job;
* `RoomComing`: from the trial in which all edges at some job were given up to the
  end of the propagation after it, the jobs at the peak can be moved apart once the
  values that `HeldInv` allows have been reached. `DeletionsMakeRoom` follows,
  although the trial propagates only as far as it must and compares differences in
  unsigned arithmetic;
* `Grounded`: values that are held in a circle could be too large and still hold one
  another. No circle can do so in a graph without cycles, and an insertion cannot
  close one: its target ends after its source has ended. `WindowsAreExact` therefore
  assumes `LagsOrdered`, that the lags of an instance have no cycle. The solver does
  not require `LAGS_DAG` (`swag.cpp:2504`); in an instance with a schedule a cycle
  of its precedences can only consist of jobs without duration, whose windows could
  hold each other. The instances of the run satisfy the hypothesis.

**ClusterProofs.** How often a row has been copied depends on whether the present
run of the merger has passed it: at most once per interruption before, once more
after. The border between the two is `first_id` while a chunk is loaded and the
first id of the chunk while it waits to be copied (`PresentSource`), and the sources
before and after the present one lie on either side of it (`OtherSources`). Theorems:
`MergeIsTracked` and `MergesOnce`, for any number of nodes, rows and interruptions.

`CampaignIsComplete` and `PartitionsMeet` are the other two thirds of a campaign on a
cluster. The cache of the merger's session returns configurations without their
entries: one that is looked up by its key-values is then not found and stored again,
which does no harm, but one without key-values may find another one of its name. The
invariant bounds for every row of the destination whose results it may hold, and what
the completeness checker says follows up to that. A node that has ended has a result
or an error for every task of its partition. And the nodes share the tasks out by a
telescope: `nth_element` at a border puts a number of tasks of each hash before it
that depends on the border and the hash alone, though not which ones (`Cut`), so what
a node runs of one hash is the difference of two neighbouring borders and the sum over
the nodes is what there is; a task that is alone in its hash is in one partition.

**SumProofs and ScheduleProofs.** The models take sums with `MapThenSumSet` and
maxima over sets of numbers; the provers know neither. `SumProofs` derives from the
definition of the fold what is used of them, with every induction stated as a least
counterexample (`LeastNumber`), because the theorems on induction take an operator.
A recursive function in a LET is a CHOOSE of a function that satisfies an equation;
`Iterates` and `SumsExist` provide one. `ScheduleProofs` says what a peak is (there
is a start at which it is attained, `PeakAtStart`), and that the job by job least and
greatest start times of the feasible schedules are feasible schedules.


**GraphProofs: the lists of the solver.** That the indices are inverse to each other is not true during
a deletion: a list that has been compacted is one whose partners hold old indices.
The invariant says for an entry that stays what its index *will* be: the last change
recorded for it, or, if there is none, what is stored (`Points`). With that:

* `OutLinked`, `InLinked`: every entry that is not marked for deletion has a partner
  that is not either, and the two point to each other in this sense;
* `Listed`, `ListedOnce`: entries that stay are the edges, one for each;
* `BucketsInRange`, `Passes`: where marks lie, and which lists the current pass has
  finished, so that there are no marks or changes left behind it;
* `Base`: the lists a reset returns to are those of the lag graph, linked on their
  own.

The heart is lemma `Gap`: closing a gap with the rightmost entry keeps all of this
if the change is recorded, whether or not the entry was moved before. Between two
operations (`Quiet`) no changes are left and the parts become the properties.
Theorems: `GraphTypesAreRight`, `IndicesAreInverse` and `EdgesAreInLists`, for any
number of jobs and any edges. Together with `SwagProofs`, which works on the set of
edges, this covers the graph of the solver down to its lists.

**GraphProofs: lag graphs.** `PathsAreExact`. The invariant of the topological sort
says where the indices lie that have been given out (below the present one are the
jobs not finished yet, one index each), that what is on the stack is a path, and that
the number of a finished job is below those of the jobs behind it. Graphs with cycles
are in the model, because `check_lag_dag` runs on them; there an index may be given
twice and the next one wraps around below 0, and the invariant has both cases. On
such a graph jobs may be missing from the order, and the sweeps leave zeros for them;
still no sweep goes beyond what a feasible schedule does (`ForwardBounds`,
`ReverseBounds`), because it only ever relaxes along lags. Without cycles the
forward sweep is exact for the part of the order it has passed and never beyond the
least schedule elsewhere; the reverse sweep bounds every feasible schedule from above
even where there is no latest one. `NecessaryOrderComputer` scans along the sorted
windows, and stops at the right job as long as there is a schedule: the proof made
the clause about its overrun precise, as a job without duration and without slack
lets it leave the vector although the instance is solvable (see section 6).
`PathAssumption` asks for finitely many lags and as many jobs as an `int` can count.

`TraitsAreTrue`: the searches of `TraitsBuilder` visit what their sources reach
(every visited job is finished or has a successor on the stack; a job that is reached
and not visited would have a first one on its path), and the flags follow. For
`LAGS_DAG` on graphs with cycles, `NoCycleBehindSource` goes back from the order to
the sort: the indices of the jobs that a source leads to are given once, so that lags
between them that go forward in the order cannot lead back.
`RoutesAreShortest`: profiles are found in the order of their depths (`QueueInv`), the
inputs form a tree with no more than the depth of a profile on the way back to the
start, and three transformers are always enough: none changes what another one
requires, and to repeat one makes its first use redundant.

**SolverProofs: GRASP.** Three facts about windows and schedules carry the argument. If an
instance has a feasible schedule, the job by job least starts of all its schedules
form one (`EarliestExists`), and without cycles of lags nothing else can be an
earliest schedule (`EarliestIsLeast`, by the number of a job along the lags): the
search begins with a feasible schedule. In a feasible schedule the window of a job,
a maximum and a minimum over its lags, exists and holds the place the job has
(`WindowBounds`), and a job may go anywhere in it (`MoveIsFeasible`). And whatever a
structure of the usage offers is a position in such a window: for the sky line, the
last border is one step behind the last position, and a candidate ends before the
next border (`BordersInWindow`, `NextBorder`, `SkylineChoiceFits`), however the
number drawn is reduced. `SearchStaysFeasible` follows with the invariant that
`starts`, `newStarts` while a climber runs, and `bestStarts` once there are costs are
feasible. The reset needs its last part: it takes `bestStarts` up only if an
iteration was not below the best, so that there is a best.

`CostsAreOfSchedules`: the costs held for a schedule are what `calculate_max_costs`
finds for it, and not for the one before or after a move, and they are no lower than
its peak, as every job counts a step longer. That they are the peak is false
(`GraspCosts`).

**SolverProofs: ILP.** EBILP without start points is the only formulation that computes its
start times, by rounding event times. Rounding keeps bounds and distances that are
whole steps (`RoundingKeepsBounds`, `RoundingKeepsOrder`); the deadline of a job is a
bound on the event at its end, and reaches the rounded start by way of the duration
(`EventsGiveSchedules`). With this every solution of every formulation is feasible
(`ModelsAreFeasible`). `BoundsAreSafe` says that the usage a model reports is no
lower than the peak of its schedule, for every formulation and whatever it is stopped
with:

* DTILP charges every job for the steps it runs in;
* OBILP: at the start of a job at which the peak is attained, whatever runs has an
  order variable of 1 and cannot have a disjunct variable of 1, and pairs without
  variables are fixed the way their windows force (`ShareOfRunning`);
* FBILP: what runs at one time cannot pass flow to each other, directly or over
  proxies, so that the jobs running at the peak are supplied by disjoint parts of
  the inflow (`FlowsCover`, a cut: the sum over the jobs that have ended by then of
  what leaves them is no more than what has come in);
* EBILP: the last start event before the peak has all that run there as started and
  not ended, whatever the order of simultaneous events (`EventsCover`).

`ILPAssumption` asks for instances without cycles of lags and a horizon that is not
empty.

`OptimumIsLeast` is the other direction: for every formulation and every feasible
schedule there is a solution of the model whose bound is no higher than the peak of
that schedule (`BestInv`, the inductive invariant: the model contains one, and an
answer called optimal is the best in it). The variables have to be constructed:

* DTILP: the peak bounds the usage of every step, so it serves as it is;
* OBILP: a job that does not run when another starts can be given a share of 0 there
  (`ShareOfIdle`);
* EBILP: a start or end gets the number of starts and ends that come before it, ends
  before starts at one time; jobs that start, or end, at the same time share an event
  (`RanksAreOrdered`). These numbers are among the events that are left to the job
  after skipping those of its predecessors and successors (`RanksAreLeft`), the
  events can take place at these times (`RankTimes`), and more than the peak is open
  at none (`RanksBounded`);
* FBILP: the usage is numbered from 1 to the peak, each job in order of the starts
  taking numbers none of those running holds (`UsageNumbered`). The jobs that share
  a number form a chain in time (`Chain`), and along every chain one unit flows from
  each job to the next one (`FlowsOfChains`). With proxies the chains are made as long
  as possible (`LongChain`), since an edge that a proxy could stand in for has no
  variable: it would be a place where another job still fits into the chain.

It is stated under `OrdinaryCases`, which TLC evaluates for the instances of the run
(`OrdinaryILPSmall`): all jobs take time, and no lag is below minus the last deadline.
The first is needed since OBILP, EBILP and FBILP count a job without duration at the
time at which it starts and the sky line does not; the second because of the big-M
of EBILP, see the remark in section 6. `EventsInWindows` has the big-M constraints
for all pairs of events, chosen and not chosen, for that reason.

**SolverProofs: solutions.** `verify()` counts earliness and lateness job by job, DTILP
has one variable for each direction and a job may use one of them. On windows that
leave room for the job it cannot be early and late at once, and so the two count the
same. `VerifyIsFeasibility`: where no extension is allowed, what `verify()` accepts
is feasible, and the other way round. `VerifyDecidesExtensions`: with extensions it
accepts what fits into windows that can be extended within the limits; the cheapest
extension stretches every window exactly as far as the schedule leaves it.
`DiscreteSolutionsPass`: whatever DTILP returns passes, within the limits and before
the hard deadline, for all instances, limits and cost functions.

`CostsAreExact`: between two events the usage is that of the jobs begun minus that of
the jobs ended, which is the usage in every step up to the next event (`SweepInv`);
the steps that have been passed are charged once; before the first and after the last
event nothing runs, and costs there are those of the availability alone.
`DiscreteIsCheapest`: the schedules of DTILP are those that `verify()` accepts and
that meet the hard deadline; its walk along the changes of availability never falls
behind (`WalkIsRight`); its objective equals the costs, because linear polynomials
are 0 at 0 and nothing runs beyond its horizon. That holds unless a coefficient is
below zero. Where the step count of a job wraps, no schedule meets the hard deadline,
and nothing acceptable is lost.

**Only model-checked.** Liveness (`StopHonoured`, `Terminates`, `IterationEnds`) is
beyond the prover. The attempt to prove `OptimumIsLeast` found two errors in the
model, both corrected: a flow variable was bounded by the largest usage, which the
code does not do (`fbilp.cpp` bounds a sequence edge by the sum of all usages if
there are proxies), and a proxy may have to pass on more; and the constraints of EBILP
were there for the chosen events only, so that a big-M that is too small could not
have been seen.

## 6. What is not modelled

Of about 80,000 lines under `src/`, some 56,000 are generated by ODB or are
libraries that were copied into the tree (JSON, Catch and others); they are
modelled, where at all, by how the code uses them. Of the rest:

* Transformers' `run()`. No solver requires a flag that a transformer provides and
  that its instances lack, so that the programs only ever take the empty route.
* `APLPComputer`, `ArraySkyLine`, `LevelTree`, the pool, the circular vector, the
  generator of overlapping jobs and the interval runner: only tests use them.
* `SkyLine` stands on a tree library that is not part of the repository; what it
  returns is modelled in `Swag` and `GRASP`, how it does so is not.
* The scorers of SWAG (they bias a random choice), candidates in batches and a rarer
  range check (both off by default); `graph_delete_edge`, which nothing calls.
* `FastResetVector` as more than a set that is emptied at once: its round counter
  wraps, after more resets than a run can do, and would then revive old entries.
* Recharge: lags with a drain factor lengthen the job they start from or lead to.
  The code disagrees with itself about which (`assert(edge.t == jid)` at
  `solution.cpp:126`, `assert(edge.s == jid)` in `dtilp.cpp`), and `compute_durations`
  takes the *greater* of the addition and `max_recharge`, which
  `docs/pages/instance_file_format.md:112-124` calls a limit of the addition.
* Extensions and availability in the ILP formulations other than DTILP. OBILP and
  FBILP do not look at them, as `docs/pages/solvers.md` says for their instances.
* Partial failure of a transaction inside the merger: it ends the merger, as an
  interruption does.
* Formats, logs, visualisation, autotuning, option parsing: pure input and output.

Remarks from reading the code that no run is about, because they are harmless,
outside of any use, or contradict nothing that is written down:

* `swag.cpp:165-167` and `206-208` say that an element is never moved twice. It may
  be; the order in which changes are applied makes it harmless, and the proof of
  `IndicesAreInverse` does not need the claim.
* `check_lag_dag` sets `LAGS_DAG` for graphs whose cycles no root reaches, and for
  lags from a job to itself.
* The scans of `NecessaryOrderComputer` have no bound of their own. With positive
  durations they leave the vectors only if the instance has no schedule; a job without
  duration and without slack lets them do so although there is one. The only caller
  is `ebilp.cpp:56`.
* `Instance::compute_traits` throws, for some instances without a schedule, outside
  of every `try` of a worker thread.
* `ebilp.cpp:221-226` multiplies `lag + latest_deadline` by -1 for a pair of events of
  which neither is chosen. For a lag below minus the last deadline this is positive
  and the constraint no longer void: with a horizon of 4, a lag of -8 makes
  EBILP without start points end in a schedule that is not the best, and -9 in none.
  Such a lag constrains nothing and could be left out of the instance.
* In GRASP, `bestStarts` is what is returned if no iteration has ended: zeros.
* A merger that was interrupted copies some rows once more; a configuration row
  from the session's cache has no entries and is not recognised again, so that
  equal configurations are stored twice, and one without entries is taken for it.
* `find_db_configs()` (`storage.cpp:74`) does not look at the time limit:
  configurations that differ in it share a row, which has the limit of the first.
* With coefficients below zero DTILP pays nothing for any overshoot or capacity, and
  every schedule is as good as any other to it.
* `Traits::remove_flag` uses a logical not and clears all flags;
  `Traits::fulfills` compares with `!(flags)`, which makes an assertion always hold;
  `match()` does not look at flags that are wanted to be absent. The first is called
  by `run()` of the transformers only.
* `thread_checker.cpp:25` locks with a temporary; the threads share `last_checked`.
* With both limits on extensions 0, `verify()` does not look at the hard deadline
  and DTILP does. A job longer than its window could be extended on both sides for
  `verify()`, which counts it twice, but not for DTILP.
* `query_one()` (`storage.cpp:380`) asserts that there is at most one row; errors of
  one kind may have been stored twice, and a relaunch with `--skip-oom` is aborted
  then.
* Measurements are stored if memory metrics and PAPI counters are configured
  (`runner.cpp:150`), but taken if memory metrics are and there is one thread: `-m`
  alone measures and stores nothing, and with PAPI counters and several threads a
  sampler that was never started is passed on to the storage.

## 7. Plan

Done, with their proofs: all modules; every invariant and action property of a
passing run is stated by a theorem. What is left, in this order:

1. Recharge in `Solutions`, once it is decided what it should do.
2. The transformers' `run()`, as maps between instances that keep the feasible
   schedules.
3. The tree sky line over a model of its library, refining the usage that `Swag`
   and `GRASP` ask for.
