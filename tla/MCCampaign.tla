----------------------------- MODULE MCCampaign -----------------------------
(***************************************************************************)
(* Instances of Campaign for TLC.                                          *)
(***************************************************************************)
EXTENDS Campaign, TLC

MCTask(inst, solvers, name, kvs, limit) ==
  [inst |-> inst, solvers |-> solvers, name |-> name, kvs |-> kvs,
   limit |-> limit]

\* Two configurations on one instance: they share a name and differ in their
\* key-value pairs, and the first matches two solvers.
TwoConfigs == << MCTask("a", <<"grasp", "swag">>, "c", "x", 1),
                 MCTask("a", <<"swag">>, "c", "y", 1) >>

\* One configuration on two instances.
TwoInstances == << MCTask("a", <<"swag">>, "c", "x", 1),
                   MCTask("b", <<"swag">>, "c", "x", 1) >>

\* Two tasks that only differ in their time limits: the results of both are
\* found by the same columns.
TwoLimits == << MCTask("a", <<"swag">>, "c", "x", 1),
                MCTask("a", <<"swag">>, "c", "x", 2) >>

Threads == Permutations(Thread)

Plain == {{}}
Measured == {{"memory"}}
SkipOptions == SUBSET {"skip_done", "skip_oom"}

\* A relaunch may differ from the launch before in the number of its threads.
Resumed == {{}, {"skip_done", "skip_oom"}, {"skip_done", "memory", "single"}}
=============================================================================
