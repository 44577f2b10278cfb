------------------------------ MODULE Anytime ------------------------------
(***************************************************************************)
(* What the caller of an anytime solver relies on: whenever the time is up *)
(* there is a solution, it is feasible, and each solution that replaces an *)
(* earlier one has a lower peak than every one that was recorded before.   *)
(***************************************************************************)
EXTENDS Integers

CONSTANTS
  Instances,       \* the instances that are solved
  Feasible(_, _),  \* is a schedule of an instance feasible
  Peak(_, _)       \* what a schedule of an instance costs

\* The recorded score before there is one: numeric_limits<double>::max().
NoScore == -1

VARIABLES
  inst,      \* the instance that is solved
  solution,  \* what get_solution() would return; <<>> until there is one
  score      \* the peak of the recorded solution, NoScore until one is scored

Init ==
  /\ inst \in Instances
  /\ solution = <<>> /\ score = NoScore

\* The solver is set up: there is a first solution.
Start ==
  /\ solution = <<>>
  /\ Feasible(inst, solution')
  /\ UNCHANGED <<inst, score>>

\* A better solution is recorded together with its peak.
Improve ==
  /\ solution # <<>>
  /\ Feasible(inst, solution')
  /\ score' = Peak(inst, solution')
  /\ score = NoScore \/ score' < score
  /\ UNCHANGED inst

Next == Start \/ Improve

vars == <<inst, solution, score>>

Spec == Init /\ [][Next]_vars

=============================================================================
