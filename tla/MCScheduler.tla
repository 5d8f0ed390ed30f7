----------------------------- MODULE MCScheduler -----------------------------
(* Values for the model-checked instances of Scheduler.                     *)
EXTENDS Scheduler, TLC

\* The code's base priorities, and a scale model of them in which the limit is
\* within reach of a few dispatches, 255 > 254 becoming 6 > 5.
CodeBasePriority  == [p \in Level |-> <<0, 1, 2, 3, 255>>[p + 1]]
ScaleBasePriority == [p \in Level |-> <<0, 1, 2, 3, 6>>[p + 1]]

\* Tasks are told apart by the calls they make only. (Not for liveness.)
TaskSymmetry == Permutations(Task)
==============================================================================
