-------------------------- MODULE MCPreemptedCalls --------------------------
(* Values for the model-checked instances of PreemptedCalls.                *)
EXTENDS PreemptedCalls, TLC

\* The least values there can be: which level is picked is not the question.
LeastBasePriority == [p \in Level |-> <<0, 1, 1, 1, 2>>[p + 1]]

TaskSymmetry == Permutations(Task)

\* Before every statement of osDelay, and outside.
Statements ==
  {"run", "store", "unlink", "unlink_prev", "empty", "collapse", "collapse_prev", "advance",
   "clear_next", "clear_prev", "add", "add_next", "add_link", "add_tail", "add_head",
   "set_state", "yield"}

AllTickPoints == {"none", "delay"} \X Statements
==============================================================================
