------------------------- MODULE SchedulerRefinement -------------------------
(***************************************************************************)
(* Scheduler implements AbstractScheduler: the queues of the abstract       *)
(* specification are the rings of the detailed one, read from the iterator  *)
(* along next; the tasks asleep are the ones the delayed list reaches.      *)
(***************************************************************************)
EXTENDS MCScheduler, ListWalks

Mode ==
  CASE cpu = "main" -> "main"
    [] cpu = "thread" /\ ~pendsv -> "running"
    [] OTHER -> "switching"

Abstract ==
  INSTANCE AbstractScheduler WITH
    ready <- [p \in Level |-> Ring(lists, p)], asleep <- Asleep(lists),
    priority <- staticPriority, running <- activeTask, mode <- Mode

\* Links, walks, wrapping time and dynamic priorities together behave as the
\* queues of AbstractScheduler: no call, tick or switch loses a task, repeats
\* it, moves it to another level or changes whose turn is next except by
\* the rules written there (scheduler.c as a whole).
Implements == Abstract!Spec

\* What a task's state and priority say is where it is, and it is nowhere else:
\* no call, tick or switch leaves a task in two lists, in none, or out of reach
\* of its iterator (scheduler.c as a whole).
EveryTaskInOnePlace == InOnePlace(lists, state, staticPriority)
==============================================================================
