------------------------------ MODULE TaskLists ------------------------------
(***************************************************************************)
(* The intrusive lists of scheduler_v2: task control blocks linked through *)
(* their own prev and next pointers, either into a circular ready queue    *)
(* (one per priority level, entered through its iterator) or into the      *)
(* delayed list (with a head and a tail).                                  *)
(*                                                                         *)
(* A record L holds every pointer of the structure:                        *)
(*   L.next, L.prev   the links in each task control block                 *)
(*   L.iter           readyQueue[p].iter for each priority level p         *)
(*   L.head, L.tail   delayedList                                          *)
(*   L.fault          a NULL pointer was dereferenced, or readyQueue was   *)
(*                    indexed out of bounds: from here on the C program    *)
(*                    has no defined behaviour; the model takes no step    *)
(* Each operator below is one helper of scheduler.c: it maps the record    *)
(* the helper finds to the record it leaves.                               *)
(***************************************************************************)
EXTENDS Naturals

CONSTANTS
  Task,      \* the application's task control blocks
  IdleTask,  \* osIdleTask
  NULL       \* the null pointer

ASSUME TasksAreNotNull == IdleTask \notin Task /\ NULL \notin Task \cup {IdleTask}

TCB == Task \cup {IdleTask}

\* TaskPriority_e: IDLE, LOW, MEDIUM, HIGH, REALTIME, and their number.
TASK_PRIORITY_LVL_NUM == 5
IDLE == 0
REALTIME == 4
Level == 0 .. TASK_PRIORITY_LVL_NUM - 1

Pointer == TCB \cup {NULL}

ListRecord ==
  [next : [TCB -> Pointer], prev : [TCB -> Pointer],
   iter : [Level -> Pointer], head : Pointer, tail : Pointer, fault : BOOLEAN]

\* Zero-initialised memory: no task is linked anywhere.
NoLinks ==
  [next |-> [t \in TCB |-> NULL], prev |-> [t \in TCB |-> NULL],
   iter |-> [p \in Level |-> NULL], head |-> NULL, tail |-> NULL, fault |-> FALSE]

\* What the helper did before the fault is not kept: nothing runs after it.
Faulted(L) == [L EXCEPT !.fault = TRUE]

----------------------------------------------------------------------------
(* Linking and unlinking, which both kinds of list have in common.         *)

\* t comes to stand between pv and nx, either of which may be missing.
Between(L, pv, t, nx) ==
  [L EXCEPT
     !.prev = [u \in TCB |-> IF u = nx THEN t ELSE IF u = t THEN pv ELSE @[u]],
     !.next = [u \in TCB |-> IF u = pv THEN t ELSE IF u = t THEN nx ELSE @[u]]]

\* The neighbours of t are joined and t has none any more.
Without(L, t) ==
  [L EXCEPT
     !.prev = [u \in TCB |-> IF u = t THEN NULL ELSE IF u = L.next[t] THEN L.prev[t] ELSE @[u]],
     !.next = [u \in TCB |-> IF u = t THEN NULL ELSE IF u = L.prev[t] THEN L.next[t] ELSE @[u]]]

----------------------------------------------------------------------------
(* The delayed list.                                                       *)

_listAddTask(L, t) ==
  [Between(L, L.tail, t, NULL) EXCEPT !.tail = t, !.head = IF @ = NULL THEN t ELSE @]

\* Mutant: the tail is left behind.
RemoveKeepingTail(L, t) ==
  [Without(L, t) EXCEPT !.head = IF @ = t THEN L.next[t] ELSE @]

_listRemoveTask(L, t) ==
  [Without(L, t) EXCEPT !.head = IF @ = t THEN L.next[t] ELSE @,
                          !.tail = IF @ = t THEN L.prev[t] ELSE @]

----------------------------------------------------------------------------
(* The ready queues.                                                       *)

\* Mutants: the first task of a queue is linked to itself one way only; a task
\* is linked just after the iterator.
PushHalfLinked(L, p, t) ==
  IF L.iter[p] = NULL THEN [L EXCEPT !.iter[p] = t, !.next[t] = t]
  ELSE IF L.prev[L.iter[p]] = NULL THEN Faulted(L)
  ELSE Between(L, L.prev[L.iter[p]], t, L.iter[p])
PushAfter(L, p, t) ==
  IF L.iter[p] = NULL
  THEN [L EXCEPT !.iter[p] = t, !.prev[t] = t, !.next[t] = t]
  ELSE Between(L, L.iter[p], t, L.next[L.iter[p]])

\* Links t just before the iterator: t is the last to get its turn.
\* An empty queue becomes a ring of one.
_readyQueuePushTask(L, p, t) ==
  IF p \notin Level THEN Faulted(L)
  ELSE IF L.iter[p] = NULL THEN [L EXCEPT !.iter[p] = t, !.prev[t] = t, !.next[t] = t]
  ELSE IF L.prev[L.iter[p]] = NULL THEN Faulted(L)
  ELSE Between(L, L.prev[L.iter[p]], t, L.iter[p])

\* Mutant: the iterator is not moved.
RemoveUnderIterator(L, p, t) ==
  [Without(L, t) EXCEPT !.iter[p] = IF L.next[t] = t THEN NULL ELSE @]

\* Whichever task is removed, the iterator moves to the one after it.
_readyQueueRemoveTask(L, p, t) ==
  IF L.next[t] = t THEN [Without(L, t) EXCEPT !.iter[p] = NULL]
  ELSE IF NULL \in {L.next[t], L.prev[t]} THEN Faulted(L)
  ELSE [Without(L, t) EXCEPT !.iter[p] = L.next[t]]

\* The record after handing out L.iter[p], which is not NULL.
_readyQueueIterateForwards(L, p) == [L EXCEPT !.iter[p] = L.next[@]]
==============================================================================
