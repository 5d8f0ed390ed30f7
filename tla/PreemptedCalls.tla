--------------------------- MODULE PreemptedCalls ---------------------------
(***************************************************************************)
(* osDelay, osStartTask and osKillTask one statement at a time, with SysTick *)
(* arriving between the statements: nothing in these calls masks it.  Each  *)
(* task has the statement it is at (pc) and the locals of the call it is    *)
(* in (local); a task that is switched out in the middle of a call goes on  *)
(* from there, with the locals it had, when it is next dispatched.          *)
(*                                                                         *)
(* The exceptions are those of SchedulerCore.                               *)
(***************************************************************************)
EXTENDS SchedulerCore, ListWalks

CONSTANTS
  Calls,       \* the calls this application makes
  Priorities,  \* the priorities it gives its tasks
  Delays,      \* the arguments of osDelay, in milliseconds
  TickPoints   \* the points <<call, statement>> before which a tick may arrive

ASSUME WorkloadAssumption ==
  /\ Calls \subseteq {"start", "kill", "delay"}
  /\ Priorities \subseteq Level
  /\ Delays \subseteq Nat
  /\ \E longest \in Delays : \A d \in Delays : d <= longest

VARIABLES
  pc,       \* the next statement of each task
  local,    \* the locals of the call each task is in
  settled,  \* history: the lists when a call last completed or was left
  slept     \* history: ticks each task has spent in osDelay, up to Enough

pvars == <<vars, pc, local, settled, slept>>

NoCall == [op |-> "none", task |-> NULL, next |-> NULL, prev |-> NULL,
           time |-> 0, delayMs |-> 0]

Enough == CHOOSE n \in {d + 1 : d \in Delays} : \A d \in Delays : n >= d + 1

\* The task that executes, the task its call is about, and that one's queue.
self == activeTask
Subject == local[self].task
Queue == staticPriority[Subject]

Executing ==
  cpu = "thread" /\ ~pendsv /\ ~lists.fault /\ activeTask \in Task

InMain == cpu = "main"

----------------------------------------------------------------------------
(* Statements: each leads from one point of the program to the next.       *)

At(here) == Executing /\ pc[self] = here

Goto(there) == pc' = [pc EXCEPT ![self] = there]

\* settled follows the lists except inside a call.
Settle == settled' = IF pc'[self] = "return" \/ pendsv' THEN lists' ELSE settled

Begins(call, u, delayMs, there) ==
  /\ At("run")
  /\ local' = [local EXCEPT ![self] =
                 [NoCall EXCEPT !.op = call, !.task = u, !.time = timestamp, !.delayMs = delayMs]]
  /\ Goto(there)
  /\ UNCHANGED settled

Tests(here, there) ==
  /\ At(here)
  /\ Goto(there)
  /\ UNCHANGED <<vars, local, slept>>

Reads(here, name, value, there) ==
  /\ At(here)
  /\ local' = [local EXCEPT ![self][name] = value]
  /\ Goto(there)
  /\ UNCHANGED <<vars, slept>>

Writes(here, newLists, there) ==
  /\ At(here)
  /\ lists' = newLists
  /\ Goto(there)
  /\ UNCHANGED <<state, staticPriority, nextExecTimeUs, kernel, pendsv, local, slept>>

\* Stores through a pointer, which may be NULL.
Next(q, value) == IF q = NULL THEN Faulted(lists) ELSE [lists EXCEPT !.next[q] = value]
Prev(q, value) == IF q = NULL THEN Faulted(lists) ELSE [lists EXCEPT !.prev[q] = value]
Iter(value) == [lists EXCEPT !.iter[Queue] = value]

----------------------------------------------------------------------------
(* The helpers, inlined into the calls that use them.                      *)

BeforeRemoved == local[self].prev  \* mutant

\* Where the iterator moves to.
AfterRemoved == local[self].next

RemoveFromQueue ==
  \/ Reads("unlink", "next", lists.next[Subject], "unlink_prev")
  \/ Reads("unlink_prev", "prev", lists.prev[Subject],
           IF local[self].next = Subject THEN "empty" ELSE "collapse")
  \/ Writes("empty", Iter(NULL), "clear_next")
  \/ Writes("collapse", Prev(local[self].next, local[self].prev), "collapse_prev")
  \/ Writes("collapse_prev", Next(local[self].prev, local[self].next), "advance")
  \/ Writes("advance", Iter(AfterRemoved), "clear_next")
  \/ Writes("clear_next", Next(Subject, NULL), "clear_prev")
  \/ Writes("clear_prev", Prev(Subject, NULL),
            IF local[self].op = "delay" THEN "add" ELSE "yield")

\* Mutant: the neighbour before the iterator is not told.
PushWithoutNeighbor ==
  \/ Tests("push", IF lists.iter[Queue] = NULL THEN "first" ELSE "push_next")
  \/ Writes("first", Iter(Subject), "first_prev")
  \/ Writes("first_prev", Prev(Subject, Subject), "first_next")
  \/ Writes("first_next", Next(Subject, Subject), "return")
  \/ Reads("push_next", "next", lists.iter[Queue], "push_prev")
  \/ /\ Reads("push_prev", "prev", lists.prev[local[self].next], "link_prev")
     /\ local[self].next # NULL
  \/ /\ Writes("push_prev", Faulted(lists), "link_prev")
     /\ local[self].next = NULL
  \/ Writes("link_prev", Prev(Subject, local[self].prev), "link_next")
  \/ Writes("link_next", Next(Subject, local[self].next), "neighbor")
  \/ Writes("neighbor", Prev(local[self].next, Subject), "return")

PushToQueue ==
  \/ Tests("push", IF lists.iter[Queue] = NULL THEN "first" ELSE "push_next")
  \/ Writes("first", Iter(Subject), "first_prev")
  \/ Writes("first_prev", Prev(Subject, Subject), "first_next")
  \/ Writes("first_next", Next(Subject, Subject), "return")
  \/ Reads("push_next", "next", lists.iter[Queue], "push_prev")
  \/ /\ Reads("push_prev", "prev", lists.prev[local[self].next], "link_prev")
     /\ local[self].next # NULL
  \/ /\ Writes("push_prev", Faulted(lists), "link_prev")
     /\ local[self].next = NULL
  \/ Writes("link_prev", Prev(Subject, local[self].prev), "link_next")
  \/ Writes("link_next", Next(Subject, local[self].next), "neighbor")
  \/ Writes("neighbor", Prev(local[self].next, Subject), "neighbor_prev")
  \/ Writes("neighbor_prev", Next(local[self].prev, Subject), "return")

AddToDelayed ==
  \/ Writes("add", Prev(Subject, lists.tail), "add_next")
  \/ Writes("add_next", Next(Subject, NULL),
            IF lists.tail = NULL THEN "add_tail" ELSE "add_link")
  \/ Writes("add_link", Next(lists.tail, Subject), "add_tail")
  \/ Writes("add_tail", [lists EXCEPT !.tail = Subject], "add_head")
  \/ Writes("add_head", [lists EXCEPT !.head = IF @ = NULL THEN Subject ELSE @], "set_state")

\* A NULL neighbour is skipped.
RemoveFromDelayed ==
  \/ Reads("drop", "prev", lists.prev[Subject], "drop_next")
  \/ Reads("drop_next", "next", lists.next[Subject], "drop_clear")
  \/ Writes("drop_clear", Prev(Subject, NULL), "drop_clear_next")
  \/ Writes("drop_clear_next", Next(Subject, NULL), "drop_link")
  \/ Writes("drop_link", IF local[self].prev = NULL THEN lists
                         ELSE Next(local[self].prev, local[self].next), "drop_back")
  \/ Writes("drop_back", IF local[self].next = NULL THEN lists
                         ELSE Prev(local[self].next, local[self].prev), "drop_head")
  \/ Writes("drop_head", [lists EXCEPT !.head = IF @ = Subject THEN local[self].next ELSE @], "drop_tail")
  \/ Writes("drop_tail", [lists EXCEPT !.tail = IF @ = Subject THEN local[self].prev ELSE @], "yield")

----------------------------------------------------------------------------
(* The calls.                                                              *)

\* osTime() masks interrupts, so the time is read in one piece.
osDelay(delayMs) ==
  /\ "delay" \in Calls
  /\ Begins("delay", self, delayMs, "store")
  /\ UNCHANGED <<vars, slept>>

WakeUpUnwrapped(time, delayMs) == time + delayMs * US_PER_MS  \* mutant
WakeUpOneEarly(time, delayMs) == (time + delayMs * US_PER_MS + TimeMod - 1) % TimeMod  \* mutant

WakeUpTime(time, delayMs) == (time + delayMs * US_PER_MS) % TimeMod

StoreNextExecTime ==
  /\ At("store")
  /\ nextExecTimeUs' = [nextExecTimeUs EXCEPT
       ![self] = WakeUpTime(local[self].time, local[self].delayMs)]
  /\ Goto("unlink")
  /\ UNCHANGED <<lists, state, staticPriority, kernel, pendsv, local, slept>>

StoreDelayed ==
  /\ At("set_state")
  /\ state' = [state EXCEPT ![self] = "DELAYED"]
  /\ Goto("yield")
  /\ UNCHANGED <<lists, staticPriority, nextExecTimeUs, kernel, pendsv, local, slept>>

osYield ==
  /\ At("yield")
  /\ pendsv' = TRUE
  /\ Goto("return")
  /\ UNCHANGED <<tasks, kernel, local, slept>>

Return ==
  /\ At("return")
  /\ local' = [local EXCEPT ![self] = NoCall]
  /\ slept' = [slept EXCEPT ![self] = 0]
  /\ Goto("run")
  /\ UNCHANGED vars

\* A task is initialised before it is started, and again before it is
\* restarted if it was killed inside a call.
osStartTask(u) ==
  /\ "start" \in Calls
  /\ Unlinked(u) /\ local[u].op = "none" /\ staticPriority[u] \in Priorities
  /\ Begins("start", u, 0, "push")
  /\ state' = [state EXCEPT ![u] = "READY"]
  /\ UNCHANGED <<lists, staticPriority, nextExecTimeUs, kernel, pendsv, slept>>

osKillTask(u) ==
  /\ "kill" \in Calls
  /\ Unlinked(u) => state[u] = "DELAYED"
  /\ Begins("kill", u, 0, IF state[u] = "READY" THEN "unlink" ELSE "drop")
  /\ UNCHANGED <<vars, slept>>

\* Rewrites the stack of an unlinked task, which begins anew.
osInitTask(u, p) ==
  /\ InMain \/ ("start" \in Calls /\ At("run"))
  /\ Unlinked(u)
  /\ staticPriority' = [staticPriority EXCEPT ![u] = p]
  /\ pc' = [pc EXCEPT ![u] = "run"]
  /\ local' = [local EXCEPT ![u] = NoCall]
  /\ slept' = [slept EXCEPT ![u] = 0]
  /\ UNCHANGED <<lists, state, nextExecTimeUs, kernel, pendsv, settled>>

\* Before osStart no tick arrives: osStartTask is one step.
BootTask(u) ==
  /\ InMain /\ Unlinked(u) /\ staticPriority[u] \in Priorities
  /\ lists' = _readyQueuePushTask(lists, staticPriority[u], u)
  /\ settled' = lists'
  /\ UNCHANGED <<state, staticPriority, nextExecTimeUs, kernel, pendsv, pc, local, slept>>

----------------------------------------------------------------------------
(* Interrupts and the specification.                                       *)

Tick ==
  /\ activeTask \in Task => <<local[self].op, pc[self]>> \in TickPoints
  /\ SysTick_Handler
  /\ slept' = [t \in Task |-> IF local[t].op = "delay" /\ slept[t] < Enough
                            THEN slept[t] + 1 ELSE slept[t]]
  /\ settled' = lists'
  /\ UNCHANGED <<pc, local>>

Switch ==
  /\ PendSV_Handler \/ WakeExpired \/ Dispatch \/ osStart
  /\ settled' = lists'
  /\ UNCHANGED <<pc, local, slept>>

PInit ==
  /\ osInit
  /\ pc = [t \in Task |-> "run"]
  /\ local = [t \in Task |-> NoCall]
  /\ settled = lists
  /\ slept = [t \in Task |-> 0]

\* The next statement of a call in progress.
Continue ==
  /\ \/ RemoveFromQueue \/ PushToQueue \/ AddToDelayed \/ RemoveFromDelayed
     \/ StoreNextExecTime \/ StoreDelayed \/ osYield \/ Return
  /\ Settle

PNext ==
  \/ Tick \/ Switch \/ Continue
  \/ \E u \in Task : osStartTask(u) \/ osKillTask(u) \/ BootTask(u)
  \/ \E u \in Task, p \in Priorities : osInitTask(u, p)
  \/ \E d \in Delays : osDelay(d)

PSpec == PInit /\ [][PNext]_pvars

\* A task that is dispatched again and again gets through its call: a tick is
\* many instructions long.
PFairSpec ==
  /\ PSpec
  /\ SF_pvars(Tick) /\ WF_pvars(Switch)
  /\ \A t \in Task : SF_pvars(activeTask = t /\ Continue)

----------------------------------------------------------------------------
(* Properties.                                                             *)

\* Outside any call, and inside one before it has looked at a list or after
\* it has changed the last word.
HarmlessTickPoints ==
  {<<"none", "run">>, <<"delay", "store">>, <<"delay", "unlink">>,
   <<"delay", "yield">>, <<"kill", "yield">>}

PTypeOK ==
  /\ TypeOK
  /\ local \in [Task -> [op : {"none", "delay", "start", "kill"}, task : Pointer,
                         next : Pointer, prev : Pointer, time : Time, delayMs : Delays \cup {0}]]
  /\ settled \in ListRecord
  /\ slept \in [Task -> 0 .. Enough]

Mode ==
  CASE cpu = "main" -> "main"
    [] cpu = "thread" /\ ~pendsv -> "running"
    [] OTHER -> "switching"

Abstract ==
  INSTANCE AbstractScheduler WITH
    ready <- [p \in Level |-> Ring(settled, p)], asleep <- Asleep(settled),
    priority <- staticPriority, running <- activeTask, mode <- Mode

\* With ticks at the points of TickPoints only, the calls behave as if they
\* were single steps (osDelay, osStartTask, osKillTask and what they inline).
ImplementsAtomicCalls == Abstract!Spec

\* Between calls every task is where its state and priority say: a call that
\* has ended has linked or unlinked its task completely.
AtRestInOnePlace == settled = lists => InOnePlace(lists, state, staticPriority)

\* osDelay never returns before the time it was given has passed, counted
\* from the moment it was called, even if it was preempted before it stored
\* the wake-up time.
NeverEarly ==
  [][At("return") /\ local[self].op = "delay" /\ pc'[self] = "run"
       => slept[self] > local[self].delayMs]_pvars

\* "Puts active task into delayed step for a specified time" (scheduler.h):
\* a call of osDelay ends, unless the program has no behaviour any more.
DelayEnds ==
  \A t \in Task : local[t].op = "delay" ~> local[t].op # "delay" \/ lists.fault
==============================================================================
