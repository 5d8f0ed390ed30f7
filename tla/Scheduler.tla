------------------------------ MODULE Scheduler ------------------------------
(***************************************************************************)
(* The API of scheduler_v2, called by main before osStart and by the tasks  *)
(* afterwards.  Each call is one step: these are the behaviours in which    *)
(* no tick arrives while a call is changing the lists.  PreemptedCalls is   *)
(* the same API one statement at a time.                                    *)
(*                                                                         *)
(* A step in which a task only computes changes nothing here, so a task     *)
(* that never calls the kernel is a task that takes no step.                *)
(***************************************************************************)
EXTENDS SchedulerCore

CONSTANTS
  Calls,       \* the calls this application makes
  Priorities,  \* the priorities it gives its tasks
  Delays       \* the arguments of osDelay, in milliseconds

ASSUME WorkloadAssumption ==
  /\ Calls \subseteq {"init", "start", "kill", "killUnlinked", "delay", "yield", "return"}
  /\ Priorities \subseteq UInt8
  /\ Delays \subseteq Nat

\* The thread that executes: main, or a task of the application. The idle
\* task is an empty loop and calls nothing.
InThread ==
  /\ ~lists.fault
  /\ \/ cpu = "main"
     \/ cpu = "thread" /\ ~pendsv /\ activeTask \in Task

InTask == InThread /\ cpu = "thread"

----------------------------------------------------------------------------
(* What the calls do to the lists.                                         *)

\* The queue or list is chosen by task->state, whatever the task is in.
Removed(t) ==
  IF state[t] = "READY"
  THEN _readyQueueRemoveTask(lists, staticPriority[t], t)
  ELSE _listRemoveTask(lists, t)

----------------------------------------------------------------------------

\* Reusing a control block that is still linked is not a use the API allows.
osInitTask(t, p) ==
  /\ "init" \in Calls
  /\ InThread /\ Unlinked(t)
  /\ staticPriority' = [staticPriority EXCEPT ![t] = p]
  /\ UNCHANGED <<lists, state, nextExecTimeUs, kernel, pendsv>>

\* A task whose priority is above TASK_PRIORITY_LVL_NUM is refused; the one
\* that is equal to it is not, and readyQueue has no such element.
osStartTask(t) ==
  /\ "start" \in Calls
  /\ InThread /\ Unlinked(t)
  /\ staticPriority[t] <= TASK_PRIORITY_LVL_NUM
  /\ state' = [state EXCEPT ![t] = "READY"]
  /\ lists' = _readyQueuePushTask(lists, staticPriority[t], t)
  /\ UNCHANGED <<staticPriority, nextExecTimeUs, kernel, pendsv>>

\* Sets PENDSV; with time slicing compiled in it does not move the queue.
osYield ==
  /\ "yield" \in Calls
  /\ InTask
  /\ pendsv' = TRUE
  /\ UNCHANGED <<tasks, kernel>>

\* A task kills itself or another one. The state of the task is not changed.
\* A task whose state is READY is taken to be linked; one whose state is
\* DELAYED need not be.
osKillTask(t) ==
  /\ "kill" \in Calls
  /\ InTask
  /\ Unlinked(t) /\ state[t] = "READY" => "killUnlinked" \in Calls
  /\ lists' = Removed(t)
  /\ pendsv' = TRUE
  /\ UNCHANGED <<state, staticPriority, nextExecTimeUs, kernel>>

\* A task function returns into this handler, which kills the active task.
taskExitHandler ==
  /\ "return" \in Calls
  /\ InTask
  /\ lists' = Removed(activeTask)
  /\ pendsv' = TRUE
  /\ UNCHANGED <<state, staticPriority, nextExecTimeUs, kernel>>

\* Mutant: the task goes on running until the next tick.
DelayWithoutYield(delayMs) ==
  /\ "delay" \in Calls
  /\ InTask
  /\ nextExecTimeUs' =
       [nextExecTimeUs EXCEPT ![activeTask] = (timestamp + delayMs * US_PER_MS) % TimeMod]
  /\ lists' = _listAddTask(
                _readyQueueRemoveTask(lists, staticPriority[activeTask], activeTask),
                activeTask)
  /\ state' = [state EXCEPT ![activeTask] = "DELAYED"]
  /\ UNCHANGED <<staticPriority, kernel, pendsv>>

osDelay(delayMs) ==
  /\ "delay" \in Calls
  /\ InTask
  /\ nextExecTimeUs' =
       [nextExecTimeUs EXCEPT ![activeTask] = (timestamp + delayMs * US_PER_MS) % TimeMod]
  /\ lists' = _listAddTask(
                _readyQueueRemoveTask(lists, staticPriority[activeTask], activeTask),
                activeTask)
  /\ state' = [state EXCEPT ![activeTask] = "DELAYED"]
  /\ pendsv' = TRUE
  /\ UNCHANGED <<staticPriority, kernel>>

----------------------------------------------------------------------------

Init == osInit

ThreadStep ==
  \/ \E t \in Task, p \in Priorities : osInitTask(t, p)
  \/ \E t \in Task : osStartTask(t)
  \/ \E t \in Task : osKillTask(t)
  \/ \E d \in Delays : osDelay(d)
  \/ osYield
  \/ taskExitHandler

Next == osStart \/ Exceptions \/ ThreadStep

Spec == Init /\ [][Next]_vars

FairSpec == Spec /\ WF_vars(osStart) /\ ExceptionFairness

----------------------------------------------------------------------------
(* Safety.                                                                 *)

\* A ready queue is a ring: prev undoes next, and nothing leads out of it.
\* Violated, removing or visiting a task would break an unrelated queue
\* (_readyQueuePushTask, _readyQueueRemoveTask).
RingsClosed ==
  \A t \in TCB : Linked(t) /\ state[t] = "READY" =>
    LET nx == lists.next[t]
        pv == lists.prev[t]
    IN /\ nx \in TCB /\ pv \in TCB
       /\ lists.prev[nx] = t /\ lists.next[pv] = t
       /\ state[nx] = "READY" /\ staticPriority[nx] = staticPriority[t]

\* The delayed list runs from head to tail, and holds delayed tasks only
\* (_listAddTask, _listRemoveTask).
DelayedListClosed ==
  /\ lists.head = NULL <=> lists.tail = NULL
  /\ \A t \in TCB : t = lists.head => state[t] = "DELAYED" /\ lists.prev[t] = NULL
  /\ \A t \in TCB : t = lists.tail => state[t] = "DELAYED" /\ lists.next[t] = NULL
  /\ \A t \in TCB : Linked(t) /\ state[t] = "DELAYED" =>
       LET nx == lists.next[t]
           pv == lists.prev[t]
       IN /\ IF nx = NULL THEN t = lists.tail
             ELSE state[nx] = "DELAYED" /\ lists.prev[nx] = t
          /\ IF pv = NULL THEN t = lists.head
             ELSE state[pv] = "DELAYED" /\ lists.next[pv] = t

\* The iterator of a level points into that level's own ring, and is NULL
\* exactly when the level has no ready task: a ready task is never out of
\* schedule()'s sight, and schedule() is never handed a task that left.
IteratorsValid ==
  \A p \in Level :
    LET ready == {t \in TCB : Linked(t) /\ state[t] = "READY" /\ staticPriority[t] = p}
    IN IF ready = {} THEN lists.iter[p] = NULL ELSE lists.iter[p] \in ready

\* The links hold together whatever the tasks called, in whatever order.
LinksOK == RingsClosed /\ DelayedListClosed /\ IteratorsValid

\* The thread that executes is in its ready queue, so a call it makes may
\* unlink it there (osDelay, taskExitHandler do so without looking).
RunningIsReady ==
  cpu = "thread" /\ ~pendsv =>
    /\ activeTask \in TCB
    /\ Linked(activeTask) /\ state[activeTask] = "READY"

\* "activeTask will never be null as there will allways be at least OS Idle
\* task" (switchContext): no step leaves the kernel without a task to run,
\* and no helper follows a NULL pointer.
NeverFaults == ~lists.fault /\ activeTask # NULL

\* The wake-up time of a sleeping task lies in the past.
Overdue(t) ==
  /\ Linked(t) /\ state[t] = "DELAYED"
  /\ (timestamp + TimeMod - nextExecTimeUs[t]) % TimeMod \in 1 .. TimeMod \div 2

\* The walk over the delayed list misses nobody, though it unlinks tasks as
\* it goes: when schedule() turns to the queues, no delay has expired.
NoneOverdueAtDispatch ==
  cpu = "schedule" /\ cursor = NULL => \A t \in TCB : ~Overdue(t)

\* A task sleeps past its wake-up time only while the tick that made it due
\* is still being served: PENDSV set, or schedule() on its way to the task.
\* The time base wrapping around in between makes no difference.
OverdueOnlyWhileScheduling ==
  \A t \in TCB : Overdue(t) => pendsv \/ cpu = "schedule"

----------------------------------------------------------------------------
(* Which task runs.                                                        *)

Leaves == cpu = "schedule" /\ cpu' = "thread"

\* "Realtime tasks take absolute priority" and IDLE "only runs if no other
\* tasks are ready" (scheduler.h), whatever the waiting levels have gained.
StrictAtBothEnds ==
  [][Leaves => /\ REALTIME \in NonEmpty => staticPriority[activeTask'] = REALTIME
               /\ NonEmpty # {IDLE} => staticPriority[activeTask'] # IDLE]_vars

\* Dynamic priorities stay between the base of their level and the limit, so
\* that the sum taken in schedule() fits its uint16_t and the result its
\* uint8_t, and only REALTIME is above the limit.
DynamicPriorityBounded ==
  \A p \in Level :
    dynamicPriority[p] \in
      IF p = REALTIME THEN {taskBaseDynPriority[p]}
      ELSE taskBaseDynPriority[p] .. TASK_DYN_PRIO_LIMIT

\* How often the scheduler has passed over level p since p last ran or became
\* ready, while the limit is not reached.
PassedOver(p) == (dynamicPriority[p] - taskBaseDynPriority[p]) \div taskBaseDynPriority[p]

\* Aging keeps what it is there for: in a system without REALTIME tasks, and
\* with the code's base priorities, a level that waits is chosen before it is
\* passed over a sixth time. So it stays far below the limit, where the levels
\* would become indistinguishable and the lower ones starve (schedule).
AgingBounded ==
  REALTIME \notin Priorities =>
    \A p \in Level \ {IDLE, REALTIME} : PassedOver(p) <= 5

\* No task is forgotten: a task above IDLE that is in the system has its turn
\* again and again, however the others spin, yield, sleep or start tasks.
NoStarvation ==
  \A t \in Task :
    []<>(activeTask = t) \/ <>[](Unlinked(t) \/ staticPriority[t] = IDLE)
==============================================================================
