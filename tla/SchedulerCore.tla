---------------------------- MODULE SchedulerCore ----------------------------
(***************************************************************************)
(* The kernel of scheduler_v2 below its API: the data it keeps, the SysTick *)
(* interrupt that advances the time base, and the PendSV exception that     *)
(* runs schedule() and switches tasks.                                      *)
(*                                                                         *)
(* PendSV, SVCall and SysTick share the lowest exception priority, so none  *)
(* of them preempts another and each preempts thread code.  A request that  *)
(* is pending (pendsv) is therefore served before the thread executes again *)
(* and, its exception number being lower, before the next SysTick.          *)
(* PendSV_Handler is split into steps (entry, one step per delayed task,    *)
(* the choice of the queue) that nothing interleaves with: cpu is           *)
(* "schedule" from its entry to its return.                                 *)
(***************************************************************************)
EXTENDS TaskLists

CONSTANTS
  taskBaseDynPriority,   \* how fast a waiting level gains priority
  TASK_DYN_PRIO_LIMIT,   \* the most a level below REALTIME can gain
  US_PER_SYS_TICK,       \* how far a tick advances the time base
  US_PER_MS,             \* the literal 1000 of osDelay
  TimeMod                \* the time base counts modulo this (2^64 in the code)

ASSUME DynPriorityAssumption ==
  /\ TASK_DYN_PRIO_LIMIT \in Nat
  /\ taskBaseDynPriority \in [Level -> Nat]
  /\ taskBaseDynPriority[IDLE] = 0
  /\ \A p \in Level \ {IDLE, REALTIME} :
       taskBaseDynPriority[p] \in 1 .. TASK_DYN_PRIO_LIMIT
  /\ taskBaseDynPriority[REALTIME] > TASK_DYN_PRIO_LIMIT

ASSUME TimeAssumption ==
  /\ US_PER_SYS_TICK \in Nat /\ US_PER_MS \in Nat
  /\ TimeMod \in Nat \ {0} /\ TimeMod % 2 = 0

VARIABLES
  lists,            \* every link, iterator, head and tail (TaskLists)
  state,            \* task->state
  staticPriority,   \* task->staticPriority
  nextExecTimeUs,   \* task->nextExecTimeUs
  dynamicPriority,  \* readyQueue[p].dynamicPriority
  activeTask,
  timestamp,        \* _timestamp of timebase.c
  cpu,              \* "main" before osStart, then "thread" or "schedule"
  cursor,           \* the loop variable of schedule()'s walk
  pendsv            \* the PENDSVSET bit

tasks == <<lists, state, staticPriority, nextExecTimeUs>>
kernel == <<dynamicPriority, activeTask, timestamp, cpu, cursor>>
vars == <<lists, state, staticPriority, nextExecTimeUs, dynamicPriority,
          activeTask, timestamp, cpu, cursor, pendsv>>

Time == 0 .. TimeMod - 1
UInt8 == 0 .. 255

TypeOK ==
  /\ lists \in ListRecord
  /\ state \in [TCB -> {"READY", "DELAYED"}]
  /\ staticPriority \in [TCB -> UInt8]
  /\ nextExecTimeUs \in [TCB -> Time]
  /\ dynamicPriority \in [Level -> Nat]
  /\ activeTask \in Pointer
  /\ timestamp \in Time
  /\ cpu \in {"main", "thread", "schedule"}
  /\ cursor \in Pointer
  /\ pendsv \in BOOLEAN

\* In no queue and in no list: never started, or killed.
Unlinked(t) ==
  /\ lists.next[t] = NULL /\ lists.prev[t] = NULL
  /\ t \notin {lists.head, lists.tail}

Linked(t) == ~Unlinked(t)

----------------------------------------------------------------------------
(* The time base.                                                          *)

AfterUnsigned(a, b) == a > b  \* mutant: wrong once the time base has wrapped

\* The sign bit of the 64-bit difference b - a.
TIME_A_AFTER_B(a, b) == (b + TimeMod - a) % TimeMod >= TimeMod \div 2

TickUnwrapped(now) == now + US_PER_SYS_TICK  \* mutant

AfterTick(now) == (now + US_PER_SYS_TICK) % TimeMod

SysTick_Handler ==
  /\ cpu = "thread" /\ ~pendsv /\ ~lists.fault
  /\ timestamp' = AfterTick(timestamp)
  /\ pendsv' = TRUE
  /\ UNCHANGED <<tasks, dynamicPriority, activeTask, cpu, cursor>>

----------------------------------------------------------------------------
(* PendSV_Handler, switchContext and schedule.                             *)

PendSV_Handler ==
  /\ cpu = "thread" /\ pendsv /\ ~lists.fault
  /\ pendsv' = FALSE
  /\ cpu' = "schedule"
  /\ cursor' = lists.head
  /\ UNCHANGED <<tasks, dynamicPriority, activeTask, timestamp>>

Expired(t) == TIME_A_AFTER_B(timestamp, nextExecTimeUs[t])

\* The task is moved to the queue of its priority.
Wake(t) ==
  /\ lists' = _readyQueuePushTask(_listRemoveTask(lists, t), staticPriority[t], t)
  /\ state' = [state EXCEPT ![t] = "READY"]

\* Mutant: the loop goes on from the task it has just unlinked.
WakeThenReadNext ==
  /\ cpu = "schedule" /\ cursor # NULL /\ ~lists.fault
  /\ \/ Expired(cursor) /\ Wake(cursor) /\ cursor' = NULL
     \/ ~Expired(cursor) /\ cursor' = lists.next[cursor] /\ UNCHANGED <<lists, state>>
  /\ UNCHANGED <<staticPriority, nextExecTimeUs, dynamicPriority, activeTask,
                 timestamp, cpu, pendsv>>

\* One turn of the loop over the delayed list; next was read first.
WakeExpired ==
  /\ cpu = "schedule" /\ cursor # NULL /\ ~lists.fault
  /\ cursor' = lists.next[cursor]
  /\ \/ Expired(cursor) /\ Wake(cursor)
     \/ ~Expired(cursor) /\ UNCHANGED <<lists, state>>
  /\ UNCHANGED <<staticPriority, nextExecTimeUs, dynamicPriority, activeTask,
                 timestamp, cpu, pendsv>>

NonEmpty == {p \in Level : lists.iter[p] # NULL}

\* The highest dynamic priority, and of those the highest static one.
IsActiveQueue(p) ==
  /\ p \in NonEmpty
  /\ \A q \in NonEmpty :
       \/ dynamicPriority[q] < dynamicPriority[p]
       \/ dynamicPriority[q] = dynamicPriority[p] /\ q <= p

Unsaturated(n) == n  \* mutant

Saturated(n) == IF n > TASK_DYN_PRIO_LIMIT THEN TASK_DYN_PRIO_LIMIT ELSE n

\* Mutants: every level that waits gains the same; a level that runs keeps
\* what it has gained; a level that waits gains nothing.
AgeAlike(active) ==
  dynamicPriority' =
    [p \in Level |-> IF p # active /\ p \in NonEmpty THEN Saturated(dynamicPriority[p] + 1)
                                                   ELSE taskBaseDynPriority[p]]
AgeWithoutReset(active) ==
  dynamicPriority' =
    [p \in Level |-> IF p \in NonEmpty /\ p # active
                     THEN Saturated(dynamicPriority[p] + taskBaseDynPriority[p])
                     ELSE dynamicPriority[p]]
AgeNever(active) == dynamicPriority' = taskBaseDynPriority

\* A level that waits gains priority; the one that runs, and an empty one,
\* start again from the base.
UpdateDynamicPriority(active) ==
  dynamicPriority' =
    [p \in Level |->
       IF p # active /\ p \in NonEmpty
       THEN Saturated(dynamicPriority[p] + taskBaseDynPriority[p])
       ELSE taskBaseDynPriority[p]]

\* The walk is over: pick a task, move its queue on, return to thread mode.
\* With every queue empty schedule() returns NULL, and PendSV_Handler loads
\* the stack pointer of no task.
Dispatch ==
  /\ cpu = "schedule" /\ cursor = NULL /\ ~lists.fault
  /\ IF NonEmpty = {}
     THEN /\ activeTask' = NULL
          /\ lists' = Faulted(lists)
          /\ UNCHANGED dynamicPriority
     ELSE \E p \in NonEmpty :
            /\ IsActiveQueue(p)
            /\ UpdateDynamicPriority(p)
            /\ activeTask' = lists.iter[p]
            /\ lists' = _readyQueueIterateForwards(lists, p)
  /\ cpu' = "thread"
  /\ UNCHANGED <<state, staticPriority, nextExecTimeUs, timestamp, cursor, pendsv>>

Exceptions == SysTick_Handler \/ PendSV_Handler \/ WakeExpired \/ Dispatch

\* The timer keeps ticking whatever the threads do, and a pending exception
\* is taken: a request outlives the moments in which it cannot be served.
ExceptionFairness ==
  /\ SF_vars(SysTick_Handler)
  /\ WF_vars(PendSV_Handler) /\ WF_vars(WakeExpired) /\ WF_vars(Dispatch)

----------------------------------------------------------------------------
(* Where the program starts.                                               *)

\* The state osInit leaves: the idle task in its queue, every other control
\* block zeroed (state READY is 0, and so is priority IDLE).
osInit ==
  /\ lists = _readyQueuePushTask(NoLinks, IDLE, IdleTask)
  /\ state = [t \in TCB |-> "READY"]
  /\ staticPriority = [t \in TCB |-> IDLE]
  /\ nextExecTimeUs = [t \in TCB |-> 0]
  /\ dynamicPriority = taskBaseDynPriority
  /\ activeTask = IdleTask
  /\ timestamp = 0
  /\ cpu = "main"
  /\ cursor = NULL
  /\ pendsv = FALSE

\* Loads the context of activeTask as it is, without running schedule().
SVC_Handler == cpu' = "thread"

osStart ==
  /\ cpu = "main"
  /\ SVC_Handler
  /\ UNCHANGED <<tasks, dynamicPriority, activeTask, timestamp, cursor, pendsv>>
==============================================================================
