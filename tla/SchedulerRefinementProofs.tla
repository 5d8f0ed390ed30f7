----------------------- MODULE SchedulerRefinementProofs -----------------------
(***************************************************************************)
(* Scheduler implements AbstractScheduler for every number of tasks: each   *)
(* step of the detailed specification is one step of the abstract one, or   *)
(* none, under the refinement mapping of SchedulerRefinement.               *)
(***************************************************************************)
EXTENDS SchedulerRefinement, SchedulerProofs

----------------------------------------------------------------------------
(* The invariant the simulation needs.                                      *)

\* PendSV is requested by threads and by the tick, and is clear in schedule().
RequestedByThreads == pendsv => cpu = "thread"

RInv == Safe /\ PriorityInv /\ RequestedByThreads

LEMMA RInvInit == Init => RInv
BY SafeInit, PriorityInit DEF RInv, RequestedByThreads, Init, osInit

LEMMA RInvStep ==
  ASSUME "killUnlinked" \notin Calls, Priorities \subseteq Level
  PROVE  RInv /\ [Next]_vars => RInv'
<1> SUFFICES ASSUME RInv, [Next]_vars PROVE RInv' OBVIOUS
<1>1. Safe' /\ PriorityInv' BY SafeStep, PriorityStep DEF RInv
<1>2. RequestedByThreads'
  BY DEF RInv, RequestedByThreads, Next, ThreadStep, Exceptions, osStart, SysTick_Handler,
         PendSV_Handler, WakeExpired, Dispatch, osInitTask, osStartTask, osKillTask, osDelay,
         osYield, taskExitHandler, InTask, InThread, SVC_Handler, kernel, tasks, vars
<1> QED BY <1>1, <1>2 DEF RInv

----------------------------------------------------------------------------
(* One step of Scheduler is one step of AbstractScheduler, or none.         *)

\* A task is outside exactly when its control block says so.
LEMMA UnlinkedIsOutside ==
  ASSUME Inv, NEW t \in TCB
  PROVE  Unlinked(t) <=> Abstract!Outside(t)
BY UnlinkedIsUnseen DEF Abstract!Outside, Abstract!Queued

\* Resumed is what the abstract specification calls ResumeAfter.
LEMMA ResumedAfter == \A s, i : Resumed(s, i) = Abstract!ResumeAfter(s, i)
BY DEF Resumed, Abstract!ResumeAfter

LEMMA BootSimulated ==
  ASSUME RInv, osStart
  PROVE  Abstract!Boot
<1>1. /\ cpu = "main" /\ ~pendsv /\ cpu' = "thread" /\ ~pendsv'
      /\ UNCHANGED <<lists, staticPriority, activeTask>>
  BY DEF RInv, RequestedByThreads, osStart, SVC_Handler, tasks
<1>2. Mode = "main" /\ Mode' = "running" BY <1>1 DEF Mode
<1> QED BY <1>1, <1>2 DEF Abstract!Boot

\* A tick, a task that yields, and the killing of a task that is in no list.
LEMMA PreemptSimulated ==
  ASSUME cpu = "thread", ~pendsv, cpu' = "thread", pendsv',
         UNCHANGED <<lists, staticPriority, activeTask>>
  PROVE  Abstract!Preempt
<1>1. Mode = "running" /\ Mode' = "switching" BY DEF Mode
<1> QED BY <1>1 DEF Abstract!Preempt

LEMMA SwitchStutters ==
  ASSUME PendSV_Handler
  PROVE  UNCHANGED Abstract!avars
<1>1. Mode = "switching" /\ Mode' = "switching" BY DEF Mode, PendSV_Handler
<1> QED BY <1>1 DEF PendSV_Handler, tasks, Abstract!avars

LEMMA PrioritySimulated ==
  ASSUME RInv, NEW t \in Task, NEW p \in Priorities, osInitTask(t, p)
  PROVE  Abstract!SetPriority(t, p)
<1>1. /\ Unlinked(t) /\ staticPriority' = [staticPriority EXCEPT ![t] = p]
      /\ UNCHANGED <<lists, activeTask, cpu, pendsv>>
  BY DEF osInitTask, kernel
<1>2. Mode # "switching" /\ Mode' = Mode
  BY <1>1 DEF Mode, osInitTask, InThread
<1>3. Abstract!Outside(t) BY <1>1, UnlinkedIsOutside DEF RInv, Safe, TCB
<1> QED BY <1>1, <1>2, <1>3 DEF Abstract!SetPriority

LEMMA StartSimulated ==
  ASSUME RInv, NEW t \in Task, osStartTask(t)
  PROVE  Abstract!Start(t)
<1>1. PICK Q \in Queues, S \in SUBSET TCB : Consistent(Q, S)
  BY DEF RInv, Safe, Inv, InPlace
<1>2. PICK p \in Level : p = staticPriority[t] BY DEF RInv, Safe, TCB
<1>3. t \in TCB /\ WellFormed(lists, Q, S) BY <1>1 DEF Consistent, TCB
<1>4. /\ Unlinked(t) /\ lists' = _readyQueuePushTask(lists, p, t)
      /\ UNCHANGED <<staticPriority, activeTask, cpu, pendsv>>
  BY <1>2 DEF osStartTask, kernel
<1>5. Nowhere(t, Q, S) BY <1>1, <1>3, <1>4, UnlinkedIsNowhere
<1>6. /\ Rings(lists') = [Rings(lists) EXCEPT ![p] = Append(@, t)]
      /\ Asleep(lists') = Asleep(lists)
  BY <1>3, <1>4, <1>5, PushSeen
<1>7. Mode # "switching" /\ Mode' = Mode BY <1>4 DEF Mode, osStartTask, InThread
<1>8. Abstract!Outside(t) BY <1>3, <1>4, UnlinkedIsOutside DEF RInv, Safe
<1> QED BY <1>2, <1>4, <1>6, <1>7, <1>8 DEF Abstract!Start, Rings

\* A killed task leaves its queue, or the sleepers; or it was in neither.
LEMMA EndSimulated ==
  ASSUME RInv, NEW t \in Task,
         \/ osKillTask(t) /\ "killUnlinked" \notin Calls
         \/ taskExitHandler /\ t = activeTask
  PROVE  Abstract!EndQueued(t) \/ Abstract!EndAsleep(t) \/ Abstract!Preempt
<1>1. PICK Q \in Queues, S \in SUBSET TCB : Consistent(Q, S)
  BY DEF RInv, Safe, Inv, InPlace
<1>2. t \in TCB /\ WellFormed(lists, Q, S) BY <1>1 DEF Consistent, TCB
<1>3. /\ cpu = "thread" /\ ~pendsv /\ cpu' = "thread" /\ pendsv'
      /\ lists' = Removed(t)
      /\ UNCHANGED <<staticPriority, activeTask>>
  BY DEF osKillTask, taskExitHandler, InTask, InThread, kernel
<1>4. Mode = "running" /\ Mode' = "switching" BY <1>3 DEF Mode
<1>5. ASSUME NEW p \in Level, t \in Q[p] PROVE Abstract!EndQueued(t)
  <2>1. p = staticPriority[t] /\ lists' = _readyQueueRemoveTask(lists, p, t)
    BY <1>1, <1>3, <1>5 DEF Removed, Consistent
  <2>2. /\ Asleep(lists') = Asleep(lists)
        /\ \E i \in DOMAIN Ring(lists, p) :
             /\ Ring(lists, p)[i] = t
             /\ Rings(lists') = [Rings(lists) EXCEPT ![p] = Abstract!ResumeAfter(@, i)]
    BY <1>2, <1>5, <2>1, RemoveSeen, ResumedAfter
  <2> QED BY <1>3, <1>4, <2>1, <2>2 DEF Abstract!EndQueued, Rings
<1>6. ASSUME t \in S PROVE Abstract!EndAsleep(t)
  <2>1. lists' = _listRemoveTask(lists, t) BY <1>1, <1>3, <1>6 DEF Removed, Consistent
  <2>2. /\ Rings(lists') = Rings(lists)
        /\ t \in Asleep(lists) /\ Asleep(lists') = Asleep(lists) \ {t}
    BY <1>2, <1>6, <2>1, DropSeen
  <2> QED BY <1>3, <1>4, <2>2 DEF Abstract!EndAsleep, Rings
<1>7. ASSUME Nowhere(t, Q, S) PROVE Abstract!Preempt
  <2>1. Unlinked(t) BY <1>1, <1>2, <1>7, UnlinkedIsNowhere
  <2>2. state[t] # "READY"
    <3>1. CASE osKillTask(t) /\ "killUnlinked" \notin Calls
      BY <2>1, <3>1 DEF osKillTask
    <3>2. CASE taskExitHandler /\ t = activeTask
      BY <1>1, <1>3, <1>7, <3>2 DEF Consistent, Nowhere
    <3> QED BY <3>1, <3>2
  <2>3. lists' = lists
    BY <1>2, <1>3, <2>1, <2>2, RemoveUnlinked DEF Removed, Unlinked, WellFormed
  <2> QED BY <1>3, <2>3, PreemptSimulated
<1> QED BY <1>2, <1>5, <1>6, <1>7 DEF Nowhere

LEMMA SleepSimulated ==
  ASSUME RInv, NEW d \in Delays, osDelay(d)
  PROVE  Abstract!Sleep
<1>1. PICK Q \in Queues, S \in SUBSET TCB : Consistent(Q, S)
  BY DEF RInv, Safe, Inv, InPlace
<1>2. PICK t \in Task : t = activeTask BY DEF osDelay, InTask, InThread
<1>3. /\ cpu = "thread" /\ ~pendsv /\ cpu' = "thread" /\ pendsv'
      /\ UNCHANGED <<staticPriority, activeTask>>
  BY DEF osDelay, InTask, InThread, kernel
<1>4. Mode = "running" /\ Mode' = "switching" BY <1>3 DEF Mode
<1>5. PICK p \in Level : t \in Q[p] /\ staticPriority[t] = p
  BY <1>1, <1>2, <1>3 DEF Consistent
<1>6. lists' = _listAddTask(_readyQueueRemoveTask(lists, p, t), t) BY <1>2, <1>5 DEF osDelay
<1>7. WellFormed(lists, Q, S) BY <1>1 DEF Consistent
<1>8. /\ Asleep(lists') = Asleep(lists) \cup {t}
      /\ \E i \in DOMAIN Ring(lists, p) :
           /\ Ring(lists, p)[i] = t
           /\ Rings(lists') = [Rings(lists) EXCEPT ![p] = Abstract!ResumeAfter(@, i)]
  BY <1>5, <1>6, <1>7, SleepSeen, ResumedAfter
<1> QED BY <1>2, <1>3, <1>4, <1>5, <1>8 DEF Abstract!Sleep, Rings

\* One turn of the walk wakes its task, or passes over it.
LEMMA WakeSimulated ==
  ASSUME RInv, WakeExpired
  PROVE  (\E t \in Task : Abstract!Wake(t)) \/ UNCHANGED Abstract!avars
<1>1. Mode = "switching" /\ Mode' = "switching" /\ UNCHANGED <<staticPriority, activeTask>>
  BY DEF WakeExpired, Mode
<1>2. CASE UNCHANGED <<lists, state>> BY <1>1, <1>2 DEF Abstract!avars
<1>3. ASSUME NEW t \in Task,
             t \in Asleep(lists), Asleep(lists') = Asleep(lists) \ {t},
             Rings(lists') = [Rings(lists) EXCEPT ![staticPriority[t]] = Append(@, t)]
      PROVE  Abstract!Wake(t)
  BY <1>1, <1>3 DEF Abstract!Wake, Rings
<1> QED BY <1>2, <1>3, WakeSeen DEF RInv, Safe

\* The level schedule() picks is one whose turn the abstract specification
\* allows it to be.
LEMMA RunSimulated ==
  ASSUME RInv, Dispatch
  PROVE  \E p \in Level : Abstract!Run(p)
<1>1. PICK p \in Level :
        /\ Ring(lists, p) # <<>>
        /\ Ring(lists, REALTIME) # <<>> => p = REALTIME
        /\ p = IDLE => \A q \in Level \ {IDLE} : Ring(lists, q) = <<>>
        /\ activeTask' = Head(Ring(lists, p))
        /\ Rings(lists') = [Rings(lists) EXCEPT ![p] = Append(Tail(@), Head(@))]
        /\ Asleep(lists') = Asleep(lists)
  BY DispatchSeen DEF RInv, Safe
<1>2. /\ cpu = "schedule" /\ cpu' = "thread" /\ ~pendsv'
      /\ UNCHANGED staticPriority
  BY DEF Dispatch, RInv, RequestedByThreads
<1>3. Mode = "switching" /\ Mode' = "running" BY <1>2 DEF Mode
<1>4. Abstract!Run(p) BY <1>1, <1>2, <1>3, Levels DEF Abstract!Run, Rings
<1> QED BY <1>4

LEMMA InitSimulated == Init => Abstract!Init
<1> SUFFICES ASSUME Init PROVE Abstract!Init OBVIOUS
<1>1. Mode = "main" BY DEF Mode, Init, osInit
<1> QED BY <1>1, BootSeen DEF Abstract!Init, Init, osInit, Abstract!TCB, TCB

LEMMA NextSimulated ==
  ASSUME "killUnlinked" \notin Calls, Priorities \subseteq Level, RInv, [Next]_vars
  PROVE  [Abstract!Next]_(Abstract!avars)
<1>1. CASE osStart BY <1>1, BootSimulated DEF Abstract!Next
<1>2. CASE Exceptions
  <2>1. CASE SysTick_Handler
    <3>1. Abstract!Preempt
      BY <2>1, PreemptSimulated DEF SysTick_Handler, tasks
    <3> QED BY <3>1 DEF Abstract!Next
  <2>2. CASE PendSV_Handler BY <2>2, SwitchStutters
  <2>3. CASE WakeExpired BY <2>3, WakeSimulated DEF Abstract!Next
  <2>4. CASE Dispatch BY <2>4, RunSimulated DEF Abstract!Next
  <2> QED BY <1>2, <2>1, <2>2, <2>3, <2>4 DEF Exceptions
<1>3. CASE ThreadStep
  <2>1. ASSUME NEW t \in Task, NEW p \in Priorities, osInitTask(t, p) PROVE Abstract!Next
    <3>1. Abstract!SetPriority(t, p) BY <2>1, PrioritySimulated
    <3> QED BY <3>1 DEF Abstract!Next
  <2>2. ASSUME NEW t \in Task, osStartTask(t) PROVE Abstract!Next
    BY <2>2, StartSimulated DEF Abstract!Next
  <2>3. ASSUME NEW t \in Task, osKillTask(t) PROVE Abstract!Next
    <3>1. Abstract!EndQueued(t) \/ Abstract!EndAsleep(t) \/ Abstract!Preempt
      BY <2>3, EndSimulated
    <3> QED BY <3>1 DEF Abstract!Next
  <2>4. ASSUME NEW d \in Delays, osDelay(d) PROVE Abstract!Next
    BY <2>4, SleepSimulated DEF Abstract!Next
  <2>5. ASSUME osYield PROVE Abstract!Next
    <3>1. Abstract!Preempt
      BY <2>5, PreemptSimulated DEF osYield, InTask, InThread, tasks, kernel
    <3> QED BY <3>1 DEF Abstract!Next
  <2>6. ASSUME taskExitHandler PROVE Abstract!Next
    <3>1. PICK t \in Task : t = activeTask BY <2>6 DEF taskExitHandler, InTask, InThread
    <3>2. Abstract!EndQueued(t) \/ Abstract!EndAsleep(t) \/ Abstract!Preempt
      BY <2>6, <3>1, EndSimulated
    <3> QED BY <3>2 DEF Abstract!Next
  <2> QED BY <1>3, <2>1, <2>2, <2>3, <2>4, <2>5, <2>6 DEF ThreadStep
<1>4. CASE UNCHANGED vars
  BY <1>4 DEF vars, Abstract!avars, Mode
<1> QED BY <1>1, <1>2, <1>3, <1>4 DEF Next

\* Where every priority has a queue and only linked or sleeping tasks are
\* killed, everything scheduler.c does with its links, its clock and its dynamic
\* priorities is a behaviour of the queues of AbstractScheduler: no call, tick or
\* switch loses a task, repeats it, or changes whose turn is next in its level.
THEOREM Refinement ==
  ASSUME "killUnlinked" \notin Calls, Priorities \subseteq Level
  PROVE  Spec => Implements
<1>1. RInv /\ [Next]_vars => [Abstract!Next]_(Abstract!avars) BY NextSimulated
<1>2. Init => Abstract!Init BY InitSimulated
<1> QED BY <1>1, <1>2, RInvInit, RInvStep, PTL DEF Spec, Implements, Abstract!Spec

\* No call, tick or switch leaves a task in two lists, in none, in the queue of
\* another level, or where its iterator does not lead, whatever the tasks call.
THEOREM OnePlace == Spec => []EveryTaskInOnePlace
BY Invariance, InvOnePlace, PTL DEF EveryTaskInOnePlace
==============================================================================
