------------------------- MODULE SchedulerCoreProofs -------------------------
(* Lemmas about the exceptions of SchedulerCore, for every set of tasks and  *)
(* every time base: what SysTick, PendSV and schedule() do to tasks that are *)
(* in place, and which level they pick.  The threads' calls are left to the  *)
(* modules about Scheduler and PreemptedCalls.                              *)
EXTENDS SchedulerCore, TaskListsProofs

----------------------------------------------------------------------------
(* Types.                                                                  *)

\* The remainder of a time is a time.
LEMMA TimeWraps == \A n \in Nat : n % TimeMod \in Time
BY TimeAssumption DEF Time

\* The remainder of a number that is less than twice the modulus.
LEMMA RemainderOnce ==
  \A m \in Nat \ {0} : \A n \in 0 .. 2 * m - 1 : n % m = IF n < m THEN n ELSE n - m
OBVIOUS

\* osInit gives every variable its type.
LEMMA BootType == osInit => TypeOK
<1> SUFFICES ASSUME osInit PROVE TypeOK OBVIOUS
<1>1. NoLinks \in ListRecord /\ IDLE \in Level /\ IdleTask \in TCB
  BY DEF NoLinks, ListRecord, Pointer, IDLE, Level, TCB, TASK_PRIORITY_LVL_NUM
<1>2. lists \in ListRecord BY <1>1, PushType DEF osInit
<1>3. /\ state \in [TCB -> {"READY", "DELAYED"}]
      /\ staticPriority \in [TCB -> UInt8]
      /\ nextExecTimeUs \in [TCB -> Time]
      /\ timestamp \in Time
  BY TimeAssumption DEF osInit, IDLE, UInt8, Time
<1>4. dynamicPriority \in [Level -> Nat] BY DynPriorityAssumption DEF osInit
<1> QED BY <1>1, <1>2, <1>3, <1>4 DEF osInit, TypeOK, Pointer, TCB

\* Interrupts and schedule() keep the types.
LEMMA ExceptionsType == TypeOK /\ Exceptions => TypeOK'
<1> SUFFICES ASSUME TypeOK, Exceptions PROVE TypeOK' OBVIOUS
<1>1. CASE SysTick_Handler
  <2>1. AfterTick(timestamp) \in Time
    BY TimeAssumption, TimeWraps DEF AfterTick, TypeOK, Time
  <2> QED BY <1>1, <2>1 DEF SysTick_Handler, TypeOK, tasks
<1>2. CASE PendSV_Handler
  <2>1. lists.head \in Pointer BY DEF TypeOK, ListRecord
  <2> QED BY <1>2, <2>1 DEF PendSV_Handler, TypeOK, tasks
<1>3. CASE WakeExpired
  <2>1. cursor \in TCB BY <1>3 DEF WakeExpired, TypeOK, Pointer
  <2>2. lists.next[cursor] \in Pointer BY <2>1 DEF TypeOK, ListRecord
  <2>3. CASE Wake(cursor)
    <3>1. _listRemoveTask(lists, cursor) \in ListRecord
      BY <2>1, ListRemoveType DEF TypeOK
    <3>2. lists' \in ListRecord
      BY <2>1, <2>3, <3>1, PushType DEF Wake
    <3>3. state' \in [TCB -> {"READY", "DELAYED"}]
      BY <2>1, <2>3 DEF Wake, TypeOK
    <3> QED BY <1>3, <2>2, <3>2, <3>3 DEF WakeExpired, TypeOK
  <2>4. CASE UNCHANGED <<lists, state>>
    BY <1>3, <2>2, <2>4 DEF WakeExpired, TypeOK
  <2> QED BY <1>3, <2>3, <2>4 DEF WakeExpired
<1>4. CASE Dispatch
  <2>1. CASE NonEmpty = {}
    <3>1. lists' \in ListRecord BY <1>4, <2>1, FaultedFields DEF Dispatch, TypeOK
    <3> QED BY <1>4, <2>1, <3>1 DEF Dispatch, TypeOK, Pointer
  <2>2. CASE NonEmpty # {}
    <3>1. PICK p \in NonEmpty :
            /\ UpdateDynamicPriority(p)
            /\ activeTask' = lists.iter[p]
            /\ lists' = _readyQueueIterateForwards(lists, p)
      BY <1>4, <2>2 DEF Dispatch
    <3>2. p \in Level /\ lists.iter[p] # NULL /\ lists.iter[p] \in Pointer
      BY DEF NonEmpty, TypeOK, ListRecord
    <3>3. lists' \in ListRecord BY <3>1, <3>2, IterateType DEF TypeOK
    <3>4. dynamicPriority' \in [Level -> Nat]
      BY <3>1, DynPriorityAssumption DEF UpdateDynamicPriority, Saturated, TypeOK
    <3> QED BY <1>4, <3>1, <3>2, <3>3, <3>4 DEF Dispatch, TypeOK
  <2> QED BY <2>1, <2>2
<1> QED BY <1>1, <1>2, <1>3, <1>4 DEF Exceptions

----------------------------------------------------------------------------
(* The lists.                                                              *)

\* Every task is in the ring of its level, in the delayed list, or nowhere,
\* as its state says; the walk of schedule() is on a task of the delayed list;
\* the thread that executes is in its ring.  That the idle task is in its own
\* is why there is always a task to run.
Consistent(Q, S) ==
  /\ WellFormed(lists, Q, S)
  /\ \A p \in Level : \A t \in Q[p] : state[t] = "READY" /\ staticPriority[t] = p
  /\ \A t \in S : state[t] = "DELAYED" /\ staticPriority[t] \in Level
  /\ IdleTask \in Q[IDLE]
  /\ cpu = "schedule" => cursor \in S \cup {NULL}
  /\ cpu = "main" => activeTask = IdleTask
  /\ cpu = "thread" /\ ~pendsv => \E p \in Level : activeTask \in Q[p]
  /\ activeTask # NULL

InPlace == \E Q \in Queues, S \in SUBSET TCB : Consistent(Q, S)

Inv == TypeOK /\ InPlace

\* A step keeps the tasks in place, and does not fault.
StaysInPlace == InPlace' /\ lists'.fault = lists.fault

\* The idle level and the idle task are what their names say.
LEMMA IdleIsALevel == IDLE \in Level /\ IdleTask \in TCB /\ IdleTask # NULL /\ NULL \notin TCB
BY TasksAreNotNull DEF IDLE, Level, TASK_PRIORITY_LVL_NUM, TCB

\* Unlinked is what a task that is nowhere looks like.
LEMMA UnlinkedIsNowhere ==
  ASSUME NEW Q, NEW S, Consistent(Q, S), NEW t \in TCB
  PROVE  Unlinked(t) <=> Nowhere(t, Q, S)
BY LinkedSomewhere DEF Consistent, Unlinked

\* In zeroed memory every queue is empty and the idle task is nowhere.
LEMMA NoLinksWellFormed ==
  ASSUME NEW Q, Q = [p \in Level |-> {}]
  PROVE  WellFormed(NoLinks, Q, {}) /\ Nowhere(IdleTask, Q, {})
<1>1. NoLinks \in ListRecord BY DEF NoLinks, ListRecord, Pointer
<1>2. Apart(Q, {}) /\ Nowhere(IdleTask, Q, {})
  BY IdleIsALevel DEF Apart, Queues, Nowhere
<1>3. InOrder(NoLinks, Q, {}, [t \in TCB |-> 0])
  BY DEF InOrder, RingOrder, ListOrder, NoLinks
<1>4. [t \in TCB |-> 0] \in Ranks BY DEF Ranks
<1>5. \A t \in TCB : NoLinks.next[t] = NULL /\ NoLinks.prev[t] = NULL BY DEF NoLinks
<1> QED BY <1>1, <1>2, <1>3, <1>4, <1>5 DEF WellFormed

\* osInit leaves the idle task in its ring and every other task nowhere.
LEMMA BootInPlace == osInit => InPlace /\ ~lists.fault
<1> SUFFICES ASSUME osInit PROVE InPlace /\ ~lists.fault OBVIOUS
<1>1. PICK Q : Q = [p \in Level |-> {}] OBVIOUS
<1>2. WellFormed(NoLinks, Q, {}) /\ Nowhere(IdleTask, Q, {}) BY <1>1, NoLinksWellFormed
<1>3. NoLinks.fault = FALSE BY DEF NoLinks
<1>4. PICK R : R = QueueJoined(Q, IDLE, IdleTask) OBVIOUS
<1>5. WellFormed(lists, R, {}) /\ lists.fault = FALSE
  BY <1>2, <1>3, <1>4, IdleIsALevel, PushWellFormed DEF osInit
<1>6. R \in Queues /\ R[IDLE] = {IdleTask} /\ \A p \in Level : p # IDLE => R[p] = {}
  BY <1>1, <1>4, IdleIsALevel DEF Queues, Joined, QueueJoined
<1>7. Consistent(R, {})
  BY <1>5, <1>6, IdleIsALevel DEF Consistent, osInit
<1> QED BY <1>5, <1>6, <1>7 DEF InPlace

\* Steps that only make requests, or pass control.
LEMMA ControlKeeps ==
  ASSUME Inv, SysTick_Handler \/ PendSV_Handler \/ osStart
  PROVE  StaysInPlace
<1>1. PICK Q \in Queues, S \in SUBSET TCB : Consistent(Q, S) BY DEF Inv, InPlace
<1>2. UNCHANGED <<lists, state, staticPriority, activeTask>>
  BY DEF SysTick_Handler, PendSV_Handler, osStart, tasks
<1>3. lists.head \in S \cup {NULL} BY <1>1, InList DEF Consistent
<1>4. cpu' = "schedule" => cursor' \in S \cup {NULL}
  BY <1>1, <1>3 DEF SysTick_Handler, PendSV_Handler, osStart, SVC_Handler, Consistent
<1>5. cpu' = "main" => activeTask = IdleTask
  BY <1>1 DEF SysTick_Handler, PendSV_Handler, osStart, SVC_Handler, Consistent
<1>6. cpu' = "thread" /\ ~pendsv' => \E p \in Level : activeTask \in Q[p]
  BY <1>1, IdleIsALevel DEF SysTick_Handler, PendSV_Handler, osStart, SVC_Handler, Consistent
<1>7. Consistent(Q, S)'
  BY <1>1, <1>2, <1>4, <1>5, <1>6 DEF Consistent
<1> QED BY <1>2, <1>7 DEF StaysInPlace, InPlace

\* The walk wakes a task of the delayed list, and goes on to another one.
LEMMA WakeExpiredKeeps ==
  ASSUME Inv, WakeExpired
  PROVE  StaysInPlace
<1>1. PICK Q \in Queues, S \in SUBSET TCB : Consistent(Q, S) BY DEF Inv, InPlace
<1>2. /\ cpu = "schedule" /\ cursor \in S /\ cursor' = lists.next[cursor]
      /\ UNCHANGED <<staticPriority, activeTask, cpu>>
  BY <1>1 DEF WakeExpired, Consistent
<1>3. cursor' \in S \cup {NULL} /\ cursor' # cursor /\ cursor \in TCB
  BY <1>1, <1>2, InList DEF Consistent
<1>4. CASE Wake(cursor)
  <2> DEFINE L == _listRemoveTask(lists, cursor)
  <2>1. PICK p \in Level : p = staticPriority[cursor] BY <1>1, <1>2 DEF Consistent
  <2>2. PICK T \in SUBSET TCB : T = Left(S, cursor) BY DEF Left
  <2>3. PICK R : R = QueueJoined(Q, p, cursor) OBVIOUS
  <2>4. WellFormed(L, Q, T) /\ L.fault = lists.fault
    BY <1>1, <1>2, <2>2, ListRemoveWellFormed DEF Consistent
  <2>5. Nowhere(cursor, Q, T)
    BY <1>1, <1>2, <1>3, <2>2, InList DEF Consistent, Nowhere, Left
  <2>6. lists' = _readyQueuePushTask(L, p, cursor) BY <1>4, <2>1 DEF Wake
  <2> HIDE DEF L
  <2>7. WellFormed(lists', R, T) /\ lists'.fault = lists.fault
    BY <2>3, <2>4, <2>5, <2>6, PushWellFormed
  <2>8. /\ R \in Queues /\ \A q \in Level : Q[q] \subseteq R[q]
        /\ \A q \in Level : \A t \in R[q] : t \in Q[q] \/ (t = cursor /\ q = p)
    BY <1>3, <2>3 DEF Queues, Joined, QueueJoined
  <2>9. T \in SUBSET TCB /\ \A t \in S : t # cursor <=> t \in T BY <2>2 DEF Left
  <2>10. T \subseteq S BY <2>2 DEF Left
  <2>11. /\ state'[cursor] = "READY"
        /\ \A t \in TCB : t # cursor => state'[t] = state[t]
    BY <1>3, <1>4 DEF Wake, Inv, TypeOK
  <2>12. /\ \A q \in Level : \A t \in R[q] : state'[t] = "READY" /\ staticPriority[t] = q
         /\ \A t \in T : state'[t] = "DELAYED" /\ staticPriority[t] \in Level
    <3>1. \A q \in Level : cursor \notin Q[q] BY <1>1, <1>2, InList DEF Consistent
    <3>2. \A q \in Level : \A t \in Q[q] : t \in TCB BY DEF Queues
    <3> QED BY <1>1, <2>8, <2>9, <2>1, <2>10, <2>11, <3>1, <3>2 DEF Consistent
  <2>13. IdleTask \in R[IDLE] /\ cursor' \in T \cup {NULL}
    BY <1>1, <1>3, <2>8, <2>9, IdleIsALevel DEF Consistent
  <2>14. Consistent(R, T)'
    BY <1>1, <1>2, <2>7, <2>12, <2>13 DEF Consistent
  <2> QED BY <2>7, <2>8, <2>9, <2>14 DEF StaysInPlace, InPlace
<1>5. CASE UNCHANGED <<lists, state>>
  <2>1. Consistent(Q, S)' BY <1>1, <1>2, <1>3, <1>5 DEF Consistent
  <2> QED BY <1>5, <2>1 DEF StaysInPlace, InPlace
<1> QED BY <1>4, <1>5 DEF WakeExpired

\* There is a task to run, and it is the one its level's iterator is on.
LEMMA DispatchKeeps ==
  ASSUME Inv, Dispatch
  PROVE  StaysInPlace
<1>1. PICK Q \in Queues, S \in SUBSET TCB : Consistent(Q, S) BY DEF Inv, InPlace
<1>2. NonEmpty # {}
  <2>1. lists.iter[IDLE] # NULL BY <1>1, InRing, IdleIsALevel DEF Consistent
  <2> QED BY <2>1, IdleIsALevel DEF NonEmpty
<1>3. PICK p \in NonEmpty : /\ activeTask' = lists.iter[p]
                            /\ lists' = _readyQueueIterateForwards(lists, p)
  BY <1>2 DEF Dispatch
<1>4. p \in Level /\ lists.iter[p] # NULL BY DEF NonEmpty
<1>5. WellFormed(lists', Q, S) /\ lists'.fault = lists.fault
  BY <1>1, <1>3, <1>4, IterateWellFormed DEF Consistent
<1>6. activeTask' \in Q[p] /\ activeTask' # NULL
  BY <1>1, <1>3, <1>4, InRing DEF Consistent
<1>7. UNCHANGED <<state, staticPriority>> /\ cpu' = "thread" BY DEF Dispatch
<1>8. Consistent(Q, S)' BY <1>1, <1>4, <1>5, <1>6, <1>7 DEF Consistent
<1> QED BY <1>5, <1>8 DEF StaysInPlace, InPlace

----------------------------------------------------------------------------
(* Which task runs.                                                        *)

\* Dynamic priorities stay within their bounds, and the idle level never gains
\* any: that keeps it below the others.
PriorityInv ==
  /\ \A p \in Level :
       dynamicPriority[p] \in
         IF p = REALTIME THEN {taskBaseDynPriority[p]}
         ELSE taskBaseDynPriority[p] .. TASK_DYN_PRIO_LIMIT
  /\ dynamicPriority[IDLE] = 0

\* IDLE and REALTIME are two levels.
LEMMA Levels == /\ IDLE \in Level /\ REALTIME \in Level /\ IDLE # REALTIME
BY DEF IDLE, REALTIME, Level, TASK_PRIORITY_LVL_NUM

\* A level below REALTIME stays below it, and one above IDLE above it.
LEMMA Ranges ==
  ASSUME PriorityInv
  PROVE  /\ \A p \in Level : dynamicPriority[p] \in Nat
         /\ dynamicPriority[REALTIME] = taskBaseDynPriority[REALTIME]
         /\ \A p \in Level \ {REALTIME} : dynamicPriority[p] < dynamicPriority[REALTIME]
         /\ \A p \in Level \ {IDLE} : dynamicPriority[IDLE] < dynamicPriority[p]
<1>1. /\ dynamicPriority[REALTIME] = taskBaseDynPriority[REALTIME]
      /\ \A p \in Level : taskBaseDynPriority[p] \in Nat
  BY Levels, DynPriorityAssumption DEF PriorityInv
<1>2. \A p \in Level \ {REALTIME} :
        dynamicPriority[p] \in taskBaseDynPriority[p] .. TASK_DYN_PRIO_LIMIT
  BY DEF PriorityInv
<1>3. \A p \in Level \ {IDLE, REALTIME} : taskBaseDynPriority[p] >= 1
  BY DynPriorityAssumption
<1> QED BY <1>1, <1>2, <1>3, Levels, DynPriorityAssumption DEF PriorityInv

\* REALTIME is chosen whenever it has a task, and IDLE when nothing else has.
LEMMA ActiveQueue ==
  ASSUME PriorityInv, NEW p \in Level, IsActiveQueue(p)
  PROVE  /\ REALTIME \in NonEmpty => p = REALTIME
         /\ NonEmpty # {IDLE} => p # IDLE
<1>1. \A q \in NonEmpty : ~(dynamicPriority[p] < dynamicPriority[q])
  BY Ranges DEF IsActiveQueue, NonEmpty
<1>2. REALTIME \in NonEmpty => p = REALTIME BY <1>1, Ranges
<1>3. ASSUME p = IDLE PROVE NonEmpty = {IDLE}
  <2>1. \A q \in NonEmpty : q = IDLE BY <1>1, <1>3, Ranges DEF NonEmpty
  <2> QED BY <1>3, <2>1 DEF IsActiveQueue
<1> QED BY <1>2, <1>3

\* Ageing keeps the bounds: REALTIME never waits, the others saturate.
LEMMA DispatchPriority == PriorityInv /\ Dispatch => PriorityInv'
<1> SUFFICES ASSUME PriorityInv, Dispatch PROVE PriorityInv' OBVIOUS
<1>1. CASE UNCHANGED dynamicPriority
  BY <1>1 DEF PriorityInv
<1>2. ASSUME NEW a \in NonEmpty, IsActiveQueue(a), UpdateDynamicPriority(a)
      PROVE  PriorityInv'
  <2>1. a \in Level BY DEF NonEmpty
  <2>2. dynamicPriority' = [p \in Level |->
          IF p # a /\ p \in NonEmpty THEN Saturated(dynamicPriority[p] + taskBaseDynPriority[p])
          ELSE taskBaseDynPriority[p]]
    BY <1>2 DEF UpdateDynamicPriority
  <2>3. dynamicPriority'[REALTIME] = taskBaseDynPriority[REALTIME]
    BY <1>2, <2>1, <2>2, ActiveQueue, Levels
  <2>4. dynamicPriority'[IDLE] = 0
    BY <2>2, Levels, DynPriorityAssumption DEF Saturated, PriorityInv
  <2>5. ASSUME NEW p \in Level, p # REALTIME
        PROVE  dynamicPriority'[p] \in taskBaseDynPriority[p] .. TASK_DYN_PRIO_LIMIT
    <3>1. /\ taskBaseDynPriority[p] \in Nat /\ TASK_DYN_PRIO_LIMIT \in Nat
          /\ taskBaseDynPriority[p] <= TASK_DYN_PRIO_LIMIT
          /\ dynamicPriority[p] \in Nat
      BY <2>5, Ranges, DynPriorityAssumption
    <3> QED BY <2>2, <3>1 DEF Saturated
  <2> QED BY <2>3, <2>4, <2>5 DEF PriorityInv
<1>3. \/ UNCHANGED dynamicPriority
      \/ \E a \in NonEmpty : IsActiveQueue(a) /\ UpdateDynamicPriority(a)
  BY DEF Dispatch
<1> QED BY <1>1, <1>2, <1>3

\* Every level starts at its base.
LEMMA BootPriority == osInit => PriorityInv
BY Levels, DynPriorityAssumption DEF osInit, PriorityInv

----------------------------------------------------------------------------
(* What the exceptions do to the queues that the walks of ListWalks show.   *)

\* At boot only the idle task is in a queue.
LEMMA BootSeen ==
  osInit => /\ \A p \in Level : Ring(lists, p) = IF p = IDLE THEN <<IdleTask>> ELSE <<>>
            /\ Asleep(lists) = {}
<1> SUFFICES ASSUME osInit
             PROVE  /\ \A p \in Level : Ring(lists, p) = IF p = IDLE THEN <<IdleTask>> ELSE <<>>
                    /\ Asleep(lists) = {}
  OBVIOUS
<1>1. PICK Q : Q = [p \in Level |-> {}] OBVIOUS
<1>2. WellFormed(NoLinks, Q, {}) /\ Nowhere(IdleTask, Q, {}) BY <1>1, NoLinksWellFormed
<1>3. \A p \in Level : Ring(NoLinks, p) = <<>>
  BY <1>2, RingGoesRound DEF NoLinks
<1>4. lists = _readyQueuePushTask(NoLinks, IDLE, IdleTask) BY DEF osInit
<1>5. \A p \in Level : Ring(lists, p) =
        IF p = IDLE THEN Append(Ring(NoLinks, IDLE), IdleTask) ELSE Ring(NoLinks, p)
  BY <1>2, <1>4, IdleIsALevel, PushRings
<1>6. Append(<<>>, IdleTask) = <<IdleTask>> OBVIOUS
<1>7. Asleep(lists) = Asleep(NoLinks) /\ Asleep(NoLinks) = {}
  BY <1>2, <1>4, IdleIsALevel, PushSeen, Seen
<1> QED BY <1>3, <1>5, <1>6, <1>7, IdleIsALevel

\* One turn of the walk moves its task from the sleepers to the end of its
\* queue, or passes over it.
LEMMA WakeSeen ==
  ASSUME Inv, WakeExpired
  PROVE  \/ UNCHANGED <<lists, state>>
         \/ \E t \in Task : /\ t \in Asleep(lists) /\ Asleep(lists') = Asleep(lists) \ {t}
                            /\ staticPriority[t] \in Level
                            /\ Rings(lists') =
                                 [Rings(lists) EXCEPT ![staticPriority[t]] = Append(@, t)]
<1>1. PICK Q \in Queues, S \in SUBSET TCB : Consistent(Q, S) BY DEF Inv, InPlace
<1>2. cpu = "schedule" /\ cursor \in S BY <1>1 DEF WakeExpired, Consistent
<1>3. CASE UNCHANGED <<lists, state>> BY <1>3
<1>4. CASE Wake(cursor)
  <2>1. PICK t \in S : t = cursor BY <1>2
  <2>2. t \in TCB /\ WellFormed(lists, Q, S) BY <1>1 DEF Consistent
  <2>3. t \in Task
    <3>1. IdleTask \in Q[IDLE] BY <1>1 DEF Consistent
    <3>2. IdleTask \notin S BY <2>2, <3>1, IdleIsALevel, InRing
    <3> QED BY <2>2, <3>2 DEF TCB
  <2>4. PICK p \in Level : p = staticPriority[t] BY <1>1 DEF Consistent
  <2>5. PICK N : N = _listRemoveTask(lists, t) OBVIOUS
  <2>6. lists' = _readyQueuePushTask(N, p, t) BY <1>4, <2>1, <2>4, <2>5 DEF Wake
  <2>7. /\ Rings(N) = Rings(lists)
        /\ t \in Asleep(lists) /\ Asleep(N) = Asleep(lists) \ {t}
    BY <2>2, <2>5, DropSeen
  <2>8. WellFormed(N, Q, Left(S, t)) BY <2>2, <2>5, ListRemoveWellFormed
  <2>9. Nowhere(t, Q, Left(S, t)) BY <2>2, InList DEF Nowhere, Left
  <2>10. Rings(lists') = [Rings(N) EXCEPT ![p] = Append(@, t)] /\ Asleep(lists') = Asleep(N)
    BY <2>6, <2>8, <2>9, PushSeen
  <2> QED BY <2>3, <2>4, <2>7, <2>10
<1> QED BY <1>3, <1>4 DEF WakeExpired

\* The level schedule() picks gives a turn to its first task: REALTIME if it
\* has one, IDLE only if no other has.
LEMMA DispatchSeen ==
  ASSUME Inv, PriorityInv, Dispatch
  PROVE  \E p \in Level :
           /\ Ring(lists, p) # <<>>
           /\ Ring(lists, REALTIME) # <<>> => p = REALTIME
           /\ p = IDLE => \A q \in Level \ {IDLE} : Ring(lists, q) = <<>>
           /\ activeTask' = Head(Ring(lists, p))
           /\ Rings(lists') = [Rings(lists) EXCEPT ![p] = Append(Tail(@), Head(@))]
           /\ Asleep(lists') = Asleep(lists)
<1>1. PICK Q \in Queues, S \in SUBSET TCB : Consistent(Q, S) BY DEF Inv, InPlace
<1>2. WellFormed(lists, Q, S) BY <1>1 DEF Consistent
<1>3. NonEmpty # {}
  <2>1. lists.iter[IDLE] # NULL BY <1>1, InRing, IdleIsALevel DEF Consistent
  <2> QED BY <2>1, IdleIsALevel DEF NonEmpty
<1>4. PICK p \in NonEmpty : /\ IsActiveQueue(p)
                            /\ activeTask' = lists.iter[p]
                            /\ lists' = _readyQueueIterateForwards(lists, p)
  BY <1>3 DEF Dispatch
<1>5. p \in Level /\ lists.iter[p] # NULL BY DEF NonEmpty
<1>6. /\ \A q \in Level : Ring(lists', q) =
           IF q = p THEN Append(Tail(Ring(lists, p)), Head(Ring(lists, p)))
           ELSE Ring(lists, q)
      /\ Ring(lists, p) # <<>> /\ Head(Ring(lists, p)) = lists.iter[p]
  BY <1>2, <1>4, <1>5, IterateRings
<1>7. Rings(lists') = [Rings(lists) EXCEPT ![p] = Append(Tail(@), Head(@))]
  BY <1>5, <1>6 DEF Rings
<1>8. \A q \in Level : q \notin NonEmpty => Ring(lists, q) = <<>>
  BY <1>2, RingGoesRound DEF NonEmpty
<1>9. /\ Ring(lists, REALTIME) # <<>> => p = REALTIME
      /\ p = IDLE => \A q \in Level \ {IDLE} : Ring(lists, q) = <<>>
  <2>1. REALTIME \in NonEmpty => p = REALTIME BY <1>4, <1>5, ActiveQueue
  <2>2. p = IDLE => NonEmpty = {IDLE} BY <1>4, <1>5, ActiveQueue
  <2> QED BY <1>8, <2>1, <2>2, Levels
<1>10. Asleep(lists') = Asleep(lists)
  <2>1. WellFormed(lists', Q, S) BY <1>2, <1>4, <1>5, IterateWellFormed
  <2> QED BY <1>2, <2>1, Seen
<1> QED BY <1>4, <1>5, <1>6, <1>7, <1>9, <1>10

\* A task is linked exactly when a walk meets it.
LEMMA UnlinkedIsUnseen ==
  ASSUME Inv, NEW t \in TCB
  PROVE  Unlinked(t) <=> /\ ~\E p \in Level : \E i \in DOMAIN Ring(lists, p) : Ring(lists, p)[i] = t
                         /\ t \notin Asleep(lists)
<1>1. PICK Q \in Queues, S \in SUBSET TCB : Consistent(Q, S) BY DEF Inv, InPlace
<1>2. WellFormed(lists, Q, S) BY <1>1 DEF Consistent
<1>3. (\E p \in Level : \E i \in DOMAIN Ring(lists, p) : Ring(lists, p)[i] = t) <=>
        \E p \in Level : t \in Q[p]
  BY <1>2, Seen
<1>4. Asleep(lists) = S BY <1>2, Seen
<1>5. Unlinked(t) <=> Nowhere(t, Q, S) BY <1>1, UnlinkedIsNowhere
<1> QED BY <1>3, <1>4, <1>5 DEF Nowhere
\* What a task's state and priority say is where it is.
LEMMA InvOnePlace == Inv => InOnePlace(lists, state, staticPriority)
<1> SUFFICES ASSUME Inv PROVE InOnePlace(lists, state, staticPriority) OBVIOUS
<1>1. PICK Q \in Queues, S \in SUBSET TCB : Consistent(Q, S) BY DEF Inv, InPlace
<1>2. WellFormed(lists, Q, S) BY <1>1 DEF Consistent
<1>3. ASSUME NEW t \in TCB, NEW linked,
             linked <=> \/ lists.next[t] # NULL \/ lists.prev[t] # NULL
                        \/ t \in {lists.head, lists.tail}
      PROVE  /\ {p \in Level : \E i \in DOMAIN Ring(lists, p) : Ring(lists, p)[i] = t} =
                  IF linked /\ state[t] = "READY" THEN {staticPriority[t]} ELSE {}
             /\ t \in Asleep(lists) <=> linked /\ state[t] = "DELAYED"
  <2>1. linked <=> ~Nowhere(t, Q, S) BY <1>1, <1>2, <1>3, LinkedSomewhere
  <2>2. {p \in Level : \E i \in DOMAIN Ring(lists, p) : Ring(lists, p)[i] = t} =
          {p \in Level : t \in Q[p]}
    BY <1>2, Seen
  <2>3. Asleep(lists) = S BY <1>2, Seen
  <2>4. CASE \E p \in Level : t \in Q[p]
    <3>1. PICK p \in Level : t \in Q[p] BY <2>4
    <3>2. state[t] = "READY" /\ staticPriority[t] = p /\ t \notin S
          /\ \A q \in Level : t \in Q[q] <=> q = p
      BY <1>1, <1>2, <3>1, InRing DEF Consistent
    <3>3. linked BY <2>1, <3>1 DEF Nowhere
    <3>4. {q \in Level : t \in Q[q]} = {p} BY <3>2
    <3> QED BY <2>2, <2>3, <3>2, <3>3, <3>4
  <2>5. CASE t \in S
    <3>1. /\ state[t] = "DELAYED" /\ \A q \in Level : t \notin Q[q]
      BY <1>1, <1>2, <2>5, InList DEF Consistent
    <3>2. linked BY <2>1, <2>5 DEF Nowhere
    <3> QED BY <2>2, <2>3, <2>5, <3>1, <3>2
  <2>6. CASE Nowhere(t, Q, S) BY <2>1, <2>2, <2>3, <2>6 DEF Nowhere
  <2> QED BY <2>4, <2>5, <2>6 DEF Nowhere
<1> QED BY <1>3 DEF InOnePlace
==============================================================================
