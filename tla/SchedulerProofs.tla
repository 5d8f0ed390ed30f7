--------------------------- MODULE SchedulerProofs ---------------------------
(* Proofs about Scheduler, for every set of tasks, workload and time base.  *)
EXTENDS Scheduler, SchedulerCoreProofs

----------------------------------------------------------------------------
(* Types.                                                                  *)

\* osInit gives every variable its type.
LEMMA InitType == Init => TypeOK
BY BootType DEF Init

\* The queue or list a task is removed from stays a list.
LEMMA RemovedType ==
  ASSUME TypeOK, NEW t \in TCB
  PROVE  Removed(t) \in ListRecord
<1>1. staticPriority[t] \in Nat BY DEF TypeOK, UInt8
<1> QED BY <1>1, ReadyRemoveType, ListRemoveType DEF Removed, TypeOK

\* The calls of the API keep the types.
LEMMA ThreadStepType == TypeOK /\ ThreadStep => TypeOK'
<1> SUFFICES ASSUME TypeOK, ThreadStep PROVE TypeOK' OBVIOUS
<1> USE DEF tasks, kernel
<1>1. ASSUME NEW t \in Task, NEW p \in Priorities, osInitTask(t, p) PROVE TypeOK'
  BY <1>1, WorkloadAssumption DEF osInitTask, TypeOK
<1>2. ASSUME NEW t \in Task, osStartTask(t) PROVE TypeOK'
  <2>1. t \in TCB BY DEF TCB
  <2>2. lists' \in ListRecord
    BY <1>2, <2>1, PushType, FaultedFields DEF osStartTask, TypeOK
  <2> QED BY <1>2, <2>1, <2>2 DEF osStartTask, TypeOK
<1>3. ASSUME NEW t \in Task, osKillTask(t) PROVE TypeOK'
  <2>1. lists' \in ListRecord BY <1>3, RemovedType DEF osKillTask, TCB
  <2> QED BY <1>3, <2>1 DEF osKillTask, TypeOK
<1>4. ASSUME NEW d \in Delays, osDelay(d) PROVE TypeOK'
  <2>1. activeTask \in TCB BY <1>4 DEF osDelay, InTask, InThread, TCB
  <2>2. staticPriority[activeTask] \in Nat BY <2>1 DEF TypeOK, UInt8
  <2>3. _readyQueueRemoveTask(lists, staticPriority[activeTask], activeTask) \in ListRecord
    BY <2>1, <2>2, ReadyRemoveType DEF TypeOK
  <2>4. lists' \in ListRecord BY <1>4, <2>1, <2>3, ListAddType DEF osDelay
  <2>5. timestamp + d * US_PER_MS \in Nat
    BY WorkloadAssumption, TimeAssumption DEF TypeOK, Time
  <2>6. nextExecTimeUs' \in [TCB -> Time]
    BY <1>4, <2>1, <2>5, TimeWraps DEF osDelay, TypeOK
  <2> QED BY <1>4, <2>1, <2>4, <2>6 DEF osDelay, TypeOK
<1>5. ASSUME osYield PROVE TypeOK'
  BY <1>5 DEF osYield, TypeOK
<1>6. ASSUME taskExitHandler PROVE TypeOK'
  <2>1. activeTask \in TCB BY <1>6 DEF taskExitHandler, InTask, InThread, TCB
  <2>2. lists' \in ListRecord BY <1>6, <2>1, RemovedType DEF taskExitHandler
  <2> QED BY <1>6, <2>2 DEF taskExitHandler, TypeOK
<1> QED BY <1>1, <1>2, <1>3, <1>4, <1>5, <1>6 DEF ThreadStep

\* Every step keeps the types.
LEMMA StepType == TypeOK /\ [Next]_vars => TypeOK'
<1> SUFFICES ASSUME TypeOK, [Next]_vars PROVE TypeOK' OBVIOUS
<1>1. CASE osStart BY <1>1 DEF osStart, SVC_Handler, TypeOK, tasks
<1>2. CASE Exceptions BY <1>2, ExceptionsType
<1>3. CASE ThreadStep BY <1>3, ThreadStepType
<1>4. CASE UNCHANGED vars BY <1>4 DEF vars, TypeOK
<1> QED BY <1>1, <1>2, <1>3, <1>4 DEF Next

\* Every variable keeps its type: whatever the tasks call, no pointer leads
\* outside the control blocks and the time base stays within its width.
THEOREM TypeCorrect == Spec => []TypeOK
BY InitType, StepType, PTL DEF Spec

----------------------------------------------------------------------------
(* The lists.                                                              *)

\* The uses of the API that fault: a priority without a queue, and killing a
\* task that was never started or was killed before.
Allowed ==
  /\ "killUnlinked" \notin Calls
  /\ \A t \in TCB : staticPriority[t] \in Level

\* A step keeps the tasks in place, and faults only where the API is misused.
Kept == InPlace' /\ (Allowed => lists'.fault = lists.fault)

\* osInit leaves the idle task in its ring and every other task nowhere.
LEMMA InitInPlace == Init => InPlace /\ ~lists.fault
BY BootInPlace DEF Init

\* A task that yields only makes a request.
LEMMA YieldKeeps ==
  ASSUME Inv, osYield
  PROVE  Kept
<1>1. PICK Q \in Queues, S \in SUBSET TCB : Consistent(Q, S) BY DEF Inv, InPlace
<1>2. /\ UNCHANGED <<lists, state, staticPriority, activeTask, cpu>>
      /\ cpu = "thread" /\ pendsv'
  BY DEF osYield, InTask, InThread, tasks, kernel
<1>3. Consistent(Q, S)' BY <1>1, <1>2 DEF Consistent
<1> QED BY <1>2, <1>3 DEF Kept, InPlace

\* Only a task that is nowhere is initialised: its priority is nobody's queue.
LEMMA InitTaskKeeps ==
  ASSUME Inv, NEW t \in Task, NEW p \in Priorities, osInitTask(t, p)
  PROVE  Kept
<1>1. PICK Q \in Queues, S \in SUBSET TCB : Consistent(Q, S) BY DEF Inv, InPlace
<1>2. Nowhere(t, Q, S)
  BY <1>1, UnlinkedIsNowhere DEF osInitTask, TCB
<1>3. /\ UNCHANGED <<lists, state, activeTask, cpu, cursor, pendsv>>
      /\ \A u \in TCB : u # t => staticPriority'[u] = staticPriority[u]
  BY DEF osInitTask, kernel, Inv, TypeOK
<1>4. /\ \A q \in Level : \A u \in Q[q] : u \in TCB /\ u # t
      /\ \A u \in S : u # t
  BY <1>2 DEF Queues, Nowhere
<1>5. Consistent(Q, S)' BY <1>1, <1>3, <1>4 DEF Consistent
<1> QED BY <1>3, <1>5 DEF Kept, InPlace

\* A task that is started joins its ring; with a priority that has none, the
\* links stay as they are.
LEMMA StartTaskKeeps ==
  ASSUME Inv, NEW t \in Task, osStartTask(t)
  PROVE  Kept
<1> DEFINE p == staticPriority[t]
<1>1. PICK Q \in Queues, S \in SUBSET TCB : Consistent(Q, S) BY DEF Inv, InPlace
<1>2. Nowhere(t, Q, S) /\ t \in TCB
  BY <1>1, UnlinkedIsNowhere DEF osStartTask, TCB
<1>3. /\ UNCHANGED <<staticPriority, activeTask, cpu, cursor, pendsv>>
      /\ lists' = _readyQueuePushTask(lists, p, t)
      /\ state'[t] = "READY"
      /\ \A u \in TCB : u # t => state'[u] = state[u]
  BY <1>2 DEF osStartTask, kernel, Inv, TypeOK
<1>4. /\ \A q \in Level : \A u \in Q[q] : u \in TCB /\ u # t
      /\ \A u \in S : u # t
  BY <1>2 DEF Queues, Nowhere
<1>5. CASE p \notin Level
  <2>1. WellFormed(lists', Q, S)
    BY <1>1, <1>3, <1>5, FaultWellFormed DEF _readyQueuePushTask, Consistent
  <2>2. Consistent(Q, S)' BY <1>1, <1>3, <1>4, <2>1 DEF Consistent
  <2>3. ~Allowed BY <1>2, <1>5 DEF Allowed
  <2> QED BY <2>2, <2>3 DEF Kept, InPlace
<1>6. CASE p \in Level
  <2>1. PICK Q2 : Q2 = QueueJoined(Q, p, t) OBVIOUS
  <2>2. WellFormed(lists', Q2, S) /\ lists'.fault = lists.fault
    BY <1>1, <1>2, <1>3, <1>6, <2>1, PushWellFormed DEF Consistent
  <2>3. /\ Q2 \in Queues /\ \A q \in Level : Q[q] \subseteq Q2[q]
        /\ \A q \in Level : \A u \in Q2[q] : u \in Q[q] \/ (u = t /\ q = p)
    BY <1>2, <1>6, <2>1 DEF Queues, Joined, QueueJoined
  <2>4. /\ \A q \in Level : \A u \in Q2[q] : state'[u] = "READY" /\ staticPriority[u] = q
        /\ \A u \in S : state'[u] = "DELAYED" /\ staticPriority[u] \in Level
    BY <1>1, <1>3, <1>4, <2>3 DEF Consistent
  <2>5. IdleTask \in Q2[IDLE] BY <1>1, <2>3, IdleIsALevel DEF Consistent
  <2>6. cpu' = "thread" /\ ~pendsv' => \E q \in Level : activeTask' \in Q2[q]
    BY <1>1, <1>3, <2>3 DEF Consistent
  <2>7. Consistent(Q2, S)' BY <1>1, <1>3, <2>2, <2>4, <2>5, <2>6 DEF Consistent
  <2> QED BY <2>2, <2>3, <2>7 DEF Kept, InPlace
<1> QED BY <1>5, <1>6

\* Whatever a task is in, removing it takes it out of there and leaves the
\* others where they are.
LEMMA RemovedKeeps ==
  ASSUME Inv, NEW Q \in Queues, NEW S \in SUBSET TCB, Consistent(Q, S), NEW t \in Task
  PROVE  \E R \in Queues, T \in SUBSET TCB :
           /\ WellFormed(Removed(t), R, T)
           /\ \A p \in Level : R[p] \subseteq Q[p]
           /\ T \subseteq S
           /\ IdleTask \in R[IDLE]
           /\ Linked(t) \/ state[t] = "DELAYED" => Removed(t).fault = lists.fault
<1>1. /\ t \in TCB /\ t # IdleTask /\ lists \in ListRecord
      /\ state[t] \in {"READY", "DELAYED"}
  BY TasksAreNotNull DEF TCB, Inv, TypeOK
<1>2. /\ WellFormed(lists, Q, S) /\ IdleTask \in Q[IDLE]
  BY DEF Consistent
<1>3. CASE \E p \in Level : t \in Q[p]
  <2>1. PICK p \in Level : t \in Q[p] BY <1>3
  <2>2. Removed(t) = _readyQueueRemoveTask(lists, p, t)
    BY <2>1 DEF Removed, Consistent
  <2>3. PICK R : R = QueueLeft(Q, p, t) OBVIOUS
  <2>4. WellFormed(Removed(t), R, S) /\ Removed(t).fault = lists.fault
    BY <1>2, <2>1, <2>2, <2>3, ReadyRemoveWellFormed
  <2>5. /\ R \in Queues /\ \A q \in Level : R[q] \subseteq Q[q]
        /\ \A q \in Level : \A u \in Q[q] : u # t => u \in R[q]
    BY <2>3 DEF QueueLeft, Queues, Left
  <2>6. IdleTask \in R[IDLE] BY <1>1, <1>2, <2>5, IdleIsALevel
  <2> QED BY <2>4, <2>5, <2>6
<1>4. CASE t \in S
  <2>1. Removed(t) = _listRemoveTask(lists, t) BY <1>4 DEF Removed, Consistent
  <2>2. PICK T : T = Left(S, t) OBVIOUS
  <2>3. WellFormed(Removed(t), Q, T) /\ Removed(t).fault = lists.fault
    BY <1>2, <1>4, <2>1, <2>2, ListRemoveWellFormed
  <2>4. T \subseteq S BY <2>2 DEF Left
  <2> QED BY <1>2, <2>3, <2>4
<1>5. CASE Nowhere(t, Q, S)
  <2>1. /\ Unlinked(t) /\ lists.next[t] = NULL /\ lists.prev[t] = NULL
        /\ t \notin {lists.head, lists.tail}
    BY <1>1, <1>5, UnlinkedIsNowhere DEF Unlinked
  <2>2. CASE state[t] = "READY"
    <3>1. t # NULL BY <1>1, IdleIsALevel
    <3>2. Removed(t) = Faulted(lists)
      BY <2>1, <2>2, <3>1 DEF Removed, _readyQueueRemoveTask
    <3>3. WellFormed(Removed(t), Q, S) BY <1>2, <3>2, FaultWellFormed
    <3>4. ~(Linked(t) \/ state[t] = "DELAYED") BY <2>1, <2>2 DEF Linked
    <3> QED BY <1>2, <3>3, <3>4
  <2>3. CASE state[t] = "DELAYED"
    <3>1. Removed(t) = lists BY <1>1, <2>1, <2>3, RemoveUnlinked DEF Removed
    <3> QED BY <1>2, <3>1
  <2> QED BY <1>1, <2>2, <2>3
<1> QED BY <1>1, <1>3, <1>4, <1>5 DEF Nowhere

\* A task that is killed, or returns, leaves its ring or the delayed list.
LEMMA KillKeeps ==
  ASSUME Inv, NEW t \in Task,
         \/ osKillTask(t)
         \/ taskExitHandler /\ t = activeTask
  PROVE  Kept
<1>1. PICK Q \in Queues, S \in SUBSET TCB : Consistent(Q, S) BY DEF Inv, InPlace
<1>2. /\ lists' = Removed(t) /\ pendsv' = TRUE /\ cpu = "thread" /\ ~pendsv
      /\ UNCHANGED <<state, staticPriority, activeTask, cpu>>
  BY DEF osKillTask, taskExitHandler, InTask, InThread, kernel
<1>3. PICK R \in Queues, T \in SUBSET TCB :
        /\ WellFormed(Removed(t), R, T)
        /\ \A p \in Level : R[p] \subseteq Q[p]
        /\ T \subseteq S
        /\ IdleTask \in R[IDLE]
        /\ Linked(t) \/ state[t] = "DELAYED" => Removed(t).fault = lists.fault
  BY <1>1, RemovedKeeps
<1>4. /\ \A p \in Level : \A u \in R[p] : state[u] = "READY" /\ staticPriority[u] = p
      /\ \A u \in T : state[u] = "DELAYED" /\ staticPriority[u] \in Level
  BY <1>1, <1>3 DEF Consistent
<1>5. Consistent(R, T)' BY <1>1, <1>2, <1>3, <1>4 DEF Consistent
<1>6. Allowed => Linked(t) \/ state[t] = "DELAYED"
  <2>1. CASE osKillTask(t)
    BY <2>1 DEF osKillTask, Allowed, Linked, Inv, TypeOK, TCB
  <2>2. CASE taskExitHandler /\ t = activeTask
    <3>1. PICK p \in Level : t \in Q[p] BY <1>1, <1>2, <2>2 DEF Consistent
    <3>2. ~Nowhere(t, Q, S) BY <3>1 DEF Nowhere
    <3> QED BY <1>1, <3>2, UnlinkedIsNowhere DEF Linked, TCB
  <2> QED BY <2>1, <2>2
<1> QED BY <1>2, <1>3, <1>5, <1>6 DEF Kept, InPlace

\* The task that delays itself is in its ring, and moves to the delayed list.
LEMMA DelayKeeps ==
  ASSUME Inv, NEW d \in Delays, osDelay(d)
  PROVE  Kept
<1>1. PICK Q \in Queues, S \in SUBSET TCB : Consistent(Q, S) BY DEF Inv, InPlace
<1>2. PICK t \in Task : t = activeTask BY DEF osDelay, InTask, InThread
<1>3. /\ cpu = "thread" /\ ~pendsv /\ pendsv' = TRUE
      /\ UNCHANGED <<staticPriority, activeTask, cpu>>
  BY DEF osDelay, InTask, InThread, kernel
<1>4. PICK p \in Level : t \in Q[p] BY <1>1, <1>2, <1>3 DEF Consistent
<1>5. staticPriority[t] = p /\ t \in TCB /\ t # IdleTask
  BY <1>1, <1>4, TasksAreNotNull DEF Consistent, TCB
<1>6. PICK R : R = QueueLeft(Q, p, t) OBVIOUS
<1>7. PICK T : T = Joined(S, t) OBVIOUS
<1>8. PICK L : L = _readyQueueRemoveTask(lists, p, t) OBVIOUS
<1>9. lists' = _listAddTask(L, t) BY <1>2, <1>5, <1>8 DEF osDelay
<1>10. WellFormed(L, R, S) /\ L.fault = lists.fault
  BY <1>1, <1>4, <1>6, <1>8, ReadyRemoveWellFormed DEF Consistent
<1>11. /\ R \in Queues /\ T \in SUBSET TCB
       /\ \A q \in Level : \A u \in R[q] : u \in Q[q]
       /\ \A q \in Level : \A u \in Q[q] : u # t => u \in R[q]
       /\ \A u \in T : u \in S \/ u = t
  BY <1>5, <1>6, <1>7 DEF QueueLeft, Queues, Left, Joined
<1>12. Nowhere(t, R, S)
  <2>1. t \notin S BY <1>1, <1>4, InRing DEF Consistent
  <2>2. t \notin R[p] BY <1>6 DEF QueueLeft, Queues, Left
  <2>3. \A q \in Level : q # p => t \notin R[q]
    BY <1>1, <1>4, <1>11 DEF Consistent
  <2> QED BY <1>5, <2>1, <2>2, <2>3 DEF Nowhere
<1>13. WellFormed(lists', R, T) /\ lists'.fault = lists.fault
  BY <1>7, <1>9, <1>10, <1>12, ListAddWellFormed
<1>14. /\ state'[t] = "DELAYED"
       /\ \A u \in TCB : u # t => state'[u] = state[u]
  BY <1>2, <1>5 DEF osDelay, Inv, TypeOK
<1>15. /\ \A q \in Level : \A u \in R[q] : state'[u] = "READY" /\ staticPriority[u] = q
       /\ \A u \in T : state'[u] = "DELAYED" /\ staticPriority[u] \in Level
  <2>1. \A q \in Level : \A u \in R[q] : u \in TCB /\ u # t
    BY <1>11, <1>12 DEF Nowhere, Queues
  <2> QED BY <1>1, <1>5, <1>11, <1>14, <2>1 DEF Consistent
<1>16. IdleTask \in R[IDLE] BY <1>1, <1>5, <1>11, IdleIsALevel DEF Consistent
<1>17. Consistent(R, T)' BY <1>1, <1>3, <1>13, <1>15, <1>16 DEF Consistent
<1> QED BY <1>11, <1>13, <1>17 DEF Kept, InPlace

\* Every step keeps the tasks in place.
LEMMA NextKeeps == Inv /\ [Next]_vars => Inv' /\ (Allowed => lists'.fault = lists.fault)
<1> SUFFICES ASSUME Inv, [Next]_vars PROVE Inv' /\ (Allowed => lists'.fault = lists.fault)
  OBVIOUS
<1>1. TypeOK' BY StepType DEF Inv
<1>2. CASE osStart BY <1>2, <1>1, ControlKeeps DEF StaysInPlace, Inv
<1>3. CASE Exceptions
  BY <1>3, <1>1, ControlKeeps, WakeExpiredKeeps, DispatchKeeps DEF Exceptions, StaysInPlace, Inv
<1>4. CASE ThreadStep
  <2>1. ASSUME NEW t \in Task, NEW p \in Priorities, osInitTask(t, p) PROVE Kept
    BY <2>1, InitTaskKeeps
  <2>2. ASSUME NEW t \in Task, osStartTask(t) PROVE Kept
    BY <2>2, StartTaskKeeps
  <2>3. ASSUME NEW t \in Task, osKillTask(t) PROVE Kept
    BY <2>3, KillKeeps
  <2>4. ASSUME NEW d \in Delays, osDelay(d) PROVE Kept
    BY <2>4, DelayKeeps
  <2>5. ASSUME osYield PROVE Kept BY <2>5, YieldKeeps
  <2>6. ASSUME taskExitHandler PROVE Kept
    <3>1. activeTask \in Task BY <2>6 DEF taskExitHandler, InTask, InThread
    <3> QED BY <2>6, <3>1, KillKeeps
  <2>7. Kept BY <1>4, <2>1, <2>2, <2>3, <2>4, <2>5, <2>6 DEF ThreadStep
  <2> QED BY <2>7, <1>1 DEF Kept, Inv
<1>5. CASE UNCHANGED vars
  <2>1. PICK Q \in Queues, S \in SUBSET TCB : Consistent(Q, S) BY DEF Inv, InPlace
  <2>2. Consistent(Q, S)' BY <1>5, <2>1 DEF vars, Consistent
  <2> QED BY <1>1, <1>5, <2>2 DEF vars, Inv, InPlace
<1> QED BY <1>2, <1>3, <1>4, <1>5 DEF Next

\* Whatever the tasks call, in whatever order, every task is where its state
\* says, and nowhere else, and the task that executes is ready.
THEOREM Invariance == Spec => []Inv
<1>1. Init => Inv BY InitType, InitInPlace DEF Inv
<1>2. Inv /\ [Next]_vars => Inv' BY NextKeeps
<1> QED BY <1>1, <1>2, PTL DEF Spec

----------------------------------------------------------------------------
(* What follows from the invariant.                                        *)

\* Tasks that are in place are linked as LinksOK says.
LEMMA InvLinks == Inv => LinksOK
<1> SUFFICES ASSUME Inv PROVE LinksOK OBVIOUS
<1>1. PICK Q \in Queues, S \in SUBSET TCB : Consistent(Q, S) BY DEF Inv, InPlace
<1>2. WellFormed(lists, Q, S) BY <1>1 DEF Consistent
<1>3. \A t \in TCB : Linked(t) => t \in S \/ \E p \in Level : t \in Q[p]
  BY <1>1, UnlinkedIsNowhere DEF Linked, Nowhere
<1>4. \A t \in S : t \in TCB /\ Linked(t) /\ state[t] = "DELAYED"
  BY <1>1, UnlinkedIsNowhere DEF Linked, Nowhere, Consistent
<1>5. \A p \in Level : \A t \in Q[p] :
        t \in TCB /\ Linked(t) /\ state[t] = "READY" /\ staticPriority[t] = p
  BY <1>1, UnlinkedIsNowhere DEF Linked, Nowhere, Consistent, Queues
<1>6. RingsClosed
  <2> SUFFICES ASSUME NEW t \in TCB, Linked(t), state[t] = "READY"
               PROVE  LET nx == lists.next[t]
                          pv == lists.prev[t]
                      IN /\ nx \in TCB /\ pv \in TCB
                         /\ lists.prev[nx] = t /\ lists.next[pv] = t
                         /\ state[nx] = "READY" /\ staticPriority[nx] = staticPriority[t]
    BY DEF RingsClosed
  <2>1. PICK p \in Level : t \in Q[p] BY <1>3, <1>4
  <2>2. /\ lists.next[t] \in Q[p] /\ lists.prev[t] \in Q[p]
        /\ lists.prev[lists.next[t]] = t /\ lists.next[lists.prev[t]] = t
    BY <1>2, <2>1, InRing
  <2> QED BY <1>5, <2>1, <2>2
<1>7. DelayedListClosed
  <2>1. lists.head = NULL <=> lists.tail = NULL BY <1>2, InList
  <2>2. NULL \notin TCB BY IdleIsALevel
  <2>3. \A t \in TCB : t = lists.head => state[t] = "DELAYED" /\ lists.prev[t] = NULL
    BY <1>2, <1>4, <2>2, InList
  <2>4. \A t \in TCB : t = lists.tail => state[t] = "DELAYED" /\ lists.next[t] = NULL
    BY <1>2, <1>4, <2>2, InList
  <2>5. ASSUME NEW t \in TCB, Linked(t), state[t] = "DELAYED"
        PROVE  LET nx == lists.next[t]
                   pv == lists.prev[t]
               IN /\ IF nx = NULL THEN t = lists.tail
                     ELSE state[nx] = "DELAYED" /\ lists.prev[nx] = t
                  /\ IF pv = NULL THEN t = lists.head
                     ELSE state[pv] = "DELAYED" /\ lists.next[pv] = t
    <3>1. t \in S BY <1>3, <1>5, <2>5
    <3> QED BY <1>2, <1>4, <3>1, InList
  <2> QED BY <2>1, <2>3, <2>4, <2>5 DEF DelayedListClosed
<1>8. IteratorsValid
  <2> SUFFICES ASSUME NEW p \in Level
               PROVE  LET ready == {t \in TCB : /\ Linked(t) /\ state[t] = "READY"
                                                /\ staticPriority[t] = p}
                      IN IF ready = {} THEN lists.iter[p] = NULL ELSE lists.iter[p] \in ready
    BY DEF IteratorsValid
  <2>1. {t \in TCB : Linked(t) /\ state[t] = "READY" /\ staticPriority[t] = p} = Q[p]
    BY <1>3, <1>4, <1>5
  <2> QED BY <1>2, <2>1, InRing
<1> QED BY <1>6, <1>7, <1>8 DEF LinksOK

\* However many tasks there are, and whatever they call in whatever order,
\* the ready queues are rings, the delayed list is a list, and each iterator
\* is in its own ring (_listAddTask, _listRemoveTask, _readyQueuePushTask,
\* _readyQueueRemoveTask, and everything that calls them).
THEOREM LinksHold == Spec => []LinksOK
BY Invariance, InvLinks, PTL

\* The executing task being in some ring, it is ready.
LEMMA InvRunning == Inv => RunningIsReady
<1> SUFFICES ASSUME Inv, cpu = "thread", ~pendsv
             PROVE  /\ activeTask \in TCB
                    /\ Linked(activeTask) /\ state[activeTask] = "READY"
  BY DEF RunningIsReady
<1>1. PICK Q \in Queues, S \in SUBSET TCB : Consistent(Q, S) BY DEF Inv, InPlace
<1>2. PICK p \in Level : activeTask \in Q[p] BY <1>1 DEF Consistent
<1>3. activeTask \in TCB /\ state[activeTask] = "READY"
  BY <1>1, <1>2 DEF Consistent, Queues
<1>4. ~Nowhere(activeTask, Q, S) BY <1>2 DEF Nowhere
<1> QED BY <1>1, <1>3, <1>4, UnlinkedIsNowhere DEF Linked

\* The thread that executes is linked in its ready queue, so that osDelay and
\* taskExitHandler may take it out of there without looking.
THEOREM RunningTaskIsReady == Spec => []RunningIsReady
BY Invariance, InvRunning, PTL

\* No fault so far, and none ahead where priorities are levels.
Safe ==
  /\ Inv /\ ~lists.fault
  /\ \A t \in TCB : staticPriority[t] \in Level

LEMMA SafeInit == Init => Safe
BY InitType, InitInPlace, IdleIsALevel DEF Safe, Inv, Init, osInit

LEMMA SafeStep ==
  ASSUME "killUnlinked" \notin Calls, Priorities \subseteq Level
  PROVE  Safe /\ [Next]_vars => Safe'
<1> SUFFICES ASSUME Safe, [Next]_vars PROVE Safe' OBVIOUS
<1>1. Allowed BY DEF Allowed, Safe
<1>2. Inv' /\ lists'.fault = lists.fault BY <1>1, NextKeeps DEF Safe
<1>3. ASSUME NEW t \in TCB PROVE staticPriority'[t] \in Level
  <2>1. ASSUME NEW u \in Task, NEW p \in Priorities, osInitTask(u, p)
        PROVE  staticPriority'[t] \in Level
    BY <2>1 DEF osInitTask, Safe, Inv, TypeOK
  <2>2. ASSUME ~\E u \in Task, p \in Priorities : osInitTask(u, p)
        PROVE  staticPriority' = staticPriority
    BY <2>2 DEF Next, ThreadStep, Exceptions, osStart, SysTick_Handler, PendSV_Handler,
                WakeExpired, Dispatch, osStartTask, osKillTask, osDelay, osYield,
                taskExitHandler, tasks, vars
  <2> QED BY <2>1, <2>2 DEF Safe
<1> QED BY <1>2, <1>3 DEF Safe

\* Where every priority has a queue and only linked or sleeping tasks are
\* killed, no helper follows a NULL pointer and there is always a task to run
\* (switchContext). Neither osKillTask (line 110) nor the check in osStartTask
\* (line 171) makes sure of the premises.
THEOREM NoFaults ==
  ASSUME "killUnlinked" \notin Calls, Priorities \subseteq Level
  PROVE  Spec => []NeverFaults
<1>1. Safe => NeverFaults BY DEF Safe, NeverFaults, Inv, InPlace, Consistent
<1> QED BY <1>1, SafeInit, SafeStep, PTL DEF Spec

----------------------------------------------------------------------------
(* Which task runs.                                                        *)

\* Ageing keeps the bounds: REALTIME never waits, the others saturate.
LEMMA PriorityStep == PriorityInv /\ [Next]_vars => PriorityInv'
<1> SUFFICES ASSUME PriorityInv, [Next]_vars PROVE PriorityInv' OBVIOUS
<1>1. CASE UNCHANGED dynamicPriority BY <1>1 DEF PriorityInv
<1>2. CASE Dispatch BY <1>2, DispatchPriority
<1>3. CASE Next /\ ~Dispatch
  BY <1>1, <1>3 DEF Next, ThreadStep, Exceptions, osStart, SysTick_Handler,
                    PendSV_Handler, WakeExpired, osInitTask, osStartTask, osKillTask,
                    osDelay, osYield, taskExitHandler, kernel
<1> QED BY <1>1, <1>2, <1>3 DEF vars

LEMMA PriorityInit == Init => PriorityInv
BY BootPriority DEF Init

\* Whatever the bases of the levels are, within the assumption made of them,
\* the sum schedule() takes never leaves its width and REALTIME stays on top.
THEOREM PriorityBounded == Spec => []DynamicPriorityBounded
<1>1. PriorityInv => DynamicPriorityBounded BY DEF PriorityInv, DynamicPriorityBounded
<1> QED BY <1>1, PriorityInit, PriorityStep, PTL DEF Spec

\* A ready REALTIME task is always preferred, and the idle task never is.
THEOREM Strict == Spec => StrictAtBothEnds
<1> DEFINE Preferred ==
      Leaves => /\ REALTIME \in NonEmpty => staticPriority[activeTask'] = REALTIME
                /\ NonEmpty # {IDLE} => staticPriority[activeTask'] # IDLE
<1>1. Inv /\ PriorityInv /\ [Next]_vars => [Preferred]_vars
  <2> SUFFICES ASSUME Inv, PriorityInv, Next, Leaves
               PROVE  /\ REALTIME \in NonEmpty => staticPriority[activeTask'] = REALTIME
                      /\ NonEmpty # {IDLE} => staticPriority[activeTask'] # IDLE
    OBVIOUS
  <2>1. Dispatch
    BY DEF Leaves, Next, ThreadStep, Exceptions, osStart, SysTick_Handler,
           PendSV_Handler, WakeExpired, osInitTask, osStartTask, osKillTask, osDelay,
           osYield, taskExitHandler, InTask, InThread, kernel
  <2>2. PICK Q \in Queues, S \in SUBSET TCB : Consistent(Q, S) BY DEF Inv, InPlace
  <2>3. IDLE \in NonEmpty
    BY <2>2, InRing, IdleIsALevel DEF NonEmpty, Consistent
  <2>4. PICK p \in NonEmpty : IsActiveQueue(p) /\ activeTask' = lists.iter[p]
    BY <2>1, <2>3 DEF Dispatch
  <2>5. p \in Level /\ lists.iter[p] \in Q[p] BY <2>2, InRing DEF NonEmpty, Consistent
  <2>6. staticPriority[activeTask'] = p BY <2>2, <2>4, <2>5 DEF Consistent
  <2> QED BY <2>4, <2>5, <2>6, ActiveQueue
<1> QED BY <1>1, Invariance, PriorityInit, PriorityStep, PTL DEF Spec, StrictAtBothEnds

\* A task has the priority of the idle task or one that the application gave
\* it, so where it gives none of them REALTIME that level stays empty.
GivenPriorities == \A t \in TCB : staticPriority[t] \in Priorities \cup {IDLE}

LEMMA GivenInit == Init => GivenPriorities
BY DEF Init, osInit, GivenPriorities

LEMMA GivenStep == TypeOK /\ GivenPriorities /\ [Next]_vars => GivenPriorities'
<1> SUFFICES ASSUME TypeOK, GivenPriorities, [Next]_vars PROVE GivenPriorities' OBVIOUS
<1>1. ASSUME NEW u \in Task, NEW p \in Priorities, osInitTask(u, p) PROVE GivenPriorities'
  BY <1>1 DEF osInitTask, GivenPriorities, TypeOK
<1>2. ASSUME ~\E u \in Task, p \in Priorities : osInitTask(u, p) PROVE GivenPriorities'
  BY <1>2 DEF GivenPriorities, Next, ThreadStep, Exceptions, osStart, SysTick_Handler,
              PendSV_Handler, WakeExpired, Dispatch, osStartTask, osKillTask, osDelay, osYield,
              taskExitHandler, tasks, vars
<1> QED BY <1>1, <1>2

LEMMA NoRealtimeTask ==
  ASSUME Inv, GivenPriorities, REALTIME \notin Priorities
  PROVE  REALTIME \notin NonEmpty
<1>1. REALTIME \in Level /\ REALTIME # IDLE BY Levels
<1>2. \A t \in TCB : staticPriority[t] # REALTIME BY <1>1 DEF GivenPriorities
<1>3. lists.iter[REALTIME] = NULL BY <1>1, <1>2, InvLinks DEF LinksOK, IteratorsValid
<1> QED BY <1>3 DEF NonEmpty

\* LOW has been passed over l times, MEDIUM m times and HIGH h times: what
\* that allows.  Each bound alone is not preserved; it takes the others to say
\* how soon a level overtakes those above it.
WithinReach(l, m, h) ==
  /\ l <= 5 /\ m <= 3 /\ h <= 1
  /\ l >= 2 => m <= 1
  /\ h = 1 => (m = 0 /\ l <= 4) \/ (l = 0 /\ m <= 2)

AgingInv ==
  \E l, m, h \in Nat :
    /\ WithinReach(l, m, h)
    /\ dynamicPriority[1] = l + 1 /\ dynamicPriority[2] = 2 * (m + 1)
    /\ dynamicPriority[3] = 3 * (h + 1)

\* The base priorities of the code, and a limit that is out of reach of them.
CodeBase ==
  /\ taskBaseDynPriority[1] = 1 /\ taskBaseDynPriority[2] = 2 /\ taskBaseDynPriority[3] = 3
  /\ TASK_DYN_PRIO_LIMIT >= 8

\* A level that waits has been passed over once more; the others start again.
LEMMA AgingTurn ==
  ASSUME CodeBase, PriorityInv, AgingInv, REALTIME \notin NonEmpty,
         NEW a \in NonEmpty, IsActiveQueue(a), UpdateDynamicPriority(a)
  PROVE  AgingInv'
<1>1. PICK l, m, h \in Nat :
        /\ WithinReach(l, m, h)
        /\ dynamicPriority[1] = l + 1 /\ dynamicPriority[2] = 2 * (m + 1)
        /\ dynamicPriority[3] = 3 * (h + 1)
  BY DEF AgingInv
<1>2. a \in Level /\ a # REALTIME /\ IDLE \in Level /\ 1 \in Level /\ 2 \in Level /\ 3 \in Level
  BY DEF NonEmpty, Level, TASK_PRIORITY_LVL_NUM, IDLE
<1>3. a = 0 \/ a = 1 \/ a = 2 \/ a = 3
  BY <1>2 DEF Level, TASK_PRIORITY_LVL_NUM, REALTIME
<1>4. dynamicPriority[0] = 0 BY DEF PriorityInv, IDLE
<1> DEFINE l2 == IF a # 1 /\ 1 \in NonEmpty THEN l + 1 ELSE 0
           m2 == IF a # 2 /\ 2 \in NonEmpty THEN m + 1 ELSE 0
           h2 == IF a # 3 /\ 3 \in NonEmpty THEN h + 1 ELSE 0
<1>5. l2 \in Nat /\ m2 \in Nat /\ h2 \in Nat OBVIOUS
<1>6. WithinReach(l2, m2, h2)
  <2>1. \A q \in NonEmpty : \/ dynamicPriority[q] < dynamicPriority[a]
                            \/ dynamicPriority[q] = dynamicPriority[a] /\ q <= a
    BY DEF IsActiveQueue
  <2>2. CASE a = 0
    <3>1. 1 \notin NonEmpty /\ 2 \notin NonEmpty /\ 3 \notin NonEmpty
      BY <1>1, <1>4, <2>1, <2>2
    <3> QED BY <3>1 DEF WithinReach
  <2>3. CASE a = 1
    <3>1. /\ 2 \in NonEmpty => 2 * (m + 1) < l + 1
          /\ 3 \in NonEmpty => 3 * (h + 1) < l + 1
      BY <1>1, <2>1, <2>3
    <3> QED BY <1>1, <2>3, <3>1 DEF WithinReach
  <2>4. CASE a = 2
    <3>1. /\ 1 \in NonEmpty => l + 1 <= 2 * (m + 1)
          /\ 3 \in NonEmpty => 3 * (h + 1) < 2 * (m + 1)
      BY <1>1, <2>1, <2>4
    <3> QED BY <1>1, <2>4, <3>1 DEF WithinReach
  <2>5. CASE a = 3
    <3>1. /\ 1 \in NonEmpty => l + 1 <= 3 * (h + 1)
          /\ 2 \in NonEmpty => 2 * (m + 1) <= 3 * (h + 1)
      BY <1>1, <2>1, <2>5
    <3> QED BY <1>1, <2>5, <3>1 DEF WithinReach
  <2> QED BY <1>3, <2>2, <2>3, <2>4, <2>5
<1>7. /\ dynamicPriority'[1] = l2 + 1 /\ dynamicPriority'[2] = 2 * (m2 + 1)
      /\ dynamicPriority'[3] = 3 * (h2 + 1)
  <2>1. l2 <= 5 /\ m2 <= 3 /\ h2 <= 1 BY <1>6 DEF WithinReach
  <2> QED BY <1>1, <1>2, <2>1, DynPriorityAssumption
          DEF UpdateDynamicPriority, Saturated, CodeBase
<1> QED BY <1>5, <1>6, <1>7 DEF AgingInv

LEMMA AgingStep ==
  ASSUME CodeBase, REALTIME \notin Priorities
  PROVE  Inv /\ GivenPriorities /\ PriorityInv /\ AgingInv /\ [Next]_vars => AgingInv'
<1> SUFFICES ASSUME Inv, GivenPriorities, PriorityInv, AgingInv, [Next]_vars
             PROVE  AgingInv'
  OBVIOUS
<1>1. CASE UNCHANGED dynamicPriority BY <1>1 DEF AgingInv
<1>2. CASE Dispatch
  BY <1>1, <1>2, AgingTurn, NoRealtimeTask DEF Dispatch
<1>3. CASE Next /\ ~Dispatch
  BY <1>1, <1>3 DEF Next, ThreadStep, Exceptions, osStart, SysTick_Handler,
                    PendSV_Handler, WakeExpired, osInitTask, osStartTask, osKillTask,
                    osDelay, osYield, taskExitHandler, kernel
<1> QED BY <1>1, <1>2, <1>3 DEF vars

LEMMA AgingInit == CodeBase /\ Init => AgingInv
<1> SUFFICES ASSUME CodeBase, Init PROVE AgingInv OBVIOUS
<1>1. WithinReach(0, 0, 0) BY DEF WithinReach
<1>2. /\ dynamicPriority[1] = 0 + 1 /\ dynamicPriority[2] = 2 * (0 + 1)
      /\ dynamicPriority[3] = 3 * (0 + 1)
  BY DEF Init, osInit, CodeBase
<1> QED BY <1>1, <1>2 DEF AgingInv

LEMMA AgingInvBounds ==
  ASSUME CodeBase, AgingInv PROVE AgingBounded
<1>1. PICK l, m, h \in Nat :
        /\ WithinReach(l, m, h)
        /\ dynamicPriority[1] = l + 1 /\ dynamicPriority[2] = 2 * (m + 1)
        /\ dynamicPriority[3] = 3 * (h + 1)
  BY DEF AgingInv
<1>2. (l + 1 - 1) \div 1 <= 5 /\ (2 * (m + 1) - 2) \div 2 <= 5 /\ (3 * (h + 1) - 3) \div 3 <= 5
  BY <1>1 DEF WithinReach
<1>3. PassedOver(1) <= 5 /\ PassedOver(2) <= 5 /\ PassedOver(3) <= 5
  BY <1>1, <1>2 DEF PassedOver, CodeBase
<1>4. \A p \in Level \ {IDLE, REALTIME} : p = 1 \/ p = 2 \/ p = 3
  BY DEF Level, TASK_PRIORITY_LVL_NUM, IDLE, REALTIME
<1> QED BY <1>3, <1>4 DEF AgingBounded

\* With the base priorities of the code, and no REALTIME task, no level is
\* passed over more than five times while it waits, however many tasks there
\* are, whenever they sleep, start or end (schedule).
THEOREM PassedOverAtMostFiveTimes ==
  ASSUME CodeBase
  PROVE  Spec => []AgingBounded
<1>1. CASE REALTIME \in Priorities
  <2>1. AgingBounded BY <1>1 DEF AgingBounded
  <2> QED BY <2>1, PTL
<1>2. CASE REALTIME \notin Priorities
  <2>1. Inv => TypeOK BY DEF Inv
  <2>2. AgingInv => AgingBounded BY AgingInvBounds
  <2>3. Inv /\ GivenPriorities /\ PriorityInv /\ AgingInv /\ [Next]_vars => AgingInv'
    BY <1>2, AgingStep
  <2>4. Init => AgingInv BY AgingInit
  <2> QED BY <2>1, <2>2, <2>3, <2>4, Invariance, GivenInit, GivenStep, PriorityInit,
             PriorityStep, PTL DEF Spec
<1> QED BY <1>1, <1>2

----------------------------------------------------------------------------
(* Time.                                                                   *)

\* The sign of the difference says whether a time lies in the past, also
\* across the wrap of the time base.
LEMMA AfterIsPast ==
  ASSUME NEW a \in Time, NEW b \in Time
  PROVE  TIME_A_AFTER_B(a, b) <=> (a + TimeMod - b) % TimeMod \in 1 .. TimeMod \div 2
<1> DEFINE H == TimeMod \div 2
<1>1. /\ TimeMod \in Nat /\ H \in Nat /\ TimeMod = 2 * H /\ H > 0
      /\ a \in Nat /\ b \in Nat /\ a < TimeMod /\ b < TimeMod
  BY TimeAssumption DEF Time
<1>2. (b + TimeMod) - a \in 0 .. 2 * TimeMod - 1 /\ (a + TimeMod) - b \in 0 .. 2 * TimeMod - 1
  BY <1>1
<1>3. ((b + TimeMod) - a) % TimeMod =
        IF (b + TimeMod) - a < TimeMod THEN (b + TimeMod) - a ELSE ((b + TimeMod) - a) - TimeMod
  BY <1>2, RemainderOnce, TimeAssumption, Zenon
<1>4. ((a + TimeMod) - b) % TimeMod =
        IF (a + TimeMod) - b < TimeMod THEN (a + TimeMod) - b ELSE ((a + TimeMod) - b) - TimeMod
  BY <1>2, RemainderOnce, TimeAssumption, Zenon
<1> QED BY <1>1, <1>3, <1>4 DEF TIME_A_AFTER_B

----------------------------------------------------------------------------
(* The walk.                                                               *)

Sleeping == {t \in TCB : Linked(t) /\ state[t] = "DELAYED"}

\* A is what lies ahead of a walk along next that has come to c: with a task
\* the one after it, and the one before it unless it is c.
Ahead(L, S, c, A) ==
  /\ A \subseteq S
  /\ IF c = NULL THEN A = {} ELSE c \in A
  /\ \A u \in A : L.prev[u] \in A <=> u # c
  /\ \A u \in A : L.next[u] # NULL => L.next[u] \in A

\* Nobody the walk has passed is due, and nobody at all while a thread runs.
OnTime ==
  /\ cpu = "schedule" => \E A \in SUBSET Sleeping :
        /\ Ahead(lists, Sleeping, cursor, A)
        /\ \A t \in Sleeping : Expired(t) => t \in A
  /\ cpu = "main" \/ (cpu = "thread" /\ ~pendsv) => \A t \in Sleeping : ~Expired(t)

\* The tasks asleep are the members of the delayed list.
LEMMA SleepingIsTheList ==
  ASSUME NEW Q, NEW S \in SUBSET TCB, Consistent(Q, S)
  PROVE  S = Sleeping
<1>1. ASSUME NEW t \in S PROVE t \in Sleeping
  BY <1>1, UnlinkedIsNowhere DEF Consistent, Sleeping, Linked, Nowhere
<1>2. ASSUME NEW t \in Sleeping PROVE t \in S
  <2>1. t \in TCB /\ Linked(t) /\ state[t] = "DELAYED" BY DEF Sleeping
  <2>2. \A p \in Level : t \notin Q[p] BY <2>1 DEF Consistent
  <2> QED BY <2>1, <2>2, UnlinkedIsNowhere DEF Linked, Nowhere
<1> QED BY <1>1, <1>2

\* In words of Overdue.
LEMMA OverdueIsExpired ==
  ASSUME TypeOK, NEW t \in TCB
  PROVE  Overdue(t) <=> t \in Sleeping /\ Expired(t)
<1>1. timestamp \in Time /\ nextExecTimeUs[t] \in Time BY DEF TypeOK
<1>2. Expired(t) <=>
        (timestamp + TimeMod - nextExecTimeUs[t]) % TimeMod \in 1 .. TimeMod \div 2
  BY <1>1, AfterIsPast DEF Expired
<1> QED BY <1>2 DEF Overdue, Sleeping

\* When the walk goes on from c, all that lay ahead but c still does; behind
\* the last task nothing did.
LEMMA WalkGoesOn ==
  ASSUME NEW L, NEW Q, NEW S \in SUBSET TCB, WellFormed(L, Q, S),
         NEW c \in S, NEW A, Ahead(L, S, c, A)
  PROVE  Ahead(L, S, L.next[c], Left(A, c))
<1>1. PICK r \in Ranks : InOrder(L, Q, S, r) BY DEF WellFormed
<1>2. ListOrder(L.next, L.prev, S, L.head, L.tail, r) BY <1>1 DEF InOrder
<1>3. NULL \notin S /\ c # NULL /\ L.next[c] # c
  BY InList, TasksAreNotNull DEF TCB
<1>4. A \subseteq S /\ c \in A BY <1>3 DEF Ahead
<1>5. CASE L.next[c] = NULL
  <2>1. ASSUME A # {c} PROVE FALSE
    <3> DEFINE B == A \ {c}
    <3>1. B # {} /\ B \in SUBSET TCB BY <1>4, <2>1
    <3>2. PICK u \in B : \A v \in B : r[u] <= r[v] BY <3>1, FirstRanked
    <3>3. L.prev[u] \in A /\ L.prev[u] # NULL /\ L.next[L.prev[u]] = u
      BY <1>2, <1>3, <1>4 DEF Ahead, ListOrder
    <3>4. L.prev[u] # c BY <1>3, <1>4, <1>5, <3>3
    <3>5. L.prev[u] \in B BY <3>3, <3>4
    <3>6. r[L.prev[u]] < r[u] BY <1>2, <1>3, <1>4, <3>3 DEF ListOrder
    <3>7. r[u] \in Nat /\ r[L.prev[u]] \in Nat BY <3>1, <3>5 DEF Ranks
    <3> QED BY <3>2, <3>5, <3>6, <3>7
  <2> QED BY <1>5, <2>1 DEF Ahead, Left
<1>6. CASE L.next[c] # NULL
  <2>1. L.next[c] \in A /\ L.prev[L.next[c]] = c BY <1>2, <1>4, <1>6 DEF Ahead, ListOrder
  <2>2. ASSUME NEW u \in A, u # c, u # L.next[c] PROVE L.prev[u] \in A /\ L.prev[u] # c
    BY <1>2, <1>3, <1>4, <2>2 DEF Ahead, ListOrder
  <2>3. ASSUME NEW u \in A, u # c, L.next[u] # NULL PROVE L.next[u] \in A /\ L.next[u] # c
    <3>1. L.next[u] \in A /\ L.prev[L.next[u]] = u
      BY <1>2, <1>4, <2>3 DEF Ahead, ListOrder
    <3>2. L.prev[c] \notin A BY <1>4 DEF Ahead
    <3> QED BY <2>3, <3>1, <3>2
  <2> QED BY <1>3, <1>4, <1>6, <2>1, <2>2, <2>3 DEF Ahead, Left
<1> QED BY <1>5, <1>6

\* Nothing ahead of the walk changes if its links do not.
LEMMA AheadFrame ==
  ASSUME NEW L, NEW N, NEW S, NEW T, NEW c, NEW A, Ahead(L, S, c, A), A \subseteq T,
         \A u \in A : N.next[u] = L.next[u] /\ N.prev[u] = L.prev[u]
  PROVE  Ahead(N, T, c, A)
BY DEF Ahead

\* Unlinking the task the walk is on disturbs only what it has passed: next was
\* read before.
LEMMA WalkOutlivesRemoval ==
  ASSUME NEW L, NEW Q, NEW S \in SUBSET TCB, WellFormed(L, Q, S),
         NEW c \in S, NEW A, Ahead(L, S, c, A),
         NEW N, N = _listRemoveTask(L, c)
  PROVE  Ahead(N, Left(S, c), L.next[c], Left(A, c))
<1>1. L \in ListRecord /\ c \in TCB /\ c # NULL
  BY TasksAreNotNull DEF WellFormed, TCB
<1>2. TakenOut(L.next, L.prev, N.next, N.prev, c)
  <2>1. N.next = Without(L, c).next /\ N.prev = Without(L, c).prev
    <3>1. Without(L, c) \in ListRecord BY <1>1, WithoutFields
    <3> QED BY <3>1 DEF _listRemoveTask, ListRecord
  <2> QED BY <1>1, <2>1, WithoutFields
<1>3. Ahead(L, S, L.next[c], Left(A, c)) BY WalkGoesOn
<1>4. A \subseteq TCB /\ L.prev[c] \notin A /\ Left(A, c) = A \ {c}
  BY <1>1 DEF Ahead, Left
<1>5. \A u \in Left(A, c) :
        /\ N.next[u] = L.next[u]
        /\ N.prev[u] = IF u = L.next[c] THEN L.prev[c] ELSE L.prev[u]
  BY <1>2, <1>4 DEF TakenOut
<1>6. Left(A, c) \subseteq Left(S, c) BY DEF Ahead, Left
<1> QED BY <1>3, <1>4, <1>5, <1>6 DEF Ahead

\* Linking a task into a ring leaves alone what is not in it.
LEMMA PushFrame ==
  ASSUME NEW L, NEW Q, NEW S, WellFormed(L, Q, S), NEW p \in Level, NEW t \in TCB,
         NEW N, N = _readyQueuePushTask(L, p, t)
  PROVE  /\ N.head = L.head /\ N.tail = L.tail
         /\ \A u \in TCB : u # t /\ u \notin Q[p] =>
              N.next[u] = L.next[u] /\ N.prev[u] = L.prev[u]
<1> DEFINE i == L.iter[p]
<1>1. L \in ListRecord BY DEF WellFormed
<1>2. CASE i = NULL
  BY <1>1, <1>2 DEF _readyQueuePushTask, ListRecord
<1>3. CASE i # NULL
  <2>1. i \in Q[p] /\ i \in TCB /\ L.prev[i] \in Q[p] /\ L.prev[i] \in TCB
    BY <1>3, InRing
  <2>2. L.prev[i] # NULL BY <2>1, TasksAreNotNull DEF TCB
  <2>3. N = Between(L, L.prev[i], t, i)
    BY <1>3, <2>2 DEF _readyQueuePushTask
  <2>4. i \in Pointer /\ L.prev[i] \in Pointer BY <2>1 DEF Pointer
  <2>5. /\ N.head = L.head /\ N.tail = L.tail
        /\ Inserted(L.next, L.prev, N.next, N.prev, L.prev[i], t, i)
    BY <1>1, <2>3, <2>4, BetweenFields
  <2> QED BY <2>1, <2>5 DEF Inserted
<1> QED BY <1>2, <1>3

\* A task that is woken leaves the others asleep, and the walk where it was.
LEMMA WakeKeepsTheWalk ==
  ASSUME Inv, cursor \in Sleeping, Wake(cursor), UNCHANGED staticPriority,
         NEW A, Ahead(lists, Sleeping, cursor, A)
  PROVE  /\ Sleeping' = Left(Sleeping, cursor)
         /\ Ahead(lists', Left(Sleeping, cursor), lists.next[cursor], Left(A, cursor))
<1> DEFINE c == cursor
           N == _listRemoveTask(lists, c)
<1>1. PICK Q \in Queues, S \in SUBSET TCB : Consistent(Q, S) BY DEF Inv, InPlace
<1>2. S = Sleeping /\ c \in S /\ c \in TCB BY <1>1, SleepingIsTheList
<1>3. PICK p \in Level : p = staticPriority[c] BY <1>1, <1>2 DEF Consistent
<1>4. PICK T \in SUBSET TCB : T = Left(S, c) BY DEF Left
<1>5. WellFormed(lists, Q, S) BY <1>1 DEF Consistent
<1>6. WellFormed(N, Q, T) BY <1>2, <1>4, <1>5, ListRemoveWellFormed
<1>7. Ahead(N, T, lists.next[c], Left(A, c))
  BY <1>2, <1>4, <1>5, WalkOutlivesRemoval
<1>8. lists' = _readyQueuePushTask(N, p, c) BY <1>3 DEF Wake
<1> HIDE DEF N
<1>9. /\ lists'.head = N.head /\ lists'.tail = N.tail
      /\ \A u \in TCB : u # c /\ u \notin Q[p] =>
           lists'.next[u] = N.next[u] /\ lists'.prev[u] = N.prev[u]
  BY <1>2, <1>6, <1>8, PushFrame
<1>10. /\ state'[c] = "READY"
       /\ \A u \in TCB : u # c => state'[u] = state[u]
  BY <1>2 DEF Wake, Inv, TypeOK
<1>11. /\ \A q \in Level : \A u \in Q[q] : state[u] # "DELAYED"
       /\ \A u \in T : u \in TCB /\ u # c /\ u \notin Q[p] /\ state[u] = "DELAYED"
  BY <1>1, <1>2, <1>4 DEF Consistent, Left
<1>12. \A u \in TCB : Nowhere(u, Q, T) <=> /\ N.next[u] = NULL /\ N.prev[u] = NULL
                                          /\ u \notin {N.head, N.tail}
  BY <1>6, LinkedSomewhere
<1>13. \A u \in TCB : u # c /\ u \notin Q[p] => (Linked(u)' <=> ~Nowhere(u, Q, T))
  BY <1>9, <1>12 DEF Linked, Unlinked
<1>14. ASSUME NEW u \in TCB PROVE u \in Sleeping' <=> u \in T
  <2>1. u \in Sleeping' <=> Linked(u)' /\ state'[u] = "DELAYED" BY DEF Sleeping
  <2>2. CASE u = c BY <1>10, <1>11, <2>1, <2>2
  <2>3. CASE u # c /\ u \in Q[p] BY <1>10, <1>11, <2>1, <2>3
  <2>4. CASE u # c /\ u \notin Q[p]
    <3>1. u \in T => ~Nowhere(u, Q, T) BY DEF Nowhere
    <3>2. ~Nowhere(u, Q, T) /\ state[u] = "DELAYED" => u \in T BY <1>11 DEF Nowhere
    <3> QED BY <1>10, <1>11, <1>13, <2>1, <2>4, <3>1, <3>2
  <2> QED BY <2>2, <2>3, <2>4
<1>15. Sleeping' = T
  <2>1. \A u \in Sleeping' : u \in TCB BY DEF Sleeping
  <2> QED BY <1>14, <2>1
<1>16. Left(A, c) \subseteq T BY <1>7 DEF Ahead
<1>17. Ahead(lists', T, lists.next[c], Left(A, c))
  <2>1. \A u \in Left(A, c) :
          lists'.next[u] = N.next[u] /\ lists'.prev[u] = N.prev[u]
    BY <1>9, <1>11, <1>16
  <2> QED BY <1>7, <1>16, <2>1, AheadFrame
<1> QED BY <1>2, <1>4, <1>15, <1>17

----------------------------------------------------------------------------
(* Each action.                                                            *)

\* At boot nobody is asleep.
LEMMA InitOnTime == Init => OnTime
BY DEF Init, osInit, OnTime, Sleeping

\* The walk starts at the head, with every task asleep ahead of it.
LEMMA PendSVOnTime ==
  ASSUME Inv, OnTime, PendSV_Handler
  PROVE  OnTime'
<1>1. PICK Q \in Queues, S \in SUBSET TCB : Consistent(Q, S) BY DEF Inv, InPlace
<1>2. S = Sleeping /\ WellFormed(lists, Q, S)
  BY <1>1, SleepingIsTheList DEF Consistent
<1>3. NULL \notin S BY TasksAreNotNull DEF TCB
<1>4. Ahead(lists, S, lists.head, S) BY <1>2, <1>3, InList DEF Ahead
<1>5. Sleeping' = Sleeping /\ cpu' = "schedule" /\ cursor' = lists.head /\ lists' = lists
  BY DEF PendSV_Handler, Sleeping, Linked, Unlinked, tasks
<1>6. /\ Ahead(lists', Sleeping', cursor', S)
      /\ S \in SUBSET Sleeping' /\ \A t \in Sleeping' : t \in S
  BY <1>2, <1>4, <1>5
<1> QED BY <1>5, <1>6 DEF OnTime

\* A task that is not due is passed, one that is due wakes up.
LEMMA WakeExpiredOnTime ==
  ASSUME Inv, OnTime, WakeExpired
  PROVE  OnTime'
<1>1. PICK Q \in Queues, S \in SUBSET TCB : Consistent(Q, S) BY DEF Inv, InPlace
<1>2. S = Sleeping /\ WellFormed(lists, Q, S)
  BY <1>1, SleepingIsTheList DEF Consistent
<1>3. /\ cpu = "schedule" /\ cpu' = "schedule" /\ cursor # NULL
      /\ cursor' = lists.next[cursor]
      /\ UNCHANGED <<timestamp, nextExecTimeUs, staticPriority>>
  BY DEF WakeExpired
<1>4. cursor \in S BY <1>1, <1>3 DEF Consistent
<1>5. PICK A \in SUBSET Sleeping : /\ Ahead(lists, Sleeping, cursor, A)
                                   /\ \A t \in Sleeping : Expired(t) => t \in A
  BY <1>3 DEF OnTime
<1>6. \A t : Expired(t)' <=> Expired(t) BY <1>3 DEF Expired
<1>7. SUFFICES \E B \in SUBSET Sleeping' : /\ Ahead(lists', Sleeping', cursor', B)
                                           /\ \A t \in Sleeping' : Expired(t)' => t \in B
  BY <1>3 DEF OnTime
<1>8. CASE Expired(cursor) /\ Wake(cursor)
  <2>1. /\ Sleeping' = Left(Sleeping, cursor)
        /\ Ahead(lists', Left(Sleeping, cursor), cursor', Left(A, cursor))
    BY <1>2, <1>3, <1>4, <1>5, <1>8, WakeKeepsTheWalk
  <2>2. Left(A, cursor) \in SUBSET Sleeping' BY <2>1 DEF Left
  <2>3. \A t \in Sleeping' : Expired(t)' => t \in Left(A, cursor)
    BY <1>5, <1>6, <2>1 DEF Left
  <2> QED BY <2>1, <2>2, <2>3
<1>9. CASE ~Expired(cursor) /\ UNCHANGED <<lists, state>>
  <2>1. Sleeping' = Sleeping BY <1>9 DEF Sleeping, Linked, Unlinked
  <2>2. Ahead(lists', Sleeping', cursor', Left(A, cursor))
    BY <1>2, <1>3, <1>4, <1>5, <1>9, <2>1, WalkGoesOn
  <2>3. Left(A, cursor) \in SUBSET Sleeping' BY <2>1 DEF Left
  <2>4. \A t \in Sleeping' : Expired(t)' => t \in Left(A, cursor)
    BY <1>5, <1>6, <1>9, <2>1 DEF Left
  <2> QED BY <2>2, <2>3, <2>4
<1> QED BY <1>8, <1>9 DEF WakeExpired

\* When the walk has come to the end, nobody asleep is due.
LEMMA NoneDueAtTheEnd ==
  ASSUME OnTime, cpu = "schedule", cursor = NULL
  PROVE  \A t \in Sleeping : ~Expired(t)
BY DEF OnTime, Ahead

\* Steps after which the thread goes on: they put nobody to sleep.
LEMMA ThreadGoesOn ==
  ASSUME \A t \in Sleeping : ~Expired(t), Sleeping' \subseteq Sleeping,
         UNCHANGED <<timestamp, nextExecTimeUs>>, cpu' # "schedule"
  PROVE  OnTime'
BY DEF OnTime, Expired

\* A task that is started does not sleep.
LEMMA StartTaskSleeps ==
  ASSUME Inv, NEW t \in Task, osStartTask(t)
  PROVE  Sleeping' \subseteq Sleeping
<1>1. PICK Q \in Queues, S \in SUBSET TCB : Consistent(Q, S) BY DEF Inv, InPlace
<1>2. /\ state'[t] = "READY" /\ t \in TCB
      /\ \A u \in TCB : u # t => state'[u] = state[u]
  BY DEF osStartTask, Inv, TypeOK, TCB
<1> SUFFICES ASSUME NEW u \in Sleeping' PROVE u \in Sleeping OBVIOUS
<1>3. u \in TCB /\ Linked(u)' /\ state'[u] = "DELAYED" BY DEF Sleeping
<1>4. u # t /\ state[u] = "DELAYED" BY <1>2, <1>3
<1>5. CASE staticPriority[t] \in Level
  <2>1. u \notin Q[staticPriority[t]] BY <1>1, <1>4, <1>5 DEF Consistent
  <2>2. /\ lists'.head = lists.head /\ lists'.tail = lists.tail
        /\ lists'.next[u] = lists.next[u] /\ lists'.prev[u] = lists.prev[u]
    BY <1>1, <1>2, <1>3, <1>4, <1>5, <2>1, PushFrame DEF osStartTask, Consistent
  <2> QED BY <1>3, <1>4, <2>2 DEF Sleeping, Linked, Unlinked
<1>6. CASE staticPriority[t] \notin Level
  <2>1. lists' = Faulted(lists) BY <1>6 DEF osStartTask, _readyQueuePushTask
  <2>2. /\ lists'.head = lists.head /\ lists'.tail = lists.tail
        /\ lists'.next = lists.next /\ lists'.prev = lists.prev
    BY <2>1, FaultedFields DEF Inv, TypeOK
  <2> QED BY <1>3, <1>4, <2>2 DEF Sleeping, Linked, Unlinked
<1> QED BY <1>5, <1>6

\* The switch to a task leaves the delayed list alone.
LEMMA DispatchSleeps ==
  ASSUME TypeOK, Dispatch
  PROVE  Sleeping' = Sleeping
<1>1. /\ lists'.head = lists.head /\ lists'.tail = lists.tail
      /\ lists'.next = lists.next /\ lists'.prev = lists.prev
  <2>1. CASE NonEmpty = {} BY <2>1, FaultedFields DEF Dispatch, TypeOK
  <2>2. CASE NonEmpty # {}
    <3>1. PICK p \in NonEmpty : lists' = _readyQueueIterateForwards(lists, p)
      BY <2>2 DEF Dispatch
    <3> QED BY <3>1 DEF _readyQueueIterateForwards, TypeOK, ListRecord
  <2> QED BY <2>1, <2>2
<1> QED BY <1>1 DEF Dispatch, Sleeping, Linked, Unlinked

\* Every step keeps everybody on time.
LEMMA StepOnTime == Inv /\ OnTime /\ [Next]_vars => OnTime'
<1> SUFFICES ASSUME Inv, OnTime, [Next]_vars PROVE OnTime' OBVIOUS
<1>1. CASE osStart
  <2>1. /\ \A t \in Sleeping : ~Expired(t)
        /\ UNCHANGED <<lists, state, timestamp, nextExecTimeUs, pendsv>> /\ cpu' = "thread"
    BY <1>1 DEF osStart, SVC_Handler, tasks, OnTime
  <2>2. Sleeping' = Sleeping BY <2>1 DEF Sleeping, Linked, Unlinked
  <2> QED BY <2>1, <2>2, ThreadGoesOn
<1>2. CASE SysTick_Handler
  BY <1>2 DEF SysTick_Handler, OnTime
<1>3. CASE PendSV_Handler BY <1>3, PendSVOnTime
<1>4. CASE WakeExpired BY <1>4, WakeExpiredOnTime
<1>5. CASE Dispatch
  <2>1. \A t \in Sleeping : ~Expired(t) BY <1>5, NoneDueAtTheEnd DEF Dispatch
  <2> QED BY <1>5, <2>1, DispatchSleeps, ThreadGoesOn DEF Dispatch, Inv
<1>6. ASSUME NEW t \in Task, osStartTask(t) PROVE OnTime'
  <2>1. \A u \in Sleeping : ~Expired(u)
    BY <1>6 DEF osStartTask, InThread, OnTime
  <2>2. UNCHANGED <<timestamp, nextExecTimeUs>> /\ cpu' # "schedule"
    BY <1>6 DEF osStartTask, InThread, kernel
  <2> QED BY <1>6, <2>1, <2>2, StartTaskSleeps, ThreadGoesOn
<1>7. ASSUME NEW t \in Task, NEW p \in Priorities, osInitTask(t, p) PROVE OnTime'
  <2>1. \A u \in Sleeping : ~Expired(u)
    BY <1>7 DEF osInitTask, InThread, OnTime
  <2>2. UNCHANGED <<lists, state, timestamp, nextExecTimeUs>> /\ cpu' # "schedule"
    BY <1>7 DEF osInitTask, InThread, kernel
  <2>3. Sleeping' = Sleeping BY <2>2 DEF Sleeping, Linked, Unlinked
  <2> QED BY <2>1, <2>2, <2>3, ThreadGoesOn
<1>8. ASSUME pendsv', cpu' = "thread" PROVE OnTime' BY <1>8 DEF OnTime
<1>9. CASE osYield BY <1>8, <1>9 DEF osYield, InTask, kernel
<1>10. CASE taskExitHandler BY <1>8, <1>10 DEF taskExitHandler, InTask, kernel
<1>11. ASSUME NEW t \in Task, osKillTask(t) PROVE OnTime'
  BY <1>8, <1>11 DEF osKillTask, InTask, kernel
<1>12. ASSUME NEW d \in Delays, osDelay(d) PROVE OnTime'
  BY <1>8, <1>12 DEF osDelay, InTask, kernel
<1>13. CASE UNCHANGED vars
  BY <1>13 DEF vars, OnTime, Sleeping, Linked, Unlinked, Expired
<1> QED BY <1>1, <1>2, <1>3, <1>4, <1>5, <1>6, <1>7, <1>9, <1>10, <1>11, <1>12, <1>13
        DEF Next, Exceptions, ThreadStep

\* It is an invariant of every application.
LEMMA AlwaysOnTime == Spec => [](Inv /\ OnTime)
<1>1. Init => OnTime BY InitOnTime
<1>2. Inv /\ OnTime /\ [Next]_vars => OnTime' BY StepOnTime
<1> QED BY <1>1, <1>2, Invariance, PTL DEF Spec

\* However many tasks sleep, and however the time base wraps, the walk over the
\* delayed list misses no task whose delay is over, although it unlinks tasks
\* while it goes (schedule).
THEOREM WalkMissesNobody == Spec => []NoneOverdueAtDispatch
<1>1. Inv /\ OnTime => NoneOverdueAtDispatch
  BY NoneDueAtTheEnd, OverdueIsExpired DEF Inv, NoneOverdueAtDispatch
<1> QED BY <1>1, AlwaysOnTime, PTL

\* No thread executes while somebody sleeps past the wake-up time, because the
\* tick that makes a task due, and the call that puts one to sleep, both end in
\* schedule() (SysTick_Handler, osDelay, PendSV_Handler).
THEOREM NobodyOversleeps == Spec => []OverdueOnlyWhileScheduling
<1>1. Inv /\ OnTime => OverdueOnlyWhileScheduling
  BY OverdueIsExpired DEF Inv, TypeOK, OnTime, OverdueOnlyWhileScheduling
<1> QED BY <1>1, AlwaysOnTime, PTL
==============================================================================
