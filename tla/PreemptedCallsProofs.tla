------------------------- MODULE PreemptedCallsProofs -------------------------
(***************************************************************************)
(* Proofs about PreemptedCalls, for every number of tasks and every         *)
(* workload, with ticks at HarmlessTickPoints: the calls are then as good   *)
(* as single steps.                                                        *)
(***************************************************************************)
EXTENDS PreemptedCalls, SchedulerCoreProofs

----------------------------------------------------------------------------
(* One store into the lists.                                               *)

NextSet(L, q, v) == [L EXCEPT !.next[q] = v]
PrevSet(L, q, v) == [L EXCEPT !.prev[q] = v]
IterSet(L, p, v) == [L EXCEPT !.iter[p] = v]
HeadSet(L, v) == [L EXCEPT !.head = v]
TailSet(L, v) == [L EXCEPT !.tail = v]

\* The lists are the same but for the links.
Others(N, L) == N.iter = L.iter /\ N.head = L.head /\ N.tail = L.tail /\ N.fault = L.fault

\* N is L after a store: its field has changed, and no other.
NextIs(N, L, q, v) ==
  /\ Others(N, L) /\ N.prev = L.prev
  /\ \A u \in TCB : N.next[u] = IF u = q THEN v ELSE L.next[u]

PrevIs(N, L, q, v) ==
  /\ Others(N, L) /\ N.next = L.next
  /\ \A u \in TCB : N.prev[u] = IF u = q THEN v ELSE L.prev[u]

IterIs(N, L, p, v) ==
  /\ N.next = L.next /\ N.prev = L.prev
  /\ N.head = L.head /\ N.tail = L.tail /\ N.fault = L.fault
  /\ \A q \in Level : N.iter[q] = IF q = p THEN v ELSE L.iter[q]

HeadIs(N, L, v) ==
  /\ N.next = L.next /\ N.prev = L.prev /\ N.iter = L.iter
  /\ N.head = v /\ N.tail = L.tail /\ N.fault = L.fault

TailIs(N, L, v) ==
  /\ N.next = L.next /\ N.prev = L.prev /\ N.iter = L.iter
  /\ N.head = L.head /\ N.tail = v /\ N.fault = L.fault

LEMMA NextStored ==
  ASSUME NEW L \in ListRecord, NEW q \in TCB, NEW v \in Pointer
  PROVE  NextSet(L, q, v) \in ListRecord /\ NextIs(NextSet(L, q, v), L, q, v)
BY DEF ListRecord, Others, NextSet, NextIs

LEMMA PrevStored ==
  ASSUME NEW L \in ListRecord, NEW q \in TCB, NEW v \in Pointer
  PROVE  PrevSet(L, q, v) \in ListRecord /\ PrevIs(PrevSet(L, q, v), L, q, v)
BY DEF ListRecord, Others, PrevSet, PrevIs

LEMMA IterStored ==
  ASSUME NEW L \in ListRecord, NEW p \in Level, NEW v \in Pointer
  PROVE  IterSet(L, p, v) \in ListRecord /\ IterIs(IterSet(L, p, v), L, p, v)
BY DEF ListRecord, IterSet, IterIs

LEMMA HeadStored ==
  ASSUME NEW L \in ListRecord, NEW v \in Pointer
  PROVE  HeadSet(L, v) \in ListRecord /\ HeadIs(HeadSet(L, v), L, v)
BY DEF ListRecord, HeadSet, HeadIs

LEMMA TailStored ==
  ASSUME NEW L \in ListRecord, NEW v \in Pointer
  PROVE  TailSet(L, v) \in ListRecord /\ TailIs(TailSet(L, v), L, v)
BY DEF ListRecord, TailSet, TailIs

\* Two records with the same fields are the same.
LEMMA SameRecord ==
  ASSUME NEW L \in ListRecord, NEW N \in ListRecord,
         \A u \in TCB : N.next[u] = L.next[u] /\ N.prev[u] = L.prev[u],
         \A q \in Level : N.iter[q] = L.iter[q],
         N.head = L.head, N.tail = L.tail, N.fault = L.fault
  PROVE  N = L
<1>1. N.next = L.next /\ N.prev = L.prev /\ N.iter = L.iter BY DEF ListRecord
<1> QED BY <1>1 DEF ListRecord

----------------------------------------------------------------------------
(* The lists between two statements of a helper: L before the call, c the   *)
(* locals of the call, p the level of the queue.                            *)

\* _readyQueueRemoveTask.
Collapsing(L, c) == PrevSet(L, c.next, c.prev)
Collapsed(L, c) == NextSet(Collapsing(L, c), c.prev, c.next)
Skipped(L, c, p) ==
  IF c.next = c.task THEN IterSet(L, p, NULL) ELSE IterSet(Collapsed(L, c), p, c.next)
Forgotten(L, c, p) == NextSet(Skipped(L, c, p), c.task, NULL)
Unqueued(L, c, p) == PrevSet(Forgotten(L, c, p), c.task, NULL)

\* _readyQueuePushTask, in an empty queue and in another.
Entered(L, c, p) == IterSet(L, p, c.task)
HalfAlone(L, c, p) == PrevSet(Entered(L, c, p), c.task, c.task)
Alone(L, c, p) == NextSet(HalfAlone(L, c, p), c.task, c.task)
LooksBack(L, c) == PrevSet(L, c.task, c.prev)
LooksAhead(L, c) == NextSet(LooksBack(L, c), c.task, c.next)
HalfLinked(L, c) == PrevSet(LooksAhead(L, c), c.next, c.task)
LastOfRing(L, c) == NextSet(HalfLinked(L, c), c.prev, c.task)

\* _listAddTask.
AtTail(L, u) == PrevSet(L, u, L.tail)
BeforeNone(L, u) == NextSet(AtTail(L, u), u, NULL)
BehindTail(L, u) ==
  IF L.tail = NULL THEN BeforeNone(L, u) ELSE NextSet(BeforeNone(L, u), L.tail, u)
NewTail(L, u) == TailSet(BehindTail(L, u), u)
NewHead(L, u) == HeadSet(NewTail(L, u), IF L.head = NULL THEN u ELSE L.head)

\* _listRemoveTask.
HalfCut(L, c) == PrevSet(L, c.task, NULL)
CutOff(L, c) == NextSet(HalfCut(L, c), c.task, NULL)
Bridged(L, c) == IF c.prev = NULL THEN CutOff(L, c) ELSE NextSet(CutOff(L, c), c.prev, c.next)
BridgedBack(L, c) ==
  IF c.next = NULL THEN Bridged(L, c) ELSE PrevSet(Bridged(L, c), c.next, c.prev)
HeadMoved(L, c) == HeadSet(BridgedBack(L, c), IF L.head = c.task THEN c.next ELSE L.head)
TailMoved(L, c) == TailSet(HeadMoved(L, c), IF L.tail = c.task THEN c.prev ELSE L.tail)

\* What the statements of a helper add up to is what TaskLists says.
LEMMA RemoveAddsUp ==
  ASSUME NEW L \in ListRecord, NEW c, NEW p \in Level, NEW t \in TCB, c.task = t,
         c.next = L.next[t], c.prev = L.prev[t],
         c.next \in TCB, c.prev \in TCB, c.next = t <=> c.prev = t
  PROVE  Unqueued(L, c, p) = _readyQueueRemoveTask(L, p, t)
<1> DEFINE W == Without(L, t)
           S == Skipped(L, c, p)
           F == Forgotten(L, c, p)
           U == Unqueued(L, c, p)
           R == _readyQueueRemoveTask(L, p, t)
           i == IF c.next = t THEN NULL ELSE c.next
<1>1. NULL \notin TCB /\ NULL \in Pointer /\ i \in Pointer BY IdleIsALevel DEF Pointer
<1>2. W \in ListRecord /\ TakenOut(L.next, L.prev, W.next, W.prev, t)
      /\ W.iter = L.iter /\ W.head = L.head /\ W.tail = L.tail /\ W.fault = L.fault
  BY WithoutFields
<1>3. R = IterSet(W, p, i) BY <1>1 DEF _readyQueueRemoveTask, IterSet
<1> HIDE DEF W
<1>4. R \in ListRecord /\ IterIs(R, W, p, i)
  <2> HIDE DEF R, i
  <2> QED BY <1>1, <1>2, <1>3, IterStored
<1>5. /\ S \in ListRecord
      /\ S.head = L.head /\ S.tail = L.tail /\ S.fault = L.fault
      /\ \A q \in Level : S.iter[q] = IF q = p THEN i ELSE L.iter[q]
      /\ \A u \in TCB : u # t => /\ S.next[u] = IF u = c.prev THEN c.next ELSE L.next[u]
                                 /\ S.prev[u] = IF u = c.next THEN c.prev ELSE L.prev[u]
  <2>1. CASE c.next = t
    <3>1. S = IterSet(L, p, NULL) BY <2>1 DEF Skipped
    <3>2. i = NULL BY <2>1
    <3> HIDE DEF S, i
    <3>3. S \in ListRecord /\ IterIs(S, L, p, NULL) BY <1>1, <3>1, IterStored
    <3> QED BY <2>1, <3>2, <3>3 DEF IterIs
  <2>2. CASE c.next # t
    <3> DEFINE A == Collapsing(L, c)
               B == Collapsed(L, c)
    <3>1. A = PrevSet(L, c.next, c.prev) BY DEF Collapsing
    <3>2. B = NextSet(A, c.prev, c.next) BY DEF Collapsed
    <3>3. S = IterSet(B, p, c.next) /\ i = c.next BY <2>2 DEF Skipped
    <3> HIDE DEF A, B, S, i
    <3>4. c.next \in Pointer /\ c.prev \in Pointer BY DEF Pointer
    <3>5. A \in ListRecord /\ PrevIs(A, L, c.next, c.prev) BY <3>1, <3>4, PrevStored
    <3>6. B \in ListRecord /\ NextIs(B, A, c.prev, c.next) BY <3>2, <3>4, <3>5, NextStored
    <3>7. S \in ListRecord /\ IterIs(S, B, p, c.next) BY <3>3, <3>4, <3>6, IterStored
    <3> QED BY <3>3, <3>5, <3>6, <3>7 DEF Others, NextIs, PrevIs, IterIs
  <2> QED BY <2>1, <2>2
<1>6. F = NextSet(S, t, NULL) /\ U = PrevSet(F, t, NULL)
  BY DEF Forgotten, Unqueued
<1> HIDE DEF S, F, U, R, i
<1>7. F \in ListRecord /\ NextIs(F, S, t, NULL) BY <1>1, <1>5, <1>6, NextStored
<1>8. U \in ListRecord /\ PrevIs(U, F, t, NULL) BY <1>1, <1>6, <1>7, PrevStored
<1>9. \A u \in TCB : U.next[u] = R.next[u] /\ U.prev[u] = R.prev[u]
  BY <1>2, <1>4, <1>5, <1>7, <1>8 DEF TakenOut, Others, NextIs, PrevIs, IterIs
<1>10. /\ \A q \in Level : U.iter[q] = R.iter[q]
       /\ U.head = R.head /\ U.tail = R.tail /\ U.fault = R.fault
  BY <1>2, <1>4, <1>5, <1>7, <1>8 DEF Others, NextIs, PrevIs, IterIs
<1>11. U = R BY <1>4, <1>8, <1>9, <1>10, SameRecord
<1> QED BY <1>11 DEF U, R

LEMMA PushAddsUpAlone ==
  ASSUME NEW L \in ListRecord, NEW c, NEW p \in Level, NEW t \in TCB, c.task = t,
         L.iter[p] = NULL
  PROVE  Alone(L, c, p) = _readyQueuePushTask(L, p, t)
<1> DEFINE A == Entered(L, c, p)
           B == HalfAlone(L, c, p)
           C == Alone(L, c, p)
           N == _readyQueuePushTask(L, p, t)
<1>1. t \in Pointer BY DEF Pointer
<1>2. /\ A = IterSet(L, p, t) /\ B = PrevSet(A, t, t)
      /\ C = NextSet(B, t, t)
  BY DEF Entered, HalfAlone, Alone
<1>3. N = [L EXCEPT !.iter[p] = t, !.prev[t] = t, !.next[t] = t] BY DEF _readyQueuePushTask
<1>4. N \in ListRecord BY PushType
<1> HIDE DEF A, B, C, N
<1>5. A \in ListRecord /\ IterIs(A, L, p, t) BY <1>1, <1>2, IterStored
<1>6. B \in ListRecord /\ PrevIs(B, A, t, t) BY <1>1, <1>2, <1>5, PrevStored
<1>7. C \in ListRecord /\ NextIs(C, B, t, t) BY <1>1, <1>2, <1>6, NextStored
<1>8. /\ \A u \in TCB : /\ N.next[u] = IF u = t THEN t ELSE L.next[u]
                        /\ N.prev[u] = IF u = t THEN t ELSE L.prev[u]
      /\ \A q \in Level : N.iter[q] = IF q = p THEN t ELSE L.iter[q]
      /\ N.head = L.head /\ N.tail = L.tail /\ N.fault = L.fault
  BY <1>3 DEF ListRecord
<1>9. C = N BY <1>4, <1>5, <1>6, <1>7, <1>8, SameRecord DEF Others, NextIs, PrevIs, IterIs
<1> QED BY <1>9 DEF C, N

LEMMA PushAddsUp ==
  ASSUME NEW L \in ListRecord, NEW c, NEW p \in Level, NEW t \in TCB, c.task = t,
         c.next = L.iter[p], c.next \in TCB, c.prev = L.prev[c.next], c.prev \in TCB,
         c.next # t, c.prev # t
  PROVE  LastOfRing(L, c) = _readyQueuePushTask(L, p, t)
<1> DEFINE A == LooksBack(L, c)
           B == LooksAhead(L, c)
           C == HalfLinked(L, c)
           D == LastOfRing(L, c)
           N == _readyQueuePushTask(L, p, t)
<1>1. t \in Pointer /\ c.next \in Pointer /\ c.prev \in Pointer /\ NULL \notin TCB
  BY IdleIsALevel DEF Pointer
<1>2. /\ A = PrevSet(L, t, c.prev) /\ B = NextSet(A, t, c.next)
      /\ C = PrevSet(B, c.next, t) /\ D = NextSet(C, c.prev, t)
  BY DEF LooksBack, LooksAhead, HalfLinked, LastOfRing
<1>3. N = Between(L, c.prev, t, c.next) BY <1>1 DEF _readyQueuePushTask
<1>4. /\ N \in ListRecord /\ Others(N, L)
      /\ Inserted(L.next, L.prev, N.next, N.prev, c.prev, t, c.next)
  <2>1. PICK a \in Pointer, b \in Pointer : a = c.prev /\ b = c.next BY <1>1
  <2> DEFINE M == Between(L, a, t, b)
  <2>2. /\ M \in ListRecord /\ Others(M, L)
        /\ Inserted(L.next, L.prev, M.next, M.prev, a, t, b)
    BY BetweenFields DEF Others
  <2>3. N = M BY <1>3, <2>1
  <2> HIDE DEF M, N
  <2> QED BY <2>1, <2>2, <2>3
<1> HIDE DEF A, B, C, D, N
<1>5. A \in ListRecord /\ PrevIs(A, L, t, c.prev) BY <1>1, <1>2, PrevStored
<1>6. B \in ListRecord /\ NextIs(B, A, t, c.next) BY <1>1, <1>2, <1>5, NextStored
<1>7. C \in ListRecord /\ PrevIs(C, B, c.next, t) BY <1>1, <1>2, <1>6, PrevStored
<1>8. D \in ListRecord /\ NextIs(D, C, c.prev, t) BY <1>1, <1>2, <1>7, NextStored
<1>9. \A u \in TCB : D.next[u] = N.next[u] /\ D.prev[u] = N.prev[u]
  BY <1>4, <1>5, <1>6, <1>7, <1>8 DEF Inserted, Others, NextIs, PrevIs
<1>10. Others(D, N) BY <1>4, <1>5, <1>6, <1>7, <1>8 DEF Others, NextIs, PrevIs
<1>11. D = N BY <1>4, <1>8, <1>9, <1>10, SameRecord DEF Others, NextIs, PrevIs
<1> QED BY <1>11 DEF D, N

LEMMA AddAddsUp ==
  ASSUME NEW L \in ListRecord, NEW t \in TCB, L.tail # t
  PROVE  /\ AtTail(L, t).tail = L.tail /\ BeforeNone(L, t).tail = L.tail
         /\ NewTail(L, t).head = L.head
         /\ NewHead(L, t) = _listAddTask(L, t)
<1> DEFINE A == AtTail(L, t)
           B == BeforeNone(L, t)
           C == BehindTail(L, t)
           D == NewTail(L, t)
           E == NewHead(L, t)
           N == _listAddTask(L, t)
           M == Between(L, L.tail, t, NULL)
           h == IF L.head = NULL THEN t ELSE L.head
<1>1. /\ t \in Pointer /\ NULL \in Pointer /\ NULL \notin TCB
      /\ L.tail \in Pointer /\ L.head \in Pointer /\ h \in Pointer
  BY IdleIsALevel DEF Pointer, ListRecord
<1>2. /\ M \in ListRecord /\ Others(M, L)
      /\ Inserted(L.next, L.prev, M.next, M.prev, L.tail, t, NULL)
  BY <1>1, BetweenFields DEF Others
<1>3. N = HeadSet(TailSet(M, t), h)
  <2>1. N = [M EXCEPT !.tail = t, !.head = IF M.head = NULL THEN t ELSE M.head]
    BY <1>2 DEF _listAddTask, ListRecord
  <2>2. M.head = L.head BY <1>2 DEF Others
  <2> QED BY <2>1, <2>2 DEF HeadSet, TailSet
<1>4. /\ A = PrevSet(L, t, L.tail) /\ B = NextSet(A, t, NULL)
      /\ C = IF L.tail = NULL THEN B ELSE NextSet(B, L.tail, t)
      /\ D = TailSet(C, t)
  BY DEF AtTail, BeforeNone, BehindTail, NewTail
<1>5. E = HeadSet(D, h) BY DEF NewHead
<1> HIDE DEF A, B, C, D, E, M, N
<1>6. A \in ListRecord /\ PrevIs(A, L, t, L.tail) BY <1>1, <1>4, PrevStored
<1>7. B \in ListRecord /\ NextIs(B, A, t, NULL) BY <1>1, <1>4, <1>6, NextStored
<1>8. C \in ListRecord /\ NextIs(C, B, L.tail, t)
  <2>1. CASE L.tail = NULL BY <1>1, <1>4, <1>7, <2>1 DEF Others, NextIs, PrevIs
  <2>2. CASE L.tail # NULL
    <3>1. L.tail \in TCB BY <1>1, <2>2 DEF Pointer
    <3>2. C = NextSet(B, L.tail, t) BY <1>4, <2>2
    <3> QED BY <1>1, <1>7, <3>1, <3>2, NextStored
  <2> QED BY <2>1, <2>2
<1>9. D \in ListRecord /\ TailIs(D, C, t) BY <1>1, <1>4, <1>8, TailStored
<1>10. PICK K : K = TailSet(M, t) OBVIOUS
<1> HIDE DEF h
<1>11. K \in ListRecord /\ TailIs(K, M, t) BY <1>1, <1>2, <1>10, TailStored
<1>12. N \in ListRecord /\ HeadIs(N, K, h) BY <1>1, <1>3, <1>10, <1>11, HeadStored
<1>13. E \in ListRecord /\ HeadIs(E, D, h) BY <1>1, <1>5, <1>9, HeadStored
<1>14. \A u \in TCB : E.next[u] = N.next[u] /\ E.prev[u] = N.prev[u]
  BY <1>1, <1>2, <1>6, <1>7, <1>8, <1>9, <1>11, <1>12, <1>13
  DEF Inserted, Others, NextIs, PrevIs, HeadIs, TailIs
<1>15. /\ \A q \in Level : E.iter[q] = N.iter[q]
       /\ E.head = N.head /\ E.tail = N.tail /\ E.fault = N.fault
  BY <1>2, <1>6, <1>7, <1>8, <1>9, <1>11, <1>12, <1>13
  DEF Others, NextIs, PrevIs, HeadIs, TailIs
<1>16. E = N BY <1>12, <1>13, <1>14, <1>15, SameRecord
<1>17. A.tail = L.tail /\ B.tail = L.tail /\ D.head = L.head
  BY <1>6, <1>7, <1>8, <1>9 DEF Others, NextIs, PrevIs, TailIs
<1> QED BY <1>16, <1>17 DEF A, B, D, E, N

LEMMA DropAddsUp ==
  ASSUME NEW L \in ListRecord, NEW c, NEW t \in TCB, c.task = t,
         c.next = L.next[t], c.prev = L.prev[t], c.next # t, c.prev # t
  PROVE  /\ BridgedBack(L, c).head = L.head /\ HeadMoved(L, c).tail = L.tail
         /\ TailMoved(L, c) = _listRemoveTask(L, t)
<1> DEFINE A == CutOff(L, c)
           B == Bridged(L, c)
           C == BridgedBack(L, c)
           D == HeadMoved(L, c)
           E == TailMoved(L, c)
           N == _listRemoveTask(L, t)
           W == Without(L, t)
           h == IF L.head = t THEN c.next ELSE L.head
           l == IF L.tail = t THEN c.prev ELSE L.tail
<1>1. /\ NULL \in Pointer /\ NULL \notin TCB
      /\ c.next \in Pointer /\ c.prev \in Pointer /\ h \in Pointer /\ l \in Pointer
  BY IdleIsALevel DEF Pointer, ListRecord
<1>2. /\ W \in ListRecord /\ Others(W, L)
      /\ TakenOut(L.next, L.prev, W.next, W.prev, t)
  BY WithoutFields DEF Others
<1>3. N = TailSet(HeadSet(W, h), l)
  <2>1. N = [W EXCEPT !.head = IF W.head = t THEN L.next[t] ELSE W.head,
                      !.tail = IF W.tail = t THEN L.prev[t] ELSE W.tail]
    BY <1>2 DEF _listRemoveTask, ListRecord
  <2>2. W.head = L.head /\ W.tail = L.tail BY <1>2 DEF Others
  <2> QED BY <2>1, <2>2 DEF HeadSet, TailSet
<1>4. /\ A = NextSet(PrevSet(L, t, NULL), t, NULL)
      /\ B = IF c.prev = NULL THEN A ELSE NextSet(A, c.prev, c.next)
      /\ C = IF c.next = NULL THEN B ELSE PrevSet(B, c.next, c.prev)
  BY DEF HalfCut, CutOff, Bridged, BridgedBack
<1>5. D = HeadSet(C, h) /\ E = TailSet(D, l)
  BY DEF HeadMoved, TailMoved
<1> HIDE DEF A, B, C, D, E, N, W
<1>6. /\ A \in ListRecord /\ Others(A, L)
      /\ \A u \in TCB : /\ A.next[u] = IF u = t THEN NULL ELSE L.next[u]
                        /\ A.prev[u] = IF u = t THEN NULL ELSE L.prev[u]
  <2>1. PICK K : K = PrevSet(L, t, NULL) OBVIOUS
  <2>2. K \in ListRecord /\ PrevIs(K, L, t, NULL)
    BY <1>1, <2>1, PrevStored
  <2>3. A \in ListRecord /\ NextIs(A, K, t, NULL)
    BY <1>1, <1>4, <2>1, <2>2, NextStored
  <2> QED BY <2>2, <2>3 DEF Others, NextIs, PrevIs, HeadIs, TailIs
<1>7. B \in ListRecord /\ NextIs(B, A, c.prev, c.next)
  <2>1. CASE c.prev = NULL BY <1>1, <1>4, <1>6, <2>1 DEF Others, NextIs, PrevIs
  <2>2. CASE c.prev # NULL
    <3>1. c.prev \in TCB BY <1>1, <2>2 DEF Pointer
    <3>2. B = NextSet(A, c.prev, c.next) BY <1>4, <2>2
    <3> QED BY <1>1, <1>6, <3>1, <3>2, NextStored
  <2> QED BY <2>1, <2>2
<1>8. C \in ListRecord /\ PrevIs(C, B, c.next, c.prev)
  <2>1. CASE c.next = NULL BY <1>1, <1>4, <1>7, <2>1 DEF Others, NextIs, PrevIs
  <2>2. CASE c.next # NULL
    <3>1. c.next \in TCB BY <1>1, <2>2 DEF Pointer
    <3>2. C = PrevSet(B, c.next, c.prev) BY <1>4, <2>2
    <3> QED BY <1>1, <1>7, <3>1, <3>2, PrevStored
  <2> QED BY <2>1, <2>2
<1>9. D \in ListRecord /\ HeadIs(D, C, h)
  <2> HIDE DEF h
  <2> QED BY <1>1, <1>5, <1>8, HeadStored
<1>10. PICK K : K = HeadSet(W, h) OBVIOUS
<1> HIDE DEF h, l
<1>11. E \in ListRecord /\ TailIs(E, D, l) BY <1>1, <1>5, <1>9, TailStored
<1>12. K \in ListRecord /\ HeadIs(K, W, h) BY <1>1, <1>2, <1>10, HeadStored
<1>13. N \in ListRecord /\ TailIs(N, K, l) BY <1>1, <1>3, <1>10, <1>12, TailStored
<1>14. \A u \in TCB : E.next[u] = N.next[u] /\ E.prev[u] = N.prev[u]
  BY <1>1, <1>2, <1>6, <1>7, <1>8, <1>9, <1>11, <1>12, <1>13
  DEF TakenOut, Others, NextIs, PrevIs, HeadIs, TailIs
<1>15. /\ \A q \in Level : E.iter[q] = N.iter[q]
       /\ E.head = N.head /\ E.tail = N.tail /\ E.fault = N.fault
  BY <1>2, <1>6, <1>7, <1>8, <1>9, <1>11, <1>12, <1>13
  DEF Others, NextIs, PrevIs, HeadIs, TailIs
<1>16. E = N BY <1>11, <1>13, <1>14, <1>15, SameRecord
<1>17. C.head = L.head /\ D.tail = L.tail
  BY <1>6, <1>7, <1>8, <1>9 DEF Others, NextIs, PrevIs, HeadIs
<1> QED BY <1>16, <1>17 DEF C, D, E, N

----------------------------------------------------------------------------
(* The inductive invariant.                                                 *)

Points ==
  {"run", "store", "unlink", "unlink_prev", "empty", "collapse", "collapse_prev", "advance",
   "clear_next", "clear_prev", "add", "add_next", "add_link", "add_tail", "add_head",
   "set_state", "push", "first", "first_prev", "first_next", "push_next", "push_prev",
   "link_prev", "link_next", "neighbor", "neighbor_prev", "drop", "drop_next", "drop_clear",
   "drop_clear_next", "drop_link", "drop_back", "drop_head", "drop_tail", "yield", "return"}

\* How far a call has come when its task is at point h: L are the lists, D the
\* lists before the call, c its locals, s and p the state and the priority of
\* the task it is about.
Untouched(L, D, c, h) ==
  /\ L = D
  /\ h \in {"run", "return"} \/ (h \in {"store", "unlink"} /\ c.op = "delay")

Known(D, c) == c.next = D.next[c.task] /\ c.prev = D.prev[c.task]

IsQueued(D, c, s) == s = "READY" /\ D.next[c.task] # NULL

Removing(L, D, c, s, p, h) ==
  /\ c.op \in {"delay", "kill"} /\ IsQueued(D, c, s)
  /\ \/ h = "unlink" /\ L = D
     \/ h = "unlink_prev" /\ L = D /\ c.next = D.next[c.task]
     \/ h = "empty" /\ L = D /\ Known(D, c) /\ c.next = c.task
     \/ h = "collapse" /\ L = D /\ Known(D, c) /\ c.next # c.task
     \/ h = "collapse_prev" /\ L = Collapsing(D, c) /\ Known(D, c) /\ c.next # c.task
     \/ h = "advance" /\ L = Collapsed(D, c) /\ Known(D, c) /\ c.next # c.task
     \/ h = "clear_next" /\ L = Skipped(D, c, p) /\ Known(D, c)
     \/ h = "clear_prev" /\ L = Forgotten(D, c, p) /\ Known(D, c)

Taken(D, c, p) == _readyQueueRemoveTask(D, p, c.task)

Adding(L, D, c, s, p, h) ==
  /\ c.op = "delay" /\ IsQueued(D, c, s)
  /\ \/ h = "add" /\ L = Taken(D, c, p)
     \/ h = "add_next" /\ L = AtTail(Taken(D, c, p), c.task)
     \/ h = "add_link" /\ L = BeforeNone(Taken(D, c, p), c.task) /\ Taken(D, c, p).tail # NULL
     \/ h = "add_tail" /\ L = BehindTail(Taken(D, c, p), c.task)
     \/ h = "add_head" /\ L = NewTail(Taken(D, c, p), c.task)
     \/ h = "set_state" /\ L = _listAddTask(Taken(D, c, p), c.task)

Pushing(L, D, c, s, p, h) ==
  /\ c.op = "start" /\ s = "READY"
  /\ D.next[c.task] = NULL /\ D.prev[c.task] = NULL /\ c.task \notin {D.head, D.tail}
  /\ h \in {"first", "first_prev", "first_next"} => D.iter[p] = NULL
  /\ h \in {"push_next", "push_prev", "link_prev", "link_next", "neighbor", "neighbor_prev"}
       => D.iter[p] # NULL
  /\ h \in {"push_prev", "link_prev", "link_next", "neighbor", "neighbor_prev"}
       => c.next = D.iter[p]
  /\ h \in {"link_prev", "link_next", "neighbor", "neighbor_prev"} => c.prev = D.prev[c.next]
  /\ \/ h \in {"push", "first", "push_next", "push_prev", "link_prev"} /\ L = D
     \/ h = "first_prev" /\ L = Entered(D, c, p)
     \/ h = "first_next" /\ L = HalfAlone(D, c, p)
     \/ h = "link_next" /\ L = LooksBack(D, c)
     \/ h = "neighbor" /\ L = LooksAhead(D, c)
     \/ h = "neighbor_prev" /\ L = HalfLinked(D, c)

Dropping(L, D, c, s, h) ==
  /\ c.op = "kill" /\ s = "DELAYED"
  /\ \/ h = "drop" /\ L = D
     \/ h = "drop_next" /\ L = D /\ c.prev = D.prev[c.task]
     \/ h = "drop_clear" /\ L = D /\ Known(D, c)
     \/ h = "drop_clear_next" /\ L = HalfCut(D, c) /\ Known(D, c)
     \/ h = "drop_link" /\ L = CutOff(D, c) /\ Known(D, c)
     \/ h = "drop_back" /\ L = Bridged(D, c) /\ Known(D, c)
     \/ h = "drop_head" /\ L = BridgedBack(D, c) /\ Known(D, c)
     \/ h = "drop_tail" /\ L = HeadMoved(D, c) /\ Known(D, c)

\* A call that has not had its effect yet, or the call was interrupted here and
\* its effect is part of D, or it has just had it.
Yielding(L, D, c, s, p, h) ==
  /\ h = "yield" /\ c.op \in {"delay", "kill"}
  /\ \/ L = D
     \/ c.op = "kill" /\ IsQueued(D, c, s) /\ L = Taken(D, c, p)
     \/ c.op = "kill" /\ s = "DELAYED" /\ L = _listRemoveTask(D, c.task)
     \/ c.op = "delay" /\ s = "DELAYED" /\ L = _listAddTask(Taken(D, c, p), c.task)

Midway(L, D, c, s, p, h) ==
  \/ Untouched(L, D, c, h)
  \/ Removing(L, D, c, s, p, h)
  \/ Adding(L, D, c, s, p, h)
  \/ Pushing(L, D, c, s, p, h)
  \/ Dropping(L, D, c, s, h)
  \/ Yielding(L, D, c, s, p, h)

\* Where a task may be when it does not execute.
Waits(t) ==
  \/ pc[t] \in {"run", "return"}
  \/ pc[t] = "yield" /\ local[t].op \in {"delay", "kill"}
  \/ pc[t] \in {"store", "unlink"} /\ local[t].op = "delay"

\* A task is in a call or not; osDelay is about the task that calls it.
Coherent(t) ==
  /\ local[t].op = "none" <=> pc[t] = "run"
  /\ local[t].op # "none" => local[t].task \in Task
  /\ local[t].op = "delay" => local[t].task = t
  /\ Waits(t) \/ (t = activeTask /\ Executing)

\* The lists are in the middle of the call of the task that executes.
InCall ==
  IF Executing
  THEN Midway(lists, settled, local[self], state[Subject], Queue, pc[self])
  ELSE lists = settled

\* osDelay has written the state, and has yet to yield.
FallingAsleep(t) ==
  Executing /\ t = self /\ pc[t] = "yield" /\ local[t].op = "delay" /\ lists # settled

\* Consistent, of the settled lists.
Settled(Q, S) ==
  /\ WellFormed(settled, Q, S)
  /\ \A p \in Level : \A t \in Q[p] : /\ state[t] = "READY" \/ FallingAsleep(t)
                                      /\ staticPriority[t] = p
  /\ \A t \in S : state[t] = "DELAYED" /\ staticPriority[t] \in Level
  /\ IdleTask \in Q[IDLE]
  /\ cpu = "schedule" => cursor \in S \cup {NULL}
  /\ cpu = "main" => activeTask = IdleTask
  /\ cpu = "thread" /\ ~pendsv => \E p \in Level : activeTask \in Q[p]
  /\ activeTask # NULL

Control ==
  /\ pc \in [Task -> Points]
  /\ \A t \in Task : Coherent(t)
  /\ ~lists.fault /\ ~settled.fault
  /\ \A t \in TCB : staticPriority[t] \in Level
  /\ pendsv => cpu = "thread"
  /\ cpu = "main" => \A t \in TCB : state[t] = "READY"

PInv ==
  /\ PTypeOK /\ Control /\ InCall /\ PriorityInv
  /\ \E Q \in Queues, S \in SUBSET TCB : Settled(Q, S)

\* Outside a call the settled lists are the lists.
LEMMA SettledIsConsistent ==
  settled = lists => \A Q, S : Settled(Q, S) <=> Consistent(Q, S)
BY DEF Settled, Consistent, FallingAsleep

LEMMA PInvIsInv == PInv /\ settled = lists => Inv
BY SettledIsConsistent DEF PInv, Inv, InPlace, PTypeOK

Locals == [op : {"none", "delay", "start", "kill"}, task : Pointer,
           next : Pointer, prev : Pointer, time : Time, delayMs : Delays \cup {0}]

\* A statement of a call that does not complete it.
LEMMA Within ==
  ASSUME PInv, Executing, pc[self] \notin {"run", "yield"},
         NEW h \in Points, h # "run",
         pc' = [pc EXCEPT ![self] = h],
         UNCHANGED <<state, staticPriority, kernel, pendsv, slept, settled>>,
         nextExecTimeUs' \in [TCB -> Time], lists' \in ListRecord, ~lists'.fault,
         local' \in [Task -> Locals],
         \A t \in Task : t # self => local'[t] = local[t],
         local'[self].op = local[self].op, local'[self].task = Subject,
         Midway(lists', settled, local'[self], state[Subject], Queue, h)
  PROVE  PInv'
<1>1. self \in Task /\ UNCHANGED <<activeTask, cpu, dynamicPriority, timestamp, cursor>>
  BY DEF Executing, self, kernel
<1>2. pc'[self] = h /\ \A t \in Task : t # self => pc'[t] = pc[t]
  BY <1>1 DEF PInv, Control
<1>3. Executing' /\ self' = self BY <1>1 DEF Executing, self
<1>4. PTypeOK'
  BY <1>1 DEF PInv, PTypeOK, TypeOK, Locals
<1>5. InCall' BY <1>2, <1>3 DEF InCall, Subject, Queue
<1>6. \A t \in Task : Coherent(t)'
  <2>1. ASSUME NEW t \in Task, t = self PROVE Coherent(t)'
    <3>1. Coherent(self) BY <1>1 DEF PInv, Control
    <3>2. pc[self] # "run" OBVIOUS
    <3> QED BY <1>1, <1>2, <1>3, <2>1, <3>1, <3>2 DEF Coherent, Subject, self
  <2>2. ASSUME NEW t \in Task, t # self PROVE Coherent(t)'
    BY <1>1, <1>2, <2>2 DEF PInv, Control, Coherent, Waits, self
  <2> QED BY <2>1, <2>2
<1>7. Control'
  BY <1>1, <1>2, <1>6 DEF PInv, Control
<1>8. PriorityInv' BY <1>1 DEF PInv, PriorityInv
<1>9. PICK Q \in Queues, S \in SUBSET TCB : Settled(Q, S) BY DEF PInv
<1>10. \A t : ~FallingAsleep(t) BY DEF FallingAsleep
<1>11. Settled(Q, S)' BY <1>1, <1>9, <1>10 DEF Settled
<1> QED BY <1>4, <1>5, <1>7, <1>8, <1>11 DEF PInv

\* The statements of a call between its first and the one that ends it.
Inner == Points \ {"run", "yield", "return"}

LEMMA InnerPoints ==
  /\ "store" \in Inner /\ "unlink" \in Inner /\ "unlink_prev" \in Inner /\ "empty" \in Inner
  /\ "collapse" \in Inner /\ "collapse_prev" \in Inner /\ "advance" \in Inner
  /\ "clear_next" \in Inner /\ "clear_prev" \in Inner
  /\ "add" \in Inner /\ "add_next" \in Inner /\ "add_link" \in Inner
  /\ "add_tail" \in Inner /\ "add_head" \in Inner /\ "set_state" \in Inner
  /\ "push" \in Inner /\ "first" \in Inner /\ "first_prev" \in Inner /\ "first_next" \in Inner
  /\ "push_next" \in Inner /\ "push_prev" \in Inner /\ "link_prev" \in Inner /\ "link_next" \in Inner
  /\ "neighbor" \in Inner /\ "neighbor_prev" \in Inner
  /\ "drop" \in Inner /\ "drop_next" \in Inner /\ "drop_clear" \in Inner
  /\ "drop_clear_next" \in Inner /\ "drop_link" \in Inner
  /\ "drop_back" \in Inner /\ "drop_head" \in Inner /\ "drop_tail" \in Inner
BY DEF Inner, Points

LEMMA InnerAreThere ==
  /\ \A h \in Inner : h \in Points /\ h \notin {"run", "yield"}
  /\ \A h \in Inner \cup {"yield"} : h \in Points /\ h \notin {"run", "return"}
BY DEF Inner, Points

\* What does not change when no call completes: all the abstract state.
Stutters == UNCHANGED <<settled, staticPriority, activeTask, cpu, pendsv>>

\* A read sets one local.
LEMMA ReadEffect ==
  ASSUME PTypeOK, self \in Task, NEW name \in {"next", "prev"}, NEW v \in Pointer,
         local' = [local EXCEPT ![self][name] = v]
  PROVE  /\ local' \in [Task -> Locals]
         /\ \A t \in Task : t # self => local'[t] = local[t]
         /\ local'[self].op = local[self].op /\ local'[self].task = Subject
         /\ local'[self].next = IF name = "next" THEN v ELSE local[self].next
         /\ local'[self].prev = IF name = "prev" THEN v ELSE local[self].prev
<1>1. local \in [Task -> Locals] BY DEF PTypeOK, Locals
<1>2. local[self] \in Locals BY <1>1
<1>3. PICK c : c = [local[self] EXCEPT ![name] = v] OBVIOUS
<1>4. CASE name = "next"
  <2>1. c = [local[self] EXCEPT !.next = v] BY <1>3, <1>4
  <2>2. /\ c \in Locals /\ c.op = local[self].op /\ c.task = local[self].task
        /\ c.next = v /\ c.prev = local[self].prev
    BY <1>2, <2>1 DEF Locals
  <2>3. local' = [local EXCEPT ![self] = c] BY <1>3
  <2> QED BY <1>1, <1>4, <2>2, <2>3 DEF Subject
<1>5. CASE name = "prev"
  <2>1. c = [local[self] EXCEPT !.prev = v] BY <1>3, <1>5
  <2>2. /\ c \in Locals /\ c.op = local[self].op /\ c.task = local[self].task
        /\ c.prev = v /\ c.next = local[self].next
    BY <1>2, <2>1 DEF Locals
  <2>3. local' = [local EXCEPT ![self] = c] BY <1>3
  <2> QED BY <1>1, <1>5, <2>2, <2>3 DEF Subject
<1> QED BY <1>4, <1>5

LEMMA ReadWithin ==
  ASSUME PInv, NEW h1 \in Inner, NEW h \in Inner \cup {"yield"},
         NEW name \in {"next", "prev"}, NEW v \in Pointer, Reads(h1, name, v, h), Settle,
         Midway(lists, settled, local'[self], state[Subject], Queue, h)
  PROVE  PInv' /\ Stutters
<1>0. /\ h1 \in Points /\ h1 \notin {"run", "yield"}
      /\ h \in Points /\ h \notin {"run", "return"}
  BY InnerAreThere, Zenon
<1>1. Executing /\ self \in Task /\ pc[self] = h1 BY DEF Reads, At, Executing, self
<1>2. /\ local' = [local EXCEPT ![self][name] = v] /\ pc' = [pc EXCEPT ![self] = h]
      /\ UNCHANGED <<vars, slept>>
  BY DEF Reads, Goto
<1>3. PTypeOK /\ pc \in [Task -> Points] BY DEF PInv, Control
<1>4. self' = self /\ pc'[self] = h /\ pendsv' = FALSE /\ pendsv = FALSE
  BY <1>1, <1>2, <1>3 DEF self, vars, Executing, PTypeOK, TypeOK
<1>5. settled' = settled BY <1>0, <1>4 DEF Settle
<1>6. /\ UNCHANGED <<state, staticPriority, kernel, pendsv>> /\ lists' = lists
      /\ nextExecTimeUs' = nextExecTimeUs /\ slept' = slept
  BY <1>2 DEF vars, kernel
<1>7. /\ nextExecTimeUs' \in [TCB -> Time] /\ lists' \in ListRecord /\ ~lists'.fault
  BY <1>3, <1>6 DEF PTypeOK, TypeOK, PInv, Control
<1>8. /\ local' \in [Task -> Locals]
      /\ \A t \in Task : t # self => local'[t] = local[t]
      /\ local'[self].op = local[self].op /\ local'[self].task = Subject
  BY <1>1, <1>2, <1>3, ReadEffect
<1>9. PInv' BY <1>0, <1>1, <1>2, <1>4, <1>5, <1>6, <1>7, <1>8, Within
<1> QED BY <1>4, <1>5, <1>6, <1>9 DEF Stutters, kernel

LEMMA WriteWithin ==
  ASSUME PInv, NEW h1 \in Inner, NEW h \in Inner \cup {"yield"},
         NEW N \in ListRecord, ~N.fault, Writes(h1, N, h), Settle,
         Midway(N, settled, local[self], state[Subject], Queue, h)
  PROVE  PInv' /\ Stutters
<1>0. /\ h1 \in Points /\ h1 \notin {"run", "yield"}
      /\ h \in Points /\ h \notin {"run", "return"}
  BY InnerAreThere, Zenon
<1>1. Executing /\ self \in Task /\ pc[self] = h1 BY DEF Writes, At, Executing, self
<1>2. /\ pc' = [pc EXCEPT ![self] = h] /\ lists' = N
      /\ UNCHANGED <<state, staticPriority, nextExecTimeUs, kernel, pendsv, local, slept>>
  BY DEF Writes, Goto
<1>3. PTypeOK /\ pc \in [Task -> Points] BY DEF PInv, Control
<1>4. self' = self /\ pc'[self] = h /\ pendsv' = FALSE /\ pendsv = FALSE
  BY <1>1, <1>2, <1>3 DEF self, kernel, Executing, PTypeOK, TypeOK
<1>5. settled' = settled BY <1>0, <1>4 DEF Settle
<1>6. /\ nextExecTimeUs' \in [TCB -> Time] /\ local \in [Task -> Locals]
  BY <1>2, <1>3 DEF PTypeOK, TypeOK, Locals
<1>7. PInv' BY <1>0, <1>1, <1>2, <1>5, <1>6, Within DEF Subject
<1> QED BY <1>2, <1>5, <1>7 DEF Stutters, kernel

\* A test stores nothing.
LEMMA TestsStoreNothing == \A h1, h : Tests(h1, h) => Writes(h1, lists, h)
BY DEF Tests, Writes, vars, kernel

\* A store through a pointer that is not NULL.
LEMMA StoreThrough ==
  ASSUME lists \in ListRecord, NEW q \in TCB, NEW v \in Pointer
  PROVE  /\ Next(q, v) = NextSet(lists, q, v) /\ Prev(q, v) = PrevSet(lists, q, v)
         /\ NextSet(lists, q, v) \in ListRecord /\ PrevSet(lists, q, v) \in ListRecord
         /\ NextSet(lists, q, v).fault = lists.fault /\ PrevSet(lists, q, v).fault = lists.fault
<1>1. q # NULL BY IdleIsALevel
<1>2. NextIs(NextSet(lists, q, v), lists, q, v) /\ NextSet(lists, q, v) \in ListRecord
  BY NextStored
<1>3. PrevIs(PrevSet(lists, q, v), lists, q, v) /\ PrevSet(lists, q, v) \in ListRecord
  BY PrevStored
<1>4. Next(q, v) = NextSet(lists, q, v) /\ Prev(q, v) = PrevSet(lists, q, v)
  BY <1>1 DEF Next, Prev, NextSet, PrevSet
<1> QED BY <1>2, <1>3, <1>4 DEF NextIs, PrevIs, Others

\* The task a call is about, and its queue.
LEMMA CallFacts ==
  ASSUME PInv, Executing, pc[self] # "run"
  PROVE  /\ self \in Task /\ Subject \in Task /\ Subject \in TCB /\ Subject \in Pointer
         /\ Queue \in Level
         /\ lists \in ListRecord /\ lists.fault = FALSE
         /\ settled \in ListRecord /\ settled.fault = FALSE
         /\ local[self].task = Subject
         /\ local[self].next \in Pointer /\ local[self].prev \in Pointer
         /\ Midway(lists, settled, local[self], state[Subject], Queue, pc[self])
<1>1. self \in Task BY DEF Executing, self
<1>2. Coherent(self) BY <1>1 DEF PInv, Control
<1>3. Subject \in Task /\ Subject \in TCB /\ Subject \in Pointer
  BY <1>2 DEF Coherent, Subject, TCB, Pointer
<1>4. Queue \in Level BY <1>3 DEF PInv, Control, Queue
<1>5. /\ lists \in ListRecord /\ settled \in ListRecord
      /\ lists.fault \in BOOLEAN /\ settled.fault \in BOOLEAN
  BY DEF PInv, PTypeOK, TypeOK, ListRecord
<1>6. local[self] \in Locals BY <1>1 DEF PInv, PTypeOK, Locals
<1>7. local[self].next \in Pointer /\ local[self].prev \in Pointer BY <1>6 DEF Locals
<1> QED BY <1>1, <1>3, <1>4, <1>5, <1>7 DEF PInv, Control, InCall, Subject

\* A task about to be unlinked is in the ring of its level.
LEMMA QueuedSubject ==
  ASSUME PInv, Executing, pc[self] # "run", state[Subject] = "READY",
         settled.next[Subject] # NULL
  PROVE  \E Q \in Queues, S \in SUBSET TCB : Settled(Q, S) /\ Subject \in Q[Queue]
<1>1. PICK Q \in Queues, S \in SUBSET TCB : Settled(Q, S) BY DEF PInv
<1>2. Subject \in TCB BY CallFacts
<1>3. ~Nowhere(Subject, Q, S) BY <1>1, <1>2, LinkedSomewhere DEF Settled
<1>4. Subject \notin S BY <1>1 DEF Settled
<1>5. PICK p \in Level : Subject \in Q[p] BY <1>2, <1>3, <1>4 DEF Nowhere
<1>6. p = Queue BY <1>1, <1>5 DEF Settled, Queue
<1> QED BY <1>1, <1>5, <1>6

\* So it has neighbours.
LEMMA RingNeighbours ==
  ASSUME PInv, Executing, pc[self] # "run", state[Subject] = "READY",
         settled.next[Subject] # NULL
  PROVE  /\ settled.next[Subject] \in TCB /\ settled.prev[Subject] \in TCB
         /\ settled.next[Subject] = Subject <=> settled.prev[Subject] = Subject
         /\ settled.tail # Subject
         /\ settled.next[Subject] \in Pointer /\ settled.prev[Subject] \in Pointer
<1>1. PICK Q \in Queues, S \in SUBSET TCB : Settled(Q, S) /\ Subject \in Q[Queue]
  BY QueuedSubject
<1>2. WellFormed(settled, Q, S) /\ Queue \in Level BY <1>1, CallFacts DEF Settled
<1>3. /\ settled.next[Subject] \in Q[Queue] /\ settled.prev[Subject] \in Q[Queue]
      /\ settled.prev[settled.next[Subject]] = Subject
      /\ settled.next[settled.prev[Subject]] = Subject
      /\ Subject \notin S
  BY <1>1, <1>2, InRing
<1>4. Q[Queue] \subseteq TCB BY <1>2 DEF Queues
<1>5. settled.tail \in S \cup {NULL} /\ Subject # NULL BY <1>2, InList, CallFacts, IdleIsALevel
<1> QED BY <1>3, <1>4, <1>5 DEF Pointer

----------------------------------------------------------------------------
(* The statements of _readyQueueRemoveTask.                                 *)

\* osDelay unlinks the task that executes, which is in its queue.
LEMMA UnlinkedIsQueued ==
  ASSUME PInv, At("unlink")
  PROVE  /\ lists = settled /\ local[self].op \in {"delay", "kill"}
         /\ IsQueued(settled, local[self], state[Subject])
<1>1. Executing /\ pc[self] = "unlink" BY DEF At
<1>2. Midway(lists, settled, local[self], state[Subject], Queue, "unlink") BY <1>1, CallFacts
<1>3. CASE Untouched(lists, settled, local[self], "unlink")
  <2>1. self \in Task /\ Coherent(self) BY <1>1 DEF Executing, self, PInv, Control
  <2>2. lists = settled /\ local[self].op = "delay" BY <1>3 DEF Untouched
  <2>3. Subject = self BY <2>1, <2>2 DEF Coherent, Subject
  <2>4. PICK Q \in Queues, S \in SUBSET TCB : Settled(Q, S) BY DEF PInv
  <2>5. PICK p \in Level : self \in Q[p] BY <1>1, <2>4 DEF Settled, Executing, self
  <2>6. state[self] = "READY" BY <1>1, <2>4, <2>5 DEF Settled, FallingAsleep
  <2>7. settled.next[self] \in Q[p] /\ Q[p] \subseteq TCB
    BY <2>4, <2>5, InRing DEF Settled, Queues
  <2> QED BY <2>2, <2>3, <2>6, <2>7, IdleIsALevel DEF IsQueued, Subject
<1>4. CASE Removing(lists, settled, local[self], state[Subject], Queue, "unlink")
  BY <1>4 DEF Removing
<1> QED BY <1>2, <1>3, <1>4 DEF Midway, Adding, Pushing, Dropping, Yielding

LEMMA ReadsNeighbours ==
  ASSUME PInv, Settle,
         \/ Reads("unlink", "next", lists.next[Subject], "unlink_prev")
         \/ Reads("unlink_prev", "prev", lists.prev[Subject],
                  IF local[self].next = Subject THEN "empty" ELSE "collapse")
  PROVE  PInv' /\ Stutters
<1>1. /\ Executing /\ pc[self] \in {"unlink", "unlink_prev"} /\ pc[self] # "run"
      /\ PTypeOK /\ self \in Task
  BY DEF Reads, At, Executing, self, PInv
<1>2. /\ Subject \in TCB /\ local[self].task = Subject
      /\ lists.next[Subject] \in Pointer /\ lists.prev[Subject] \in Pointer
  BY <1>1, CallFacts DEF ListRecord
<1>3. ASSUME Reads("unlink", "next", lists.next[Subject], "unlink_prev")
      PROVE  PInv' /\ Stutters
  <2>1. /\ lists = settled /\ local[self].op \in {"delay", "kill"}
        /\ IsQueued(settled, local[self], state[Subject])
    BY <1>3, UnlinkedIsQueued DEF Reads
  <2>2. PICK v \in Pointer : v = lists.next[Subject] BY <1>2
  <2>3. local' = [local EXCEPT ![self]["next"] = v] BY <1>3, <2>2 DEF Reads
  <2>4. /\ local'[self].op = local[self].op /\ local'[self].task = Subject
        /\ local'[self].next = v
    BY <1>1, <2>3, ReadEffect
  <2>5. Midway(lists, settled, local'[self], state[Subject], Queue, "unlink_prev")
    BY <1>2, <2>1, <2>2, <2>4 DEF Midway, Removing, IsQueued
  <2> QED BY <1>2, <1>3, <2>5, ReadWithin, InnerPoints
<1>4. ASSUME NEW h, h = IF local[self].next = Subject THEN "empty" ELSE "collapse",
             Reads("unlink_prev", "prev", lists.prev[Subject], h)
      PROVE  PInv' /\ Stutters
  <2>1. Midway(lists, settled, local[self], state[Subject], Queue, "unlink_prev")
    BY <1>1, <1>4, CallFacts DEF Reads, At
  <2>2. /\ lists = settled /\ local[self].op \in {"delay", "kill"}
        /\ IsQueued(settled, local[self], state[Subject])
        /\ local[self].next = settled.next[Subject]
    BY <1>2, <2>1 DEF Midway, Untouched, Removing, Adding, Pushing, Dropping, Yielding
  <2>3. local' = [local EXCEPT ![self]["prev"] = lists.prev[Subject]] BY <1>4 DEF Reads
  <2>4. /\ local'[self].op = local[self].op /\ local'[self].task = Subject
        /\ local'[self].next = local[self].next
        /\ local'[self].prev = lists.prev[Subject]
    BY <1>1, <1>2, <2>3, ReadEffect
  <2>5. Midway(lists, settled, local'[self], state[Subject], Queue, h)
    BY <1>2, <1>4, <2>2, <2>4 DEF Midway, Removing, IsQueued, Known
  <2>6. PICK v \in Pointer : v = lists.prev[Subject] BY <1>2
  <2>7. Reads("unlink_prev", "prev", v, h) BY <1>4, <2>6
  <2>8. h \in Inner BY <1>4, InnerPoints
  <2> QED BY <2>5, <2>7, <2>8, ReadWithin, InnerPoints
<1> QED BY <1>3, <1>4

LEMMA WritesNeighbours ==
  ASSUME PInv, Settle,
         \/ Writes("empty", Iter(NULL), "clear_next")
         \/ Writes("collapse", Prev(local[self].next, local[self].prev), "collapse_prev")
         \/ Writes("collapse_prev", Next(local[self].prev, local[self].next), "advance")
         \/ Writes("advance", Iter(AfterRemoved), "clear_next")
         \/ Writes("clear_next", Next(Subject, NULL), "clear_prev")
         \/ Writes("clear_prev", Prev(Subject, NULL),
                   IF local[self].op = "delay" THEN "add" ELSE "yield")
  PROVE  PInv' /\ Stutters
<1> DEFINE c == local[self]
           s == state[Subject]
           h == pc[self]
<1>1. /\ Executing /\ pc[self] # "run"
      /\ h \in {"empty", "collapse", "collapse_prev", "advance", "clear_next", "clear_prev"}
  BY DEF Writes, At
<1>2. /\ Subject \in TCB /\ c.task = Subject /\ Queue \in Level
      /\ lists \in ListRecord /\ lists.fault = FALSE /\ settled \in ListRecord
      /\ NULL \in Pointer /\ c.next \in Pointer
  BY <1>1, CallFacts DEF Pointer
<1>3. Removing(lists, settled, c, s, Queue, h)
  <2>1. Midway(lists, settled, c, s, Queue, h) BY <1>1, CallFacts
  <2> QED BY <1>1, <2>1 DEF Midway, Untouched, Adding, Pushing, Dropping, Yielding
<1>4. /\ c.op \in {"delay", "kill"} /\ IsQueued(settled, c, s) /\ Known(settled, c)
      /\ s = "READY" /\ settled.next[Subject] # NULL
  BY <1>1, <1>2, <1>3 DEF Removing, IsQueued
<1>5. c.next = settled.next[Subject] /\ c.prev = settled.prev[Subject]
  BY <1>2, <1>4 DEF Known
<1>6. c.next \in TCB /\ c.prev \in TCB /\ (c.next = Subject <=> c.prev = Subject)
  BY <1>1, <1>4, <1>5, RingNeighbours
<1>7. \A v \in Pointer : /\ Iter(v) = IterSet(lists, Queue, v) /\ Iter(v) \in ListRecord
                         /\ Iter(v).fault = FALSE
  <2>1. ASSUME NEW v \in Pointer
        PROVE  /\ Iter(v) = IterSet(lists, Queue, v) /\ Iter(v) \in ListRecord
               /\ Iter(v).fault = FALSE
    <3>1. Iter(v) = IterSet(lists, Queue, v) BY DEF Iter, IterSet
    <3>2. IterSet(lists, Queue, v) \in ListRecord
          /\ IterIs(IterSet(lists, Queue, v), lists, Queue, v)
      BY <1>2, IterStored
    <3> QED BY <1>2, <3>1, <3>2 DEF IterIs
  <2> QED BY <2>1
<1>8. ASSUME Writes("empty", Iter(NULL), "clear_next") PROVE PInv' /\ Stutters
  <2>1. h = "empty" BY <1>8 DEF Writes, At
  <2>2. lists = settled /\ c.next = c.task BY <1>3, <2>1 DEF Removing
  <2>3. Iter(NULL) = Skipped(settled, c, Queue) BY <1>2, <1>7, <2>2 DEF Skipped
  <2>4. Midway(Iter(NULL), settled, c, s, Queue, "clear_next")
    BY <1>4, <2>3 DEF Midway, Removing
  <2> QED BY <1>2, <1>7, <1>8, <2>4, WriteWithin, InnerPoints
<1>9. ASSUME Writes("collapse", Prev(c.next, c.prev), "collapse_prev")
      PROVE  PInv' /\ Stutters
  <2>1. h = "collapse" BY <1>9 DEF Writes, At
  <2>2. lists = settled /\ c.next # c.task BY <1>3, <2>1 DEF Removing
  <2>3. /\ Prev(c.next, c.prev) = Collapsing(settled, c)
        /\ Prev(c.next, c.prev) \in ListRecord /\ Prev(c.next, c.prev).fault = FALSE
    BY <1>2, <1>6, <2>2, StoreThrough DEF Collapsing, Pointer
  <2>4. Midway(Prev(c.next, c.prev), settled, c, s, Queue, "collapse_prev")
    BY <1>4, <2>2, <2>3 DEF Midway, Removing
  <2> QED BY <1>9, <2>3, <2>4, WriteWithin, InnerPoints
<1>10. ASSUME Writes("collapse_prev", Next(c.prev, c.next), "advance")
       PROVE  PInv' /\ Stutters
  <2>1. h = "collapse_prev" BY <1>10 DEF Writes, At
  <2>2. lists = Collapsing(settled, c) /\ c.next # c.task BY <1>3, <2>1 DEF Removing
  <2>3. /\ Next(c.prev, c.next) = Collapsed(settled, c)
        /\ Next(c.prev, c.next) \in ListRecord /\ Next(c.prev, c.next).fault = FALSE
    BY <1>2, <1>6, <2>2, StoreThrough DEF Collapsed, Pointer
  <2>4. Midway(Next(c.prev, c.next), settled, c, s, Queue, "advance")
    BY <1>4, <2>2, <2>3 DEF Midway, Removing
  <2> QED BY <1>10, <2>3, <2>4, WriteWithin, InnerPoints
<1>11. ASSUME Writes("advance", Iter(AfterRemoved), "clear_next") PROVE PInv' /\ Stutters
  <2>1. h = "advance" /\ AfterRemoved = c.next BY <1>11 DEF Writes, At, AfterRemoved
  <2>2. lists = Collapsed(settled, c) /\ c.next # c.task BY <1>3, <2>1 DEF Removing
  <2>3. Iter(AfterRemoved) = Skipped(settled, c, Queue)
    BY <1>2, <1>7, <2>1, <2>2 DEF Skipped
  <2>4. Midway(Iter(AfterRemoved), settled, c, s, Queue, "clear_next")
    BY <1>4, <2>3 DEF Midway, Removing
  <2> QED BY <1>2, <1>7, <1>11, <2>1, <2>4, WriteWithin, InnerPoints
<1>12. ASSUME Writes("clear_next", Next(Subject, NULL), "clear_prev")
       PROVE  PInv' /\ Stutters
  <2>1. h = "clear_next" BY <1>12 DEF Writes, At
  <2>2. lists = Skipped(settled, c, Queue) BY <1>3, <2>1 DEF Removing
  <2>3. /\ Next(Subject, NULL) = Forgotten(settled, c, Queue)
        /\ Next(Subject, NULL) \in ListRecord /\ Next(Subject, NULL).fault = FALSE
    BY <1>2, <2>2, StoreThrough DEF Forgotten
  <2>4. Midway(Next(Subject, NULL), settled, c, s, Queue, "clear_prev")
    BY <1>4, <2>3 DEF Midway, Removing
  <2> QED BY <1>12, <2>3, <2>4, WriteWithin, InnerPoints
<1>13. ASSUME NEW there, there = IF c.op = "delay" THEN "add" ELSE "yield",
              Writes("clear_prev", Prev(Subject, NULL), there)
       PROVE  PInv' /\ Stutters
  <2>1. h = "clear_prev" BY <1>13 DEF Writes, At
  <2>2. lists = Forgotten(settled, c, Queue) BY <1>3, <2>1 DEF Removing
  <2>3. /\ Prev(Subject, NULL) = Unqueued(settled, c, Queue)
        /\ Prev(Subject, NULL) \in ListRecord /\ Prev(Subject, NULL).fault = FALSE
    BY <1>2, <2>2, StoreThrough DEF Unqueued
  <2>4. Unqueued(settled, c, Queue) = Taken(settled, c, Queue)
    BY <1>2, <1>5, <1>6, RemoveAddsUp DEF Taken
  <2>5. Midway(Prev(Subject, NULL), settled, c, s, Queue, there)
    BY <1>4, <1>13, <2>3, <2>4 DEF Midway, Adding, Yielding
  <2> QED BY <1>13, <2>3, <2>5, WriteWithin, InnerPoints
<1> QED BY <1>8, <1>9, <1>10, <1>11, <1>12, <1>13

LEMMA RemoveKeeps ==
  ASSUME PInv, Settle, RemoveFromQueue
  PROVE  PInv' /\ Stutters
BY ReadsNeighbours, WritesNeighbours DEF RemoveFromQueue

----------------------------------------------------------------------------
(* The statements of _listAddTask.                                          *)

\* What osDelay finds when it has left its queue.
LEMMA TakenFacts ==
  ASSUME PInv, Executing, pc[self] # "run", IsQueued(settled, local[self], state[Subject]),
         NEW T, T = Taken(settled, local[self], Queue)
  PROVE  T \in ListRecord /\ T.tail # Subject /\ T.tail \in Pointer /\ T.fault = FALSE
<1>1. /\ local[self].task = Subject /\ Subject \in TCB /\ Queue \in Level
      /\ settled \in ListRecord /\ settled.fault = FALSE
  BY CallFacts
<1>2. PICK Q \in Queues, S \in SUBSET TCB : Settled(Q, S) /\ Subject \in Q[Queue]
  BY <1>1, QueuedSubject DEF IsQueued
<1>3. T = _readyQueueRemoveTask(settled, Queue, Subject) BY <1>1 DEF Taken
<1>4. WellFormed(settled, Q, S) BY <1>2 DEF Settled
<1>5. WellFormed(T, QueueLeft(Q, Queue, Subject), S) /\ T.fault = settled.fault
  BY <1>1, <1>2, <1>3, <1>4, ReadyRemoveWellFormed
<1>6. T.tail \in S \cup {NULL} BY <1>5, InList
<1>7. Subject \notin S /\ Subject # NULL BY <1>1, <1>2, <1>4, InRing, IdleIsALevel
<1> QED BY <1>1, <1>5, <1>6, <1>7 DEF WellFormed, Pointer

LEMMA AddKeeps ==
  ASSUME PInv, Settle, AddToDelayed
  PROVE  PInv' /\ Stutters
<1> DEFINE c == local[self]
           s == state[Subject]
           h == pc[self]
<1>1. /\ Executing /\ pc[self] # "run"
      /\ h \in {"add", "add_next", "add_link", "add_tail", "add_head"}
  BY DEF AddToDelayed, Writes, At
<1>2. /\ Subject \in TCB /\ c.task = Subject /\ Queue \in Level
      /\ lists \in ListRecord /\ lists.fault = FALSE /\ settled \in ListRecord
      /\ NULL \in Pointer /\ Subject \in Pointer
  BY <1>1, CallFacts DEF Pointer
<1>3. Adding(lists, settled, c, s, Queue, h)
  <2>1. Midway(lists, settled, c, s, Queue, h) BY <1>1, CallFacts
  <2> QED BY <1>1, <2>1 DEF Midway, Untouched, Removing, Pushing, Dropping, Yielding
<1>4. c.op = "delay" /\ IsQueued(settled, c, s) BY <1>3 DEF Adding
<1>5. PICK T : T = Taken(settled, c, Queue) OBVIOUS
<1>6. T \in ListRecord /\ T.tail # Subject /\ T.tail \in Pointer
  BY <1>1, <1>4, <1>5, TakenFacts
<1>7. /\ AtTail(T, Subject).tail = T.tail /\ BeforeNone(T, Subject).tail = T.tail
      /\ NewTail(T, Subject).head = T.head
      /\ NewHead(T, Subject) = _listAddTask(T, Subject)
  BY <1>2, <1>6, AddAddsUp
<1>8. ASSUME Writes("add", Prev(Subject, lists.tail), "add_next") PROVE PInv' /\ Stutters
  <2>1. h = "add" BY <1>8 DEF Writes, At
  <2>2. lists = T BY <1>3, <1>5, <2>1 DEF Adding
  <2>3. PICK N : N = Prev(Subject, lists.tail) OBVIOUS
  <2>4. /\ N = AtTail(T, Subject) /\ N \in ListRecord /\ N.fault = FALSE
    BY <1>2, <1>6, <2>2, <2>3, StoreThrough DEF AtTail
  <2>5. Midway(N, settled, c, s, Queue, "add_next")
    BY <1>2, <1>4, <1>5, <2>4 DEF Midway, Adding
  <2> QED BY <1>8, <2>3, <2>4, <2>5, WriteWithin, InnerPoints
<1>9. ASSUME NEW there, there = IF lists.tail = NULL THEN "add_tail" ELSE "add_link",
             Writes("add_next", Next(Subject, NULL), there)
      PROVE  PInv' /\ Stutters
  <2>1. h = "add_next" BY <1>9 DEF Writes, At
  <2>2. lists = AtTail(T, Subject) BY <1>2, <1>3, <1>5, <2>1 DEF Adding
  <2>3. PICK N : N = Next(Subject, NULL) OBVIOUS
  <2>4. /\ N = BeforeNone(T, Subject) /\ N \in ListRecord /\ N.fault = FALSE
    BY <1>2, <1>6, <2>2, <2>3, StoreThrough DEF BeforeNone
  <2>5. Midway(N, settled, c, s, Queue, there)
    <3>1. CASE T.tail = NULL
      <4>1. N = BehindTail(T, Subject) BY <2>4, <3>1 DEF BehindTail
      <4>2. there = "add_tail" BY <1>7, <1>9, <2>2, <3>1
      <4> QED BY <1>2, <1>4, <1>5, <4>1, <4>2 DEF Midway, Adding
    <3>2. CASE T.tail # NULL
      <4>1. there = "add_link" BY <1>7, <1>9, <2>2, <3>2
      <4> QED BY <1>2, <1>4, <1>5, <2>4, <3>2, <4>1 DEF Midway, Adding
    <3> QED BY <3>1, <3>2
  <2> QED BY <1>9, <2>3, <2>4, <2>5, WriteWithin, InnerPoints
<1>10. ASSUME Writes("add_link", Next(lists.tail, Subject), "add_tail")
       PROVE  PInv' /\ Stutters
  <2>1. h = "add_link" BY <1>10 DEF Writes, At
  <2>2. lists = BeforeNone(T, Subject) /\ T.tail # NULL
    BY <1>2, <1>3, <1>5, <2>1 DEF Adding
  <2>3. lists.tail = T.tail /\ T.tail \in TCB BY <1>6, <1>7, <2>2 DEF Pointer
  <2>4. PICK N : N = Next(lists.tail, Subject) OBVIOUS
  <2>5. /\ N = BehindTail(T, Subject) /\ N \in ListRecord /\ N.fault = FALSE
    BY <1>2, <2>2, <2>3, <2>4, StoreThrough DEF BehindTail
  <2>6. Midway(N, settled, c, s, Queue, "add_tail")
    BY <1>2, <1>4, <1>5, <2>5 DEF Midway, Adding
  <2> QED BY <1>10, <2>4, <2>5, <2>6, WriteWithin, InnerPoints
<1>11. ASSUME Writes("add_tail", [lists EXCEPT !.tail = Subject], "add_head")
       PROVE  PInv' /\ Stutters
  <2>1. h = "add_tail" BY <1>11 DEF Writes, At
  <2>2. lists = BehindTail(T, Subject) BY <1>2, <1>3, <1>5, <2>1 DEF Adding
  <2>3. PICK N : N = TailSet(lists, Subject) OBVIOUS
  <2>4. /\ N = NewTail(T, Subject) /\ N \in ListRecord /\ TailIs(N, lists, Subject)
    BY <1>2, <2>2, <2>3, TailStored DEF NewTail
  <2>5. N.fault = FALSE BY <1>2, <2>4 DEF TailIs
  <2>6. Midway(N, settled, c, s, Queue, "add_head")
    BY <1>2, <1>4, <1>5, <2>4 DEF Midway, Adding
  <2>7. Writes("add_tail", N, "add_head") BY <1>11, <2>3 DEF TailSet
  <2> QED BY <2>4, <2>5, <2>6, <2>7, WriteWithin, InnerPoints
<1>12. ASSUME Writes("add_head", [lists EXCEPT !.head = IF @ = NULL THEN Subject ELSE @],
                     "set_state")
       PROVE  PInv' /\ Stutters
  <2>1. h = "add_head" BY <1>12 DEF Writes, At
  <2>2. lists = NewTail(T, Subject) BY <1>2, <1>3, <1>5, <2>1 DEF Adding
  <2>3. PICK i \in Pointer : i = IF lists.head = NULL THEN Subject ELSE lists.head
    BY <1>2 DEF ListRecord
  <2>4. PICK N : N = HeadSet(lists, i) OBVIOUS
  <2>5. N = NewHead(T, Subject) BY <1>7, <2>2, <2>3, <2>4 DEF NewHead
  <2>6. N \in ListRecord /\ HeadIs(N, lists, i) BY <1>2, <2>4, HeadStored
  <2>7. N.fault = FALSE BY <1>2, <2>6 DEF HeadIs
  <2>8. Midway(N, settled, c, s, Queue, "set_state")
    BY <1>2, <1>4, <1>5, <1>7, <2>5 DEF Midway, Adding
  <2>9. Writes("add_head", N, "set_state")
    <3>1. N = [lists EXCEPT !.head = IF @ = NULL THEN Subject ELSE @]
      BY <1>2, <2>3, <2>4 DEF HeadSet, ListRecord
    <3> QED BY <1>12, <3>1
  <2> QED BY <2>6, <2>7, <2>8, <2>9, WriteWithin, InnerPoints
<1> QED BY <1>8, <1>9, <1>10, <1>11, <1>12 DEF AddToDelayed

----------------------------------------------------------------------------
(* The statements of _listRemoveTask.                                       *)

\* A delayed task is in the list, or nowhere.
LEMMA ListNeighbours ==
  ASSUME PInv, Executing, pc[self] \notin {"run", "yield"}, state[Subject] = "DELAYED"
  PROVE  /\ settled.next[Subject] \in Pointer /\ settled.next[Subject] # Subject
         /\ settled.prev[Subject] \in Pointer /\ settled.prev[Subject] # Subject
<1>1. PICK Q \in Queues, S \in SUBSET TCB : Settled(Q, S) BY DEF PInv
<1>2. Subject \in TCB /\ settled \in ListRecord BY CallFacts
<1>3. \A p \in Level : Subject \notin Q[p] BY <1>1 DEF Settled, FallingAsleep
<1>4. WellFormed(settled, Q, S) BY <1>1 DEF Settled
<1>5. settled.next[Subject] \in Pointer /\ settled.prev[Subject] \in Pointer
  BY <1>2 DEF ListRecord
<1>6. CASE Nowhere(Subject, Q, S)
  <2>1. settled.next[Subject] = NULL /\ settled.prev[Subject] = NULL
    BY <1>2, <1>4, <1>6 DEF WellFormed
  <2> QED BY <1>2, <1>5, <2>1, IdleIsALevel
<1>7. CASE Subject \in S
  <2>1. /\ settled.next[Subject] # Subject
        /\ settled.prev[Subject] # NULL =>
             settled.prev[Subject] \in S /\ settled.next[settled.prev[Subject]] = Subject
        /\ \A t \in S : settled.next[t] # t
    BY <1>4, <1>7, InList
  <2> QED BY <1>2, <1>5, <2>1, IdleIsALevel
<1> QED BY <1>2, <1>3, <1>6, <1>7 DEF Nowhere

LEMMA ReadsListNeighbours ==
  ASSUME PInv, Settle,
         \/ Reads("drop", "prev", lists.prev[Subject], "drop_next")
         \/ Reads("drop_next", "next", lists.next[Subject], "drop_clear")
  PROVE  PInv' /\ Stutters
<1>1. /\ Executing /\ pc[self] \in {"drop", "drop_next"} /\ pc[self] # "run"
      /\ PTypeOK /\ self \in Task
  BY DEF Reads, At, Executing, self, PInv
<1>2. /\ Subject \in TCB /\ local[self].task = Subject
      /\ lists.next[Subject] \in Pointer /\ lists.prev[Subject] \in Pointer
  BY <1>1, CallFacts DEF ListRecord
<1>3. Dropping(lists, settled, local[self], state[Subject], pc[self])
  <2>1. Midway(lists, settled, local[self], state[Subject], Queue, pc[self])
    BY <1>1, CallFacts
  <2> QED BY <1>1, <2>1 DEF Midway, Untouched, Removing, Adding, Pushing, Yielding
<1>4. ASSUME Reads("drop", "prev", lists.prev[Subject], "drop_next") PROVE PInv' /\ Stutters
  <2>1. pc[self] = "drop" BY <1>4 DEF Reads, At
  <2>2. PICK v \in Pointer : v = lists.prev[Subject] BY <1>2
  <2>3. local' = [local EXCEPT ![self]["prev"] = v] BY <1>4, <2>2 DEF Reads
  <2>4. /\ local'[self].op = local[self].op /\ local'[self].task = Subject
        /\ local'[self].prev = v
    BY <1>1, <2>3, ReadEffect
  <2>5. Midway(lists, settled, local'[self], state[Subject], Queue, "drop_next")
    BY <1>2, <1>3, <2>1, <2>2, <2>4 DEF Midway, Dropping
  <2> QED BY <1>2, <1>4, <2>5, ReadWithin, InnerPoints
<1>5. ASSUME Reads("drop_next", "next", lists.next[Subject], "drop_clear")
      PROVE  PInv' /\ Stutters
  <2>1. pc[self] = "drop_next" BY <1>5 DEF Reads, At
  <2>2. PICK v \in Pointer : v = lists.next[Subject] BY <1>2
  <2>3. local' = [local EXCEPT ![self]["next"] = v] BY <1>5, <2>2 DEF Reads
  <2>4. /\ local'[self].op = local[self].op /\ local'[self].task = Subject
        /\ local'[self].next = v /\ local'[self].prev = local[self].prev
    BY <1>1, <2>3, ReadEffect
  <2>5. Midway(lists, settled, local'[self], state[Subject], Queue, "drop_clear")
    BY <1>2, <1>3, <2>1, <2>2, <2>4 DEF Midway, Dropping, Known
  <2> QED BY <1>2, <1>5, <2>5, ReadWithin, InnerPoints
<1> QED BY <1>4, <1>5

LEMMA WritesListNeighbours ==
  ASSUME PInv, Settle, RemoveFromDelayed, pc[self] \notin {"drop", "drop_next"}
  PROVE  PInv' /\ Stutters
<1> DEFINE c == local[self]
           s == state[Subject]
           h == pc[self]
<1>1. /\ Executing /\ pc[self] # "run"
      /\ h \in {"drop_clear", "drop_clear_next", "drop_link", "drop_back", "drop_head",
                "drop_tail"}
  BY DEF RemoveFromDelayed, Reads, Writes, At
<1>2. /\ Subject \in TCB /\ c.task = Subject /\ Queue \in Level
      /\ lists \in ListRecord /\ lists.fault = FALSE /\ settled \in ListRecord
      /\ NULL \in Pointer /\ Subject \in Pointer
  BY <1>1, CallFacts DEF Pointer
<1>3. Dropping(lists, settled, c, s, h)
  <2>1. Midway(lists, settled, c, s, Queue, h) BY <1>1, CallFacts
  <2> QED BY <1>1, <2>1 DEF Midway, Untouched, Removing, Adding, Pushing, Yielding
<1>4. c.op = "kill" /\ s = "DELAYED" /\ Known(settled, c) BY <1>1, <1>3 DEF Dropping
<1>5. c.next = settled.next[Subject] /\ c.prev = settled.prev[Subject]
  BY <1>2, <1>4 DEF Known
<1>6. c.next \in Pointer /\ c.prev \in Pointer /\ c.next # Subject /\ c.prev # Subject
  BY <1>1, <1>4, <1>5, ListNeighbours
<1>7. /\ BridgedBack(settled, c).head = settled.head
      /\ HeadMoved(settled, c).tail = settled.tail
      /\ TailMoved(settled, c) = _listRemoveTask(settled, Subject)
  BY <1>2, <1>5, <1>6, DropAddsUp
<1>8. ASSUME Writes("drop_clear", Prev(Subject, NULL), "drop_clear_next")
      PROVE  PInv' /\ Stutters
  <2>1. h = "drop_clear" BY <1>8 DEF Writes, At
  <2>2. lists = settled BY <1>3, <2>1 DEF Dropping
  <2>3. PICK N : N = Prev(Subject, NULL) OBVIOUS
  <2>4. N = HalfCut(settled, c) /\ N \in ListRecord /\ N.fault = FALSE
    BY <1>2, <2>2, <2>3, StoreThrough DEF HalfCut
  <2>5. Midway(N, settled, c, s, Queue, "drop_clear_next")
    BY <1>4, <2>4 DEF Midway, Dropping
  <2> QED BY <1>8, <2>3, <2>4, <2>5, WriteWithin, InnerPoints
<1>13. ASSUME Writes("drop_clear_next", Next(Subject, NULL), "drop_link")
       PROVE  PInv' /\ Stutters
  <2>1. h = "drop_clear_next" BY <1>13 DEF Writes, At
  <2>2. lists = HalfCut(settled, c) BY <1>3, <2>1 DEF Dropping
  <2>3. PICK N : N = Next(Subject, NULL) OBVIOUS
  <2>4. N = CutOff(settled, c) /\ N \in ListRecord /\ N.fault = FALSE
    BY <1>2, <2>2, <2>3, StoreThrough DEF CutOff
  <2>5. Midway(N, settled, c, s, Queue, "drop_link") BY <1>4, <2>4 DEF Midway, Dropping
  <2> QED BY <1>13, <2>3, <2>4, <2>5, WriteWithin, InnerPoints
<1>9. ASSUME NEW N, N = IF c.prev = NULL THEN lists ELSE Next(c.prev, c.next),
             Writes("drop_link", N, "drop_back")
      PROVE  PInv' /\ Stutters
  <2>1. h = "drop_link" BY <1>9 DEF Writes, At
  <2>2. lists = CutOff(settled, c) BY <1>3, <2>1 DEF Dropping
  <2>3. N = Bridged(settled, c) /\ N \in ListRecord /\ N.fault = FALSE
    <3>1. CASE c.prev = NULL BY <1>2, <1>9, <2>2, <3>1 DEF Bridged
    <3>2. CASE c.prev # NULL
      <4>1. c.prev \in TCB BY <1>6, <3>2 DEF Pointer
      <4>2. N = Next(c.prev, c.next) BY <1>9, <3>2
      <4>3. N = NextSet(lists, c.prev, c.next) /\ N \in ListRecord /\ N.fault = FALSE
        BY <1>2, <1>6, <4>1, <4>2, StoreThrough
      <4> QED BY <2>2, <3>2, <4>3 DEF Bridged
    <3> QED BY <3>1, <3>2
  <2>4. Midway(N, settled, c, s, Queue, "drop_back") BY <1>4, <2>3 DEF Midway, Dropping
  <2> QED BY <1>9, <2>3, <2>4, WriteWithin, InnerPoints
<1>10. ASSUME NEW N, N = IF c.next = NULL THEN lists ELSE Prev(c.next, c.prev),
              Writes("drop_back", N, "drop_head")
       PROVE  PInv' /\ Stutters
  <2>1. h = "drop_back" BY <1>10 DEF Writes, At
  <2>2. lists = Bridged(settled, c) BY <1>3, <2>1 DEF Dropping
  <2>3. N = BridgedBack(settled, c) /\ N \in ListRecord /\ N.fault = FALSE
    <3>1. CASE c.next = NULL BY <1>2, <1>10, <2>2, <3>1 DEF BridgedBack
    <3>2. CASE c.next # NULL
      <4>1. c.next \in TCB BY <1>6, <3>2 DEF Pointer
      <4>2. N = Prev(c.next, c.prev) BY <1>10, <3>2
      <4>3. N = PrevSet(lists, c.next, c.prev) /\ N \in ListRecord /\ N.fault = FALSE
        BY <1>2, <1>6, <4>1, <4>2, StoreThrough
      <4> QED BY <2>2, <3>2, <4>3 DEF BridgedBack
    <3> QED BY <3>1, <3>2
  <2>4. Midway(N, settled, c, s, Queue, "drop_head") BY <1>4, <2>3 DEF Midway, Dropping
  <2> QED BY <1>10, <2>3, <2>4, WriteWithin, InnerPoints
<1>11. ASSUME Writes("drop_head", [lists EXCEPT !.head = IF @ = Subject THEN c.next ELSE @],
                     "drop_tail")
       PROVE  PInv' /\ Stutters
  <2>1. h = "drop_head" BY <1>11 DEF Writes, At
  <2>2. lists = BridgedBack(settled, c) BY <1>3, <2>1 DEF Dropping
  <2>3. PICK i \in Pointer : i = IF lists.head = Subject THEN c.next ELSE lists.head
    BY <1>2, <1>6 DEF ListRecord
  <2>4. PICK N : N = HeadSet(lists, i) OBVIOUS
  <2>5. N = HeadMoved(settled, c) BY <1>2, <1>7, <2>2, <2>3, <2>4 DEF HeadMoved
  <2>6. N \in ListRecord /\ HeadIs(N, lists, i) BY <1>2, <2>4, HeadStored
  <2>7. N.fault = FALSE BY <1>2, <2>6 DEF HeadIs
  <2>8. Midway(N, settled, c, s, Queue, "drop_tail") BY <1>4, <2>5 DEF Midway, Dropping
  <2>9. Writes("drop_head", N, "drop_tail")
    <3>1. N = [lists EXCEPT !.head = IF @ = Subject THEN c.next ELSE @]
      BY <1>2, <2>3, <2>4 DEF HeadSet, ListRecord
    <3> QED BY <1>11, <3>1
  <2> QED BY <2>6, <2>7, <2>8, <2>9, WriteWithin, InnerPoints
<1>12. ASSUME Writes("drop_tail", [lists EXCEPT !.tail = IF @ = Subject THEN c.prev ELSE @],
                     "yield")
       PROVE  PInv' /\ Stutters
  <2>1. h = "drop_tail" BY <1>12 DEF Writes, At
  <2>2. lists = HeadMoved(settled, c) BY <1>3, <2>1 DEF Dropping
  <2>3. PICK i \in Pointer : i = IF lists.tail = Subject THEN c.prev ELSE lists.tail
    BY <1>2, <1>6 DEF ListRecord
  <2>4. PICK N : N = TailSet(lists, i) OBVIOUS
  <2>5. N = TailMoved(settled, c) BY <1>2, <1>7, <2>2, <2>3, <2>4 DEF TailMoved
  <2>6. N \in ListRecord /\ TailIs(N, lists, i) BY <1>2, <2>4, TailStored
  <2>7. N.fault = FALSE BY <1>2, <2>6 DEF TailIs
  <2>8. Midway(N, settled, c, s, Queue, "yield")
    BY <1>2, <1>4, <1>7, <2>5 DEF Midway, Yielding
  <2>9. Writes("drop_tail", N, "yield")
    <3>1. N = [lists EXCEPT !.tail = IF @ = Subject THEN c.prev ELSE @]
      BY <1>2, <2>3, <2>4 DEF TailSet, ListRecord
    <3> QED BY <1>12, <3>1
  <2> QED BY <2>6, <2>7, <2>8, <2>9, WriteWithin, InnerPoints
<1> QED BY <1>8, <1>9, <1>10, <1>11, <1>12, <1>13 DEF RemoveFromDelayed, Reads, At

LEMMA DropKeeps ==
  ASSUME PInv, Settle, RemoveFromDelayed
  PROVE  PInv' /\ Stutters
<1>1. CASE pc[self] \in {"drop", "drop_next"}
  BY <1>1, ReadsListNeighbours DEF RemoveFromDelayed, Writes, At
<1>2. CASE pc[self] \notin {"drop", "drop_next"}
  BY <1>2, WritesListNeighbours
<1> QED BY <1>1, <1>2

----------------------------------------------------------------------------
(* Calls that complete.                                                     *)

\* The last store of osStartTask, or the request of osDelay or osKillTask: the
\* lists are settled, and the task has only to return.
LEMMA CompletedKeeps ==
  ASSUME PInv, Executing, pc[self] # "run", pc' = [pc EXCEPT ![self] = "return"],
         UNCHANGED <<state, staticPriority, nextExecTimeUs, kernel, local, slept>>,
         pendsv' \in BOOLEAN, lists' \in ListRecord, ~lists'.fault, settled' = lists',
         NEW R \in Queues, NEW T \in SUBSET TCB, Settled(R, T)'
  PROVE  PInv'
<1>1. /\ self \in Task /\ cpu = "thread"
      /\ UNCHANGED <<activeTask, cpu, dynamicPriority, timestamp, cursor>>
  BY DEF Executing, self, kernel
<1>2. pc'[self] = "return" /\ \A t \in Task : t # self => pc'[t] = pc[t]
  BY <1>1 DEF PInv, Control
<1>3. self' = self BY <1>1 DEF self
<1>4. PTypeOK' BY <1>1 DEF PInv, PTypeOK, TypeOK
<1>5. InCall' BY <1>2, <1>3 DEF InCall, Midway, Untouched
<1>6. \A t \in Task : Coherent(t)'
  <2>1. ASSUME NEW t \in Task, t = self PROVE Coherent(t)'
    <3>1. Coherent(self) BY <1>1 DEF PInv, Control
    <3> QED BY <1>1, <1>2, <2>1, <3>1 DEF Coherent, Waits, self
  <2>2. ASSUME NEW t \in Task, t # self PROVE Coherent(t)'
    BY <1>1, <1>2, <2>2 DEF PInv, Control, Coherent, Waits, self
  <2> QED BY <2>1, <2>2
<1>7. Control'
  <2>1. "return" \in Points BY DEF Points
  <2> QED BY <1>1, <1>6, <2>1 DEF PInv, Control
<1>8. PriorityInv' BY <1>1 DEF PInv, PriorityInv
<1> QED BY <1>4, <1>5, <1>7, <1>8 DEF PInv

\* A task joins its queue.
LEMMA StartSettled ==
  ASSUME NEW Q, NEW S, WellFormed(settled, Q, S), NEW u \in Task, Nowhere(u, Q, S),
         NEW p \in Level, staticPriority[u] = p, settled' = _readyQueuePushTask(settled, p, u),
         UNCHANGED <<staticPriority, activeTask, cpu, pendsv>>, Mode # "switching"
  PROVE  Abstract!Start(u)
<1>1. Rings(settled') = [Rings(settled) EXCEPT ![p] = Append(@, u)]
      /\ Asleep(settled') = Asleep(settled)
  <2>1. PICK N : N = settled' OBVIOUS
  <2>2. Rings(N) = [Rings(settled) EXCEPT ![p] = Append(@, u)] /\ Asleep(N) = Asleep(settled)
    BY <2>1, PushSeen
  <2> QED BY <2>1, <2>2
<1>2. Abstract!Outside(u)
  <2>1. ~\E q \in Level : \E i \in DOMAIN Ring(settled, q) : Ring(settled, q)[i] = u
    BY Seen DEF Nowhere
  <2>2. u \notin Asleep(settled) BY Seen DEF Nowhere
  <2> QED BY <2>1, <2>2 DEF Abstract!Outside, Abstract!Queued
<1>3. Mode' = Mode BY DEF Mode
<1> QED BY <1>1, <1>2, <1>3 DEF Abstract!Start, Rings

LEMMA StartCompleted ==
  ASSUME PInv, Settle, NEW h \in Points, h \notin {"run", "yield"}, NEW N \in ListRecord,
         Writes(h, N, "return"), Pushing(lists, settled, local[self], state[Subject], Queue, h),
         N = _readyQueuePushTask(settled, Queue, Subject)
  PROVE  PInv' /\ Abstract!Start(Subject)
<1>1. Executing /\ self \in Task /\ pc[self] = h BY DEF Writes, At, Executing, self
<1>2. /\ pc' = [pc EXCEPT ![self] = "return"] /\ lists' = N
      /\ UNCHANGED <<state, staticPriority, nextExecTimeUs, kernel, pendsv, local, slept>>
  BY DEF Writes, Goto
<1>3. settled' = lists'
  <2>1. pc'[self] = "return" BY <1>1, <1>2 DEF PInv, Control
  <2> QED BY <2>1 DEF Settle
<1>4. /\ Subject \in Task /\ Subject \in TCB /\ Queue \in Level
      /\ settled \in ListRecord /\ settled.fault = FALSE /\ local[self].task = Subject
  BY <1>1, CallFacts
<1>5. PICK Q \in Queues, S \in SUBSET TCB : Settled(Q, S) BY DEF PInv
<1>6. WellFormed(settled, Q, S) BY <1>5 DEF Settled
<1>7. Nowhere(Subject, Q, S) BY <1>4, <1>6, LinkedSomewhere DEF Pushing
<1>8. PICK R : R = QueueJoined(Q, Queue, Subject) OBVIOUS
<1>9. WellFormed(N, R, S) /\ N.fault = FALSE
  BY <1>4, <1>6, <1>7, <1>8, PushWellFormed
<1>10. /\ R \in Queues /\ \A q \in Level : Q[q] \subseteq R[q]
       /\ \A q \in Level : \A t \in R[q] : t \in Q[q] \/ (t = Subject /\ q = Queue)
  BY <1>4, <1>8 DEF Queues, Joined, QueueJoined
<1>11. UNCHANGED <<activeTask, cpu, cursor>> /\ cpu = "thread" /\ pendsv = FALSE
  BY <1>1, <1>2 DEF kernel, Executing, PInv, PTypeOK, TypeOK
<1>12. Settled(R, S)'
  <2>1. state[Subject] = "READY" /\ staticPriority[Subject] = Queue BY DEF Pushing, Queue
  <2>2. \A t : ~FallingAsleep(t) BY <1>1 DEF FallingAsleep
  <2>3. \A q \in Level : \A t \in R[q] : state[t] = "READY" /\ staticPriority[t] = q
    BY <1>5, <1>10, <2>1, <2>2 DEF Settled
  <2>4. IdleTask \in R[IDLE] /\ \E q \in Level : activeTask \in R[q]
    BY <1>5, <1>10, <1>11, IdleIsALevel DEF Settled
  <2> QED BY <1>2, <1>3, <1>5, <1>9, <1>11, <2>3, <2>4 DEF Settled
<1>13. PInv'
  BY <1>1, <1>2, <1>3, <1>9, <1>10, <1>11, <1>12, CompletedKeeps
<1>14. Abstract!Start(Subject)
  <2>1. Mode # "switching" BY <1>11 DEF Mode
  <2> QED BY <1>2, <1>3, <1>4, <1>6, <1>7, <1>11, <2>1, StartSettled DEF Queue
<1> QED BY <1>13, <1>14

----------------------------------------------------------------------------
(* The statements of _readyQueuePushTask.                                   *)

\* In a queue that is not empty, the task comes between two others.
LEMMA PlaceInRing ==
  ASSUME PInv, Executing, pc[self] # "run", settled.iter[Queue] # NULL,
         settled.next[Subject] = NULL, settled.prev[Subject] = NULL,
         Subject \notin {settled.head, settled.tail}
  PROVE  \E i, j \in TCB : /\ i = settled.iter[Queue] /\ j = settled.prev[i]
                           /\ i # Subject /\ j # Subject
<1>1. PICK Q \in Queues, S \in SUBSET TCB : Settled(Q, S) BY DEF PInv
<1>2. WellFormed(settled, Q, S) /\ Subject \in TCB /\ Queue \in Level
  BY <1>1, CallFacts DEF Settled
<1>3. Nowhere(Subject, Q, S) BY <1>2, LinkedSomewhere
<1>4. settled.iter[Queue] \in Q[Queue] BY <1>2, InRing
<1>5. settled.prev[settled.iter[Queue]] \in Q[Queue] BY <1>2, <1>4, InRing
<1>6. Q[Queue] \subseteq TCB /\ Subject \notin Q[Queue] BY <1>2, <1>3 DEF Queues, Nowhere
<1> QED BY <1>4, <1>5, <1>6

LEMMA ReadsPlace ==
  ASSUME PInv, Settle,
         \/ Tests("push", IF lists.iter[Queue] = NULL THEN "first" ELSE "push_next")
         \/ Reads("push_next", "next", lists.iter[Queue], "push_prev")
         \/ Reads("push_prev", "prev", lists.prev[local[self].next], "link_prev")
  PROVE  PInv' /\ Stutters
<1>1. /\ Executing /\ pc[self] \in {"push", "push_next", "push_prev"} /\ pc[self] # "run"
      /\ PTypeOK /\ self \in Task
  BY DEF Tests, Reads, At, Executing, self, PInv
<1>2. /\ Subject \in TCB /\ local[self].task = Subject /\ Queue \in Level
      /\ lists.iter[Queue] \in Pointer /\ settled \in ListRecord
      /\ lists \in ListRecord /\ ~lists.fault
  BY <1>1, CallFacts DEF ListRecord
<1>3. Pushing(lists, settled, local[self], state[Subject], Queue, pc[self])
  <2>1. Midway(lists, settled, local[self], state[Subject], Queue, pc[self])
    BY <1>1, CallFacts
  <2> QED BY <1>1, <2>1 DEF Midway, Untouched, Removing, Adding, Dropping, Yielding
<1>4. ASSUME NEW h, h = IF lists.iter[Queue] = NULL THEN "first" ELSE "push_next",
             Tests("push", h)
      PROVE  PInv' /\ Stutters
  <2>1. pc[self] = "push" BY <1>4 DEF Tests, At
  <2>2. lists = settled BY <1>3, <2>1 DEF Pushing
  <2>3. h \in Inner BY <1>4, InnerPoints
  <2>4. Midway(lists, settled, local[self], state[Subject], Queue, h)
    BY <1>2, <1>3, <1>4, <2>1, <2>2 DEF Midway, Pushing
  <2>5. Writes("push", lists, h) BY <1>4, TestsStoreNothing
  <2> QED BY <1>2, <2>3, <2>4, <2>5, WriteWithin, InnerPoints
<1>6. ASSUME Reads("push_next", "next", lists.iter[Queue], "push_prev")
      PROVE  PInv' /\ Stutters
  <2>1. pc[self] = "push_next" BY <1>6 DEF Reads, At
  <2>2. lists = settled BY <1>3, <2>1 DEF Pushing
  <2>3. PICK v \in Pointer : v = lists.iter[Queue] BY <1>2
  <2>4. local' = [local EXCEPT ![self]["next"] = v] BY <1>6, <2>3 DEF Reads
  <2>5. /\ local'[self].op = local[self].op /\ local'[self].task = Subject
        /\ local'[self].next = v
    BY <1>1, <2>4, ReadEffect
  <2>6. Midway(lists, settled, local'[self], state[Subject], Queue, "push_prev")
    BY <1>2, <1>3, <2>1, <2>2, <2>3, <2>5 DEF Midway, Pushing
  <2> QED BY <1>2, <1>6, <2>6, ReadWithin, InnerPoints
<1>5. ASSUME Reads("push_prev", "prev", lists.prev[local[self].next], "link_prev")
      PROVE  PInv' /\ Stutters
  <2>1. pc[self] = "push_prev" BY <1>5 DEF Reads, At
  <2>2. lists = settled /\ local[self].next = settled.iter[Queue] /\ settled.iter[Queue] # NULL
    BY <1>3, <2>1 DEF Pushing
  <2>3. local[self].next \in TCB
    BY <1>2, <2>2 DEF ListRecord, Pointer
  <2>4. PICK v \in Pointer : v = lists.prev[local[self].next]
    BY <1>2, <2>2, <2>3 DEF ListRecord
  <2>5. local' = [local EXCEPT ![self]["prev"] = v] BY <1>5, <2>4 DEF Reads
  <2>6. /\ local'[self].op = local[self].op /\ local'[self].task = Subject
        /\ local'[self].prev = v /\ local'[self].next = local[self].next
    BY <1>1, <2>5, ReadEffect
  <2>7. Midway(lists, settled, local'[self], state[Subject], Queue, "link_prev")
    BY <1>2, <1>3, <2>1, <2>2, <2>4, <2>6 DEF Midway, Pushing
  <2> QED BY <1>5, <2>4, <2>7, ReadWithin, InnerPoints
<1> QED BY <1>4, <1>5, <1>6

\* Where the place has been read: a queue that was not empty has a first task.
LEMMA PlaceIsThere ==
  ASSUME PInv, At("push_prev")
  PROVE  local[self].next # NULL
<1>1. Executing /\ pc[self] = "push_prev" /\ pc[self] # "run" BY DEF At
<1>2. Midway(lists, settled, local[self], state[Subject], Queue, pc[self])
  BY <1>1, CallFacts
<1> QED BY <1>1, <1>2 DEF Midway, Untouched, Removing, Adding, Pushing, Dropping, Yielding

LEMMA WritesPlace ==
  ASSUME PInv, Settle, PushToQueue, pc[self] \notin {"push", "push_next", "push_prev"}
  PROVE  PInv' /\ (Stutters \/ \E u \in Task : Abstract!Start(u))
<1> DEFINE c == local[self]
           s == state[Subject]
           h == pc[self]
<1>1. /\ Executing /\ pc[self] # "run"
      /\ h \in {"first", "first_prev", "first_next", "link_prev", "link_next", "neighbor",
                "neighbor_prev"}
  BY DEF PushToQueue, Tests, Reads, Writes, At
<1>2. /\ Subject \in TCB /\ Subject \in Task /\ c.task = Subject /\ Queue \in Level
      /\ lists \in ListRecord /\ lists.fault = FALSE /\ settled \in ListRecord
      /\ Subject \in Pointer /\ c.next \in Pointer /\ c.prev \in Pointer
  BY <1>1, CallFacts
<1>3. Pushing(lists, settled, c, s, Queue, h)
  <2>1. Midway(lists, settled, c, s, Queue, h) BY <1>1, CallFacts
  <2> QED BY <1>1, <2>1 DEF Midway, Untouched, Removing, Adding, Dropping, Yielding
<1>4. ASSUME h \in {"first", "first_prev", "first_next"}
      PROVE  /\ settled.iter[Queue] = NULL
             /\ Alone(settled, c, Queue) = _readyQueuePushTask(settled, Queue, Subject)
  <2>1. settled.iter[Queue] = NULL BY <1>3, <1>4 DEF Pushing
  <2> QED BY <1>2, <2>1, PushAddsUpAlone
<1>5. ASSUME h \in {"link_prev", "link_next", "neighbor", "neighbor_prev"}
      PROVE  /\ c.next \in TCB /\ c.prev \in TCB
             /\ LastOfRing(settled, c) = _readyQueuePushTask(settled, Queue, Subject)
  <2>1. /\ c.next = settled.iter[Queue] /\ c.next # NULL /\ c.prev = settled.prev[c.next]
        /\ settled.next[Subject] = NULL /\ settled.prev[Subject] = NULL
        /\ Subject \notin {settled.head, settled.tail}
    BY <1>2, <1>3, <1>5 DEF Pushing
  <2>2. PICK i, j \in TCB : /\ i = settled.iter[Queue] /\ j = settled.prev[i]
                            /\ i # Subject /\ j # Subject
    BY <1>1, <2>1, PlaceInRing
  <2>3. c.next = i /\ c.prev = j BY <2>1, <2>2
  <2> QED BY <1>2, <2>1, <2>2, <2>3, PushAddsUp
<1>6. ASSUME Writes("first", Iter(Subject), "first_prev") PROVE PInv' /\ Stutters
  <2>1. h = "first" BY <1>6 DEF Writes, At
  <2>2. lists = settled BY <1>3, <2>1 DEF Pushing
  <2>3. PICK N : N = IterSet(lists, Queue, Subject) OBVIOUS
  <2>4. N \in ListRecord /\ IterIs(N, lists, Queue, Subject) BY <1>2, <2>3, IterStored
  <2>5. N.fault = FALSE BY <1>2, <2>4 DEF IterIs
  <2>6. N = Entered(settled, c, Queue) BY <1>2, <2>2, <2>3 DEF Entered
  <2>7. Midway(N, settled, c, s, Queue, "first_prev") BY <1>3, <2>1, <2>6 DEF Midway, Pushing
  <2>8. Writes("first", N, "first_prev") BY <1>6, <2>3 DEF Iter, IterSet
  <2> QED BY <2>4, <2>5, <2>7, <2>8, WriteWithin, InnerPoints
<1>7. ASSUME Writes("first_prev", Prev(Subject, Subject), "first_next") PROVE PInv' /\ Stutters
  <2>1. h = "first_prev" BY <1>7 DEF Writes, At
  <2>2. lists = Entered(settled, c, Queue) BY <1>3, <2>1 DEF Pushing
  <2>3. PICK N : N = Prev(Subject, Subject) OBVIOUS
  <2>4. N = HalfAlone(settled, c, Queue) /\ N \in ListRecord /\ N.fault = FALSE
    BY <1>2, <2>2, <2>3, StoreThrough DEF HalfAlone
  <2>5. Midway(N, settled, c, s, Queue, "first_next") BY <1>3, <2>1, <2>4 DEF Midway, Pushing
  <2> QED BY <1>7, <2>3, <2>4, <2>5, WriteWithin, InnerPoints
<1>8. ASSUME Writes("first_next", Next(Subject, Subject), "return")
      PROVE  PInv' /\ Abstract!Start(Subject)
  <2>1. h = "first_next" BY <1>8 DEF Writes, At
  <2>2. lists = HalfAlone(settled, c, Queue) BY <1>3, <2>1 DEF Pushing
  <2>3. PICK N : N = Next(Subject, Subject) OBVIOUS
  <2>4. N = Alone(settled, c, Queue) /\ N \in ListRecord
    BY <1>2, <2>2, <2>3, StoreThrough DEF Alone
  <2>5. N = _readyQueuePushTask(settled, Queue, Subject) BY <1>4, <2>1, <2>4
  <2> QED BY <1>3, <1>8, <2>1, <2>3, <2>4, <2>5, StartCompleted DEF Points
<1>9. ASSUME Writes("link_prev", Prev(Subject, c.prev), "link_next") PROVE PInv' /\ Stutters
  <2>1. h = "link_prev" BY <1>9 DEF Writes, At
  <2>2. lists = settled BY <1>3, <2>1 DEF Pushing
  <2>3. PICK N : N = Prev(Subject, c.prev) OBVIOUS
  <2>4. N = LooksBack(settled, c) /\ N \in ListRecord /\ N.fault = FALSE
    BY <1>2, <2>2, <2>3, StoreThrough DEF LooksBack
  <2>5. Midway(N, settled, c, s, Queue, "link_next") BY <1>3, <2>1, <2>4 DEF Midway, Pushing
  <2> QED BY <1>9, <2>3, <2>4, <2>5, WriteWithin, InnerPoints
<1>10. ASSUME Writes("link_next", Next(Subject, c.next), "neighbor") PROVE PInv' /\ Stutters
  <2>1. h = "link_next" BY <1>10 DEF Writes, At
  <2>2. lists = LooksBack(settled, c) BY <1>3, <2>1 DEF Pushing
  <2>3. PICK N : N = Next(Subject, c.next) OBVIOUS
  <2>4. N = LooksAhead(settled, c) /\ N \in ListRecord /\ N.fault = FALSE
    BY <1>2, <2>2, <2>3, StoreThrough DEF LooksAhead
  <2>5. Midway(N, settled, c, s, Queue, "neighbor") BY <1>3, <2>1, <2>4 DEF Midway, Pushing
  <2> QED BY <1>10, <2>3, <2>4, <2>5, WriteWithin, InnerPoints
<1>11. ASSUME Writes("neighbor", Prev(c.next, Subject), "neighbor_prev") PROVE PInv' /\ Stutters
  <2>1. h = "neighbor" /\ c.next \in TCB BY <1>5, <1>11 DEF Writes, At
  <2>2. lists = LooksAhead(settled, c) BY <1>3, <2>1 DEF Pushing
  <2>3. PICK N : N = Prev(c.next, Subject) OBVIOUS
  <2>4. N = HalfLinked(settled, c) /\ N \in ListRecord /\ N.fault = FALSE
    BY <1>2, <2>1, <2>2, <2>3, StoreThrough DEF HalfLinked
  <2>5. Midway(N, settled, c, s, Queue, "neighbor_prev") BY <1>3, <2>1, <2>4 DEF Midway, Pushing
  <2> QED BY <1>11, <2>3, <2>4, <2>5, WriteWithin, InnerPoints
<1>12. ASSUME Writes("neighbor_prev", Next(c.prev, Subject), "return")
       PROVE  PInv' /\ Abstract!Start(Subject)
  <2>1. h = "neighbor_prev" /\ c.prev \in TCB BY <1>5, <1>12 DEF Writes, At
  <2>2. lists = HalfLinked(settled, c) BY <1>3, <2>1 DEF Pushing
  <2>3. PICK N : N = Next(c.prev, Subject) OBVIOUS
  <2>4. N = LastOfRing(settled, c) /\ N \in ListRecord
    BY <1>2, <2>1, <2>2, <2>3, StoreThrough DEF LastOfRing
  <2>5. N = _readyQueuePushTask(settled, Queue, Subject) BY <1>5, <2>1, <2>4
  <2> QED BY <1>3, <1>12, <2>1, <2>3, <2>4, <2>5, StartCompleted DEF Points
<1>13. \/ Writes("first", Iter(Subject), "first_prev")
       \/ Writes("first_prev", Prev(Subject, Subject), "first_next")
       \/ Writes("first_next", Next(Subject, Subject), "return")
       \/ Writes("link_prev", Prev(Subject, c.prev), "link_next")
       \/ Writes("link_next", Next(Subject, c.next), "neighbor")
       \/ Writes("neighbor", Prev(c.next, Subject), "neighbor_prev")
       \/ Writes("neighbor_prev", Next(c.prev, Subject), "return")
  BY DEF PushToQueue, Tests, Reads, Writes, At
<1> QED BY <1>2, <1>6, <1>7, <1>8, <1>9, <1>10, <1>11, <1>12, <1>13

LEMMA PushKeeps ==
  ASSUME PInv, Settle, PushToQueue
  PROVE  PInv' /\ (Stutters \/ \E u \in Task : Abstract!Start(u))
<1>1. CASE pc[self] \in {"push", "push_next", "push_prev"}
  BY <1>1, PlaceIsThere, ReadsPlace DEF PushToQueue, Writes, At
<1>2. CASE pc[self] \notin {"push", "push_next", "push_prev"}
  BY <1>2, WritesPlace
<1> QED BY <1>1, <1>2

----------------------------------------------------------------------------
(* The other statements of osDelay.                                         *)

LEMMA DelayIsOwn ==
  ASSUME PInv, Executing, local[self].op = "delay"
  PROVE  Subject = self
<1>1. self \in Task /\ Coherent(self) BY DEF PInv, Control, Executing, self
<1> QED BY <1>1 DEF Coherent, Subject

LEMMA StoreTimeKeeps ==
  ASSUME PInv, Settle, StoreNextExecTime
  PROVE  PInv' /\ Stutters
<1>1. Executing /\ self \in Task /\ self \in TCB /\ pc[self] = "store"
  BY DEF StoreNextExecTime, At, Executing, self, TCB
<1>2. Midway(lists, settled, local[self], state[Subject], Queue, "store")
      /\ lists \in ListRecord /\ ~lists.fault
  BY <1>1, CallFacts
<1>3. lists = settled /\ local[self].op = "delay"
  BY <1>2 DEF Midway, Untouched, Removing, Adding, Pushing, Dropping, Yielding
<1>4. /\ pc' = [pc EXCEPT ![self] = "unlink"]
      /\ UNCHANGED <<lists, state, staticPriority, kernel, pendsv, local, slept>>
      /\ nextExecTimeUs' = [nextExecTimeUs EXCEPT
           ![self] = WakeUpTime(local[self].time, local[self].delayMs)]
  BY DEF StoreNextExecTime, Goto
<1>5. nextExecTimeUs' \in [TCB -> Time]
  <2>1. local[self].time \in Time /\ local[self].delayMs \in Delays \cup {0}
    BY <1>1 DEF PInv, PTypeOK
  <2>2. local[self].time \in Nat /\ local[self].delayMs \in Nat
    <3>1. local[self].time \in Nat BY <2>1, TimeAssumption DEF Time
    <3>2. Delays \cup {0} \subseteq Nat BY WorkloadAssumption
    <3> QED BY <2>1, <3>1, <3>2
  <2>3. local[self].time + local[self].delayMs * US_PER_MS \in Nat BY <2>2, TimeAssumption
  <2>4. WakeUpTime(local[self].time, local[self].delayMs) \in Time
    BY <2>3, TimeWraps DEF WakeUpTime
  <2>5. nextExecTimeUs \in [TCB -> Time] BY DEF PInv, PTypeOK, TypeOK
  <2> QED BY <1>1, <1>4, <2>4, <2>5
<1>6. pc \in [Task -> Points] /\ pendsv = FALSE /\ local \in [Task -> Locals]
  BY <1>1 DEF PInv, PTypeOK, TypeOK, Control, Executing, Locals
<1>7. settled' = settled
  <2>1. pc'[self] = "unlink" /\ pendsv' = FALSE BY <1>1, <1>4, <1>6
  <2> QED BY <2>1 DEF Settle
<1>8. Midway(lists', settled, local'[self], state[Subject], Queue, "unlink")
  BY <1>3, <1>4 DEF Midway, Untouched
<1>9. PInv'
  BY <1>1, <1>2, <1>4, <1>5, <1>6, <1>7, <1>8, Within DEF Points, Subject
<1> QED BY <1>4, <1>7, <1>9 DEF Stutters, kernel

\* With its state stored, osDelay leaves a task that is settled in its queue
\* and marked as DELAYED, until it yields.
LEMMA StoreStateKeeps ==
  ASSUME PInv, Settle, StoreDelayed
  PROVE  PInv' /\ Stutters
<1>1. Executing /\ self \in Task /\ self \in TCB /\ pc[self] = "set_state" /\ pc[self] # "run"
  BY DEF StoreDelayed, At, Executing, self, TCB
<1>2. /\ Midway(lists, settled, local[self], state[Subject], Queue, "set_state")
      /\ lists \in ListRecord /\ settled \in ListRecord /\ local[self].task = Subject
  BY <1>1, CallFacts
<1>3. /\ local[self].op = "delay" /\ IsQueued(settled, local[self], state[Subject])
      /\ lists = _listAddTask(Taken(settled, local[self], Queue), Subject)
  BY <1>2 DEF Midway, Untouched, Removing, Adding, Pushing, Dropping, Yielding
<1>4. Subject = self BY <1>1, <1>3, DelayIsOwn
<1>5. /\ pc' = [pc EXCEPT ![self] = "yield"]
      /\ UNCHANGED <<lists, staticPriority, nextExecTimeUs, kernel, pendsv, local, slept>>
      /\ state' = [state EXCEPT ![self] = "DELAYED"]
  BY DEF StoreDelayed, Goto
<1>6. /\ pc \in [Task -> Points] /\ pendsv = FALSE /\ cpu = "thread"
      /\ state \in [TCB -> {"READY", "DELAYED"}]
  BY <1>1 DEF PInv, PTypeOK, TypeOK, Control, Executing
<1>7. pc'[self] = "yield" /\ \A t \in Task : t # self => pc'[t] = pc[t]
  BY <1>1, <1>5, <1>6
<1>8. settled' = settled BY <1>5, <1>6, <1>7 DEF Settle
<1>9. UNCHANGED <<activeTask, cpu, dynamicPriority, timestamp, cursor>> BY <1>5 DEF kernel
<1>10. Executing' /\ self' = self /\ Subject' = Subject /\ Queue' = Queue
  BY <1>1, <1>5, <1>9 DEF Executing, self, Subject, Queue
<1>11. state'[self] = "DELAYED" /\ \A t \in TCB : t # self => state'[t] = state[t]
  BY <1>1, <1>5, <1>6
<1>12. PTypeOK'
  BY <1>5, <1>6, <1>8, <1>9 DEF PInv, PTypeOK, TypeOK
<1>13. InCall'
  <2>1. Yielding(lists, settled, local[self], "DELAYED", Queue, "yield")
    BY <1>2, <1>3 DEF Yielding
  <2> QED BY <1>4, <1>5, <1>7, <1>8, <1>10, <1>11, <2>1 DEF InCall, Midway
<1>14. \A t \in Task : Coherent(t)'
  <2>1. ASSUME NEW t \in Task, t = self PROVE Coherent(t)'
    <3>1. Coherent(self) BY <1>1 DEF PInv, Control
    <3> QED BY <1>1, <1>3, <1>5, <1>7, <2>1, <3>1 DEF Coherent, Waits
  <2>2. ASSUME NEW t \in Task, t # self PROVE Coherent(t)'
    BY <1>5, <1>7, <1>9, <2>2 DEF PInv, Control, Coherent, Waits, self
  <2> QED BY <2>1, <2>2
<1>15. Control'
  <2>1. "yield" \in Points BY DEF Points
  <2> QED BY <1>1, <1>5, <1>6, <1>8, <1>9, <1>14, <2>1 DEF PInv, Control
<1>16. PriorityInv' BY <1>9 DEF PInv, PriorityInv
<1>17. PICK Q \in Queues, S \in SUBSET TCB : Settled(Q, S) BY DEF PInv
<1>18. lists # settled
  <2>1. PICK T : T = Taken(settled, local[self], Queue) OBVIOUS
  <2>2. T \in ListRecord BY <1>1, <1>3, <2>1, TakenFacts
  <2>3. lists.tail = self
    BY <1>3, <1>4, <2>1, <2>2 DEF _listAddTask, Between, ListRecord
  <2>4. settled.tail # self BY <1>1, <1>2, <1>3, <1>4, RingNeighbours DEF IsQueued
  <2> QED BY <2>3, <2>4
<1>19. \A t : t = self => FallingAsleep(t)'
  BY <1>3, <1>5, <1>7, <1>8, <1>10, <1>18 DEF FallingAsleep
<1>20. Settled(Q, S)'
  <2>1. \A t : ~FallingAsleep(t) BY <1>1 DEF FallingAsleep
  <2>2. \A p \in Level : \A t \in Q[p] : /\ t \in TCB /\ state[t] = "READY"
                                         /\ staticPriority[t] = p
    BY <1>17, <2>1 DEF Settled, Queues
  <2>3. \A p \in Level : \A t \in Q[p] : /\ state'[t] = "READY" \/ FallingAsleep(t)'
                                         /\ staticPriority'[t] = p
    BY <1>5, <1>11, <1>19, <2>2
  <2>4. \A t \in S : state'[t] = "DELAYED" /\ staticPriority'[t] \in Level
    BY <1>5, <1>11, <1>17 DEF Settled
  <2> QED BY <1>5, <1>8, <1>9, <1>17, <2>3, <2>4 DEF Settled
<1>21. PInv' BY <1>12, <1>13, <1>15, <1>16, <1>20 DEF PInv
<1> QED BY <1>5, <1>8, <1>9, <1>21 DEF Stutters

----------------------------------------------------------------------------
(* Leaving a call, by yielding or for a tick: the lists are settled as they *)
(* are, and that is one step of AbstractScheduler.                          *)

\* The thread gives up the processor with the lists as they are.
Leaves ==
  /\ cpu = "thread" /\ ~pendsv /\ cpu' = "thread" /\ pendsv'
  /\ settled' = lists' /\ UNCHANGED <<tasks, activeTask>>

LEMMA SettledWhenLeft ==
  ASSUME Leaves, NEW R, NEW T, WellFormed(lists, R, T), activeTask # NULL,
         \A p \in Level : \A t \in R[p] : state[t] = "READY" /\ staticPriority[t] = p,
         \A t \in T : state[t] = "DELAYED" /\ staticPriority[t] \in Level,
         IdleTask \in R[IDLE]
  PROVE  Settled(R, T)'
BY DEF Leaves, tasks, Settled

LEMMA ModeWhenLeft == Leaves => Mode = "running" /\ Mode' = "switching"
BY DEF Leaves, Mode

\* Outside a call, or before its first store.
LEMMA LeftSettled ==
  ASSUME PInv, Leaves, lists = settled
  PROVE  (\E R \in Queues, T \in SUBSET TCB : Settled(R, T)') /\ Abstract!Preempt
<1>1. PICK Q \in Queues, S \in SUBSET TCB : Settled(Q, S) BY DEF PInv
<1>2. \A t : ~FallingAsleep(t) BY DEF FallingAsleep
<1>3. Settled(Q, S)' BY <1>1, <1>2, SettledWhenLeft DEF Settled
<1>4. Abstract!Preempt BY ModeWhenLeft DEF Leaves, tasks, Abstract!Preempt
<1> QED BY <1>3, <1>4

\* After osKillTask has taken a task from its queue.
LEMMA LeftTaken ==
  ASSUME PInv, Leaves, Executing, pc[self] # "run", local[self].op = "kill",
         IsQueued(settled, local[self], state[Subject]),
         lists = Taken(settled, local[self], Queue)
  PROVE  (\E R \in Queues, T \in SUBSET TCB : Settled(R, T)') /\ Abstract!EndQueued(Subject)
<1>1. /\ Subject \in Task /\ Subject \in TCB /\ Queue \in Level /\ local[self].task = Subject
      /\ state[Subject] = "READY"
  BY CallFacts DEF Leaves, IsQueued
<1>2. PICK Q \in Queues, S \in SUBSET TCB : Settled(Q, S) /\ Subject \in Q[Queue]
  BY <1>1, QueuedSubject DEF Leaves, IsQueued
<1>3. WellFormed(settled, Q, S) /\ lists = _readyQueueRemoveTask(settled, Queue, Subject)
  BY <1>1, <1>2 DEF Settled, Taken
<1>4. PICK R : R = QueueLeft(Q, Queue, Subject) OBVIOUS
<1>5. WellFormed(lists, R, S) BY <1>1, <1>2, <1>3, <1>4, ReadyRemoveWellFormed
<1>6. /\ R \in Queues /\ \A q \in Level : R[q] \subseteq Q[q]
      /\ \A q \in Level : \A t \in Q[q] : t = Subject \/ t \in R[q]
  BY <1>1, <1>4 DEF Queues, Left, QueueLeft
<1>7. Settled(R, S)'
  <2>1. \A t : ~FallingAsleep(t)
    <3>1. local[self].op # "delay" OBVIOUS
    <3> QED BY <3>1 DEF FallingAsleep
  <2>2. \A q \in Level : \A t \in R[q] : state[t] = "READY" /\ staticPriority[t] = q
    BY <1>2, <1>6, <2>1 DEF Settled
  <2>3. IdleTask \in R[IDLE]
    BY <1>1, <1>2, <1>6, IdleIsALevel, TasksAreNotNull DEF Settled
  <2> QED BY <1>2, <1>5, <2>2, <2>3, SettledWhenLeft DEF Settled
<1>8. /\ Asleep(lists) = Asleep(settled)
      /\ \E i \in DOMAIN Ring(settled, Queue) :
           /\ Ring(settled, Queue)[i] = Subject
           /\ Rings(lists) = [Rings(settled) EXCEPT ![Queue] = Resumed(@, i)]
  BY <1>1, <1>2, <1>3, RemoveSeen
<1>9. settled' = lists /\ UNCHANGED <<staticPriority, activeTask>> BY DEF Leaves, tasks
<1>10. Abstract!EndQueued(Subject)
  <2>1. \A s, i : Resumed(s, i) = Abstract!ResumeAfter(s, i)
    BY DEF Resumed, Abstract!ResumeAfter
  <2> QED BY <1>1, <1>8, <1>9, <2>1, ModeWhenLeft DEF Abstract!EndQueued, Rings, Queue
<1> QED BY <1>6, <1>7, <1>10

\* After it has taken a sleeper from the delayed list; a task that is in no
\* list stays so.
LEMMA LeftDropped ==
  ASSUME PInv, Leaves, Executing, pc[self] # "run", local[self].op = "kill",
         state[Subject] = "DELAYED", lists = _listRemoveTask(settled, Subject)
  PROVE  /\ \E R \in Queues, T \in SUBSET TCB : Settled(R, T)'
         /\ Abstract!EndAsleep(Subject) \/ Abstract!Preempt
<1>1. Subject \in Task /\ Subject \in TCB /\ settled \in ListRecord BY CallFacts DEF Leaves
<1>2. PICK Q \in Queues, S \in SUBSET TCB : Settled(Q, S) BY DEF PInv
<1>3. WellFormed(settled, Q, S) BY <1>2 DEF Settled
<1>4. \A t : ~FallingAsleep(t)
  <2>1. local[self].op # "delay" OBVIOUS
  <2> QED BY <2>1 DEF FallingAsleep
<1>5. \A p \in Level : Subject \notin Q[p] BY <1>2, <1>4 DEF Settled
<1>6. CASE Subject \in S
  <2>1. PICK T \in SUBSET TCB : T = Left(S, Subject) BY DEF Left
  <2>2. WellFormed(lists, Q, T) BY <1>3, <1>6, <2>1, ListRemoveWellFormed
  <2>3. Settled(Q, T)'
    <3>1. T \subseteq S BY <2>1 DEF Left
    <3> QED BY <1>2, <1>4, <2>2, <3>1, SettledWhenLeft DEF Settled
  <2>4. /\ Rings(lists) = Rings(settled)
        /\ Subject \in Asleep(settled) /\ Asleep(lists) = Asleep(settled) \ {Subject}
    BY <1>3, <1>6, DropSeen
  <2>5. settled' = lists /\ UNCHANGED <<staticPriority, activeTask>> BY DEF Leaves, tasks
  <2>6. Abstract!EndAsleep(Subject) BY <2>4, <2>5, ModeWhenLeft DEF Abstract!EndAsleep, Rings
  <2> QED BY <2>3, <2>6
<1>7. CASE Subject \notin S
  <2>1. Nowhere(Subject, Q, S) BY <1>1, <1>5, <1>7 DEF Nowhere
  <2>2. lists = settled BY <1>1, <1>3, <2>1, LinkedSomewhere, RemoveUnlinked
  <2> QED BY <2>2, LeftSettled
<1> QED BY <1>6, <1>7

\* After osDelay has moved its task to the delayed list.
LEMMA LeftDelayed ==
  ASSUME PInv, Leaves, Executing, pc[self] # "run", local[self].op = "delay",
         state[Subject] = "DELAYED",
         lists = _listAddTask(Taken(settled, local[self], Queue), Subject)
  PROVE  (\E R \in Queues, T \in SUBSET TCB : Settled(R, T)') /\ Abstract!Sleep
<1>1. self \in Task /\ self \in TCB /\ local[self].task = Subject /\ Subject = self
  BY CallFacts, DelayIsOwn DEF Leaves
<1>2. PICK Q \in Queues, S \in SUBSET TCB : Settled(Q, S) BY DEF PInv
<1>3. PICK p \in Level : self \in Q[p] BY <1>2 DEF Settled, Leaves, Executing, self
<1>4. staticPriority[self] = p /\ Queue = p BY <1>1, <1>2, <1>3 DEF Settled, Queue
<1>5. lists = _listAddTask(_readyQueueRemoveTask(settled, p, self), self)
  BY <1>1, <1>4 DEF Taken
<1>6. WellFormed(settled, Q, S) BY <1>2 DEF Settled
<1>7. PICK R : R = QueueLeft(Q, p, self) OBVIOUS
<1>8. PICK T : T = Joined(S, self) OBVIOUS
<1>9. /\ WellFormed(lists, R, T)
      /\ Asleep(lists) = Asleep(settled) \cup {self}
      /\ \E i \in DOMAIN Ring(settled, p) :
           /\ Ring(settled, p)[i] = self
           /\ Rings(lists) = [Rings(settled) EXCEPT ![p] = Resumed(@, i)]
  BY <1>3, <1>5, <1>6, <1>7, <1>8, SleepSeen
<1>10. /\ R \in Queues /\ \A q \in Level : R[q] \subseteq Q[q]
       /\ \A q \in Level : \A t \in Q[q] : t = self \/ t \in R[q]
       /\ self \notin R[p]
  BY <1>3, <1>7 DEF Queues, Left, QueueLeft
<1>11. T \in SUBSET TCB /\ \A t \in T : t \in S \/ t = self BY <1>1, <1>8 DEF Joined
<1>12. Settled(R, T)'
  <2>1. \A t : FallingAsleep(t) => t = self BY DEF FallingAsleep
  <2>2. ASSUME NEW q \in Level, NEW t \in R[q]
        PROVE  state[t] = "READY" /\ staticPriority[t] = q
    <3>1. t \in Q[q] BY <1>10
    <3>2. staticPriority[t] = q BY <1>2, <3>1 DEF Settled
    <3>3. t # self BY <1>4, <1>10, <3>2
    <3> QED BY <1>2, <2>1, <3>1, <3>2, <3>3 DEF Settled
  <2>3. \A t \in T : state[t] = "DELAYED" /\ staticPriority[t] \in Level
    BY <1>1, <1>2, <1>4, <1>11 DEF Settled
  <2>4. IdleTask \in R[IDLE]
    BY <1>1, <1>2, <1>10, IdleIsALevel, TasksAreNotNull DEF Settled
  <2> QED BY <1>2, <1>9, <2>2, <2>3, <2>4, SettledWhenLeft DEF Settled
<1>13. settled' = lists /\ activeTask' = activeTask /\ staticPriority' = staticPriority
  BY DEF Leaves, tasks
<1>14. Abstract!Sleep
  <2>1. \A s, i : Resumed(s, i) = Abstract!ResumeAfter(s, i)
    BY DEF Resumed, Abstract!ResumeAfter
  <2>2. staticPriority[activeTask] = p /\ activeTask = self BY <1>4 DEF self
  <2>3. Mode = "running" /\ Mode' = "switching" BY ModeWhenLeft
  <2>4. /\ Asleep(settled') = Asleep(settled) \cup {activeTask}
        /\ \E i \in DOMAIN Ring(settled, p) :
             /\ Ring(settled, p)[i] = activeTask
             /\ Rings(settled') = [Rings(settled) EXCEPT ![p] = Abstract!ResumeAfter(@, i)]
    BY <1>9, <1>13, <2>1, <2>2
  <2> QED BY <1>13, <2>2, <2>3, <2>4 DEF Abstract!Sleep, Rings
<1> QED BY <1>10, <1>11, <1>12, <1>14

\* Wherever a thread may give up the processor.
LEMMA LeftAnywhere ==
  ASSUME PInv, Leaves,
         \/ lists = settled
         \/ /\ Executing /\ pc[self] # "run"
            /\ Yielding(lists, settled, local[self], state[Subject], Queue, pc[self])
  PROVE  /\ \E R \in Queues, T \in SUBSET TCB : Settled(R, T)'
         /\ \/ Abstract!Preempt \/ Abstract!Sleep
            \/ \E u \in Task : Abstract!EndQueued(u) \/ Abstract!EndAsleep(u)
<1>1. CASE lists = settled BY <1>1, LeftSettled
<1>2. ASSUME Executing, pc[self] # "run",
             Yielding(lists, settled, local[self], state[Subject], Queue, pc[self])
      PROVE  /\ \E R \in Queues, T \in SUBSET TCB : Settled(R, T)'
             /\ \/ Abstract!Preempt \/ Abstract!Sleep
                \/ \E u \in Task : Abstract!EndQueued(u) \/ Abstract!EndAsleep(u)
  <2>1. Subject \in Task /\ local[self].task = Subject BY <1>2, CallFacts DEF Leaves
  <2>2. CASE /\ local[self].op = "kill" /\ IsQueued(settled, local[self], state[Subject])
             /\ lists = Taken(settled, local[self], Queue)
    BY <1>2, <2>1, <2>2, LeftTaken
  <2>3. CASE /\ local[self].op = "kill" /\ state[Subject] = "DELAYED"
             /\ lists = _listRemoveTask(settled, local[self].task)
    BY <1>2, <2>1, <2>3, LeftDropped
  <2>4. CASE /\ local[self].op = "delay" /\ state[Subject] = "DELAYED"
             /\ lists = _listAddTask(Taken(settled, local[self], Queue), local[self].task)
    BY <1>2, <2>1, <2>4, LeftDelayed
  <2> QED BY <1>1, <1>2, <2>2, <2>3, <2>4 DEF Yielding
<1> QED BY <1>1, <1>2

LEMMA YieldKeeps ==
  ASSUME PInv, Settle, osYield
  PROVE  /\ PInv'
         /\ \/ Abstract!Preempt \/ Abstract!Sleep
            \/ \E u \in Task : Abstract!EndQueued(u) \/ Abstract!EndAsleep(u)
<1>1. Executing /\ self \in Task /\ pc[self] = "yield" /\ pc[self] # "run"
  BY DEF osYield, At, Executing, self
<1>2. /\ Midway(lists, settled, local[self], state[Subject], Queue, "yield")
      /\ lists \in ListRecord /\ ~lists.fault
  BY <1>1, CallFacts
<1>3. Yielding(lists, settled, local[self], state[Subject], Queue, pc[self])
  BY <1>1, <1>2 DEF Midway, Untouched, Removing, Adding, Pushing, Dropping
<1>4. /\ pendsv' = TRUE /\ pc' = [pc EXCEPT ![self] = "return"]
      /\ UNCHANGED <<tasks, kernel, local, slept>>
  BY DEF osYield, Goto
<1>5. settled' = lists' BY <1>4 DEF Settle
<1>6. Leaves BY <1>1, <1>4, <1>5 DEF Leaves, Executing, kernel
<1>7. /\ \E R \in Queues, T \in SUBSET TCB : Settled(R, T)'
      /\ \/ Abstract!Preempt \/ Abstract!Sleep
         \/ \E u \in Task : Abstract!EndQueued(u) \/ Abstract!EndAsleep(u)
  BY <1>1, <1>3, <1>6, LeftAnywhere
<1>8. PICK R \in Queues, T \in SUBSET TCB : Settled(R, T)' BY <1>7
<1>9. UNCHANGED <<lists, state, staticPriority, nextExecTimeUs, kernel, local, slept>>
  BY <1>4 DEF tasks
<1>10. PInv' BY <1>1, <1>2, <1>4, <1>5, <1>8, <1>9, CompletedKeeps
<1> QED BY <1>7, <1>10

----------------------------------------------------------------------------
(* The beginning and the end of a call: the lists stay settled.             *)

\* The longest delay is a number of milliseconds.
LEMMA EnoughIsNat == Enough \in Nat
<1>1. PICK longest \in Delays : \A d \in Delays : d <= longest BY WorkloadAssumption
<1>2. longest \in Nat /\ Delays \subseteq Nat BY WorkloadAssumption
<1>3. \E n \in {d + 1 : d \in Delays} : \A d \in Delays : n >= d + 1
  BY <1>1, <1>2
<1>4. Enough \in {d + 1 : d \in Delays} BY <1>3 DEF Enough
<1> QED BY <1>2, <1>4

LEMMA NoCallType == NoCall \in Locals
BY TimeAssumption DEF NoCall, Locals, Pointer, Time

\* At the first statement of the application, or the last of a call.
LEMMA OutsideCall ==
  ASSUME PInv, Executing, pc[self] \in {"run", "return"}
  PROVE  lists = settled
BY DEF PInv, InCall, Midway, Untouched, Removing, Adding, Pushing, Dropping, Yielding

LEMMA ReturnKeeps ==
  ASSUME PInv, Settle, Return
  PROVE  PInv' /\ Stutters
<1>1. Executing /\ self \in Task /\ pc[self] = "return" BY DEF Return, At, Executing, self
<1>2. lists = settled BY <1>1, OutsideCall
<1>3. /\ pc' = [pc EXCEPT ![self] = "run"] /\ local' = [local EXCEPT ![self] = NoCall]
      /\ slept' = [slept EXCEPT ![self] = 0]
      /\ UNCHANGED vars
  BY DEF Return, Goto
<1>4. /\ UNCHANGED <<lists, state, staticPriority, nextExecTimeUs, dynamicPriority>>
      /\ UNCHANGED <<activeTask, timestamp, cpu, cursor, pendsv>>
  BY <1>3 DEF vars
<1>5. /\ pc \in [Task -> Points] /\ pendsv = FALSE /\ local \in [Task -> Locals]
      /\ slept \in [Task -> 0 .. Enough]
  BY <1>1 DEF PInv, PTypeOK, TypeOK, Control, Executing, Locals
<1>6. /\ pc'[self] = "run" /\ \A t \in Task : t # self => pc'[t] = pc[t]
      /\ local'[self] = NoCall /\ \A t \in Task : t # self => local'[t] = local[t]
  BY <1>1, <1>3, <1>5
<1>7. settled' = settled BY <1>4, <1>5, <1>6 DEF Settle
<1>8. local' \in [Task -> Locals] /\ slept' \in [Task -> 0 .. Enough]
  BY <1>1, <1>3, <1>5, NoCallType, EnoughIsNat
<1>9. PTypeOK' BY <1>4, <1>7, <1>8 DEF PInv, PTypeOK, TypeOK, Locals
<1>10. Executing' /\ self' = self BY <1>1, <1>4 DEF Executing, self
<1>11. InCall' BY <1>2, <1>4, <1>6, <1>7, <1>10 DEF InCall, Midway, Untouched
<1>12. \A t \in Task : Coherent(t)'
  <2>1. ASSUME NEW t \in Task, t = self PROVE Coherent(t)'
    BY <1>1, <1>6, <2>1 DEF Coherent, Waits, NoCall
  <2>2. ASSUME NEW t \in Task, t # self PROVE Coherent(t)'
    BY <1>4, <1>6, <2>2 DEF PInv, Control, Coherent, Waits, self
  <2> QED BY <2>1, <2>2
<1>13. Control'
  <2>1. pc' \in [Task -> Points] BY <1>1, <1>3, <1>5 DEF Points
  <2> QED BY <1>4, <1>7, <1>12, <2>1 DEF PInv, Control
<1>14. PriorityInv' BY <1>4 DEF PInv, PriorityInv
<1>15. PICK Q \in Queues, S \in SUBSET TCB : Settled(Q, S) BY DEF PInv
<1>16. \A t : ~FallingAsleep(t) BY <1>2 DEF FallingAsleep
<1>17. Settled(Q, S)' BY <1>4, <1>7, <1>15, <1>16 DEF Settled
<1> QED BY <1>4, <1>7, <1>9, <1>11, <1>13, <1>14, <1>17 DEF PInv, Stutters

LEMMA ContinueKeeps ==
  ASSUME PInv, Continue
  PROVE  /\ PInv'
         /\ \/ Stutters \/ Abstract!Preempt \/ Abstract!Sleep
            \/ \E u \in Task : Abstract!Start(u) \/ Abstract!EndQueued(u) \/ Abstract!EndAsleep(u)
<1>1. Settle BY DEF Continue
<1>2. CASE RemoveFromQueue BY <1>1, <1>2, RemoveKeeps
<1>3. CASE PushToQueue BY <1>1, <1>3, PushKeeps
<1>4. CASE AddToDelayed BY <1>1, <1>4, AddKeeps
<1>5. CASE RemoveFromDelayed BY <1>1, <1>5, DropKeeps
<1>6. CASE StoreNextExecTime BY <1>1, <1>6, StoreTimeKeeps
<1>7. CASE StoreDelayed BY <1>1, <1>7, StoreStateKeeps
<1>8. CASE osYield BY <1>1, <1>8, YieldKeeps
<1>9. CASE Return BY <1>1, <1>9, ReturnKeeps
<1> QED BY <1>2, <1>3, <1>4, <1>5, <1>6, <1>7, <1>8, <1>9 DEF Continue

LEMMA BeginKeeps ==
  ASSUME PInv, NEW u \in Task, NEW d \in Delays \cup {0}, NEW call \in {"start", "kill", "delay"},
         NEW h \in Points, h # "run", Begins(call, u, d, h), call = "delay" => u = self,
         UNCHANGED <<lists, staticPriority, nextExecTimeUs, kernel, pendsv, slept>>,
         state' \in [TCB -> {"READY", "DELAYED"}],
         \A t \in TCB : state'[t] = state[t] \/ (t = u /\ Unlinked(u)),
         \A c : c.op = call /\ c.task = u =>
                  Midway(lists, lists, c, state'[u], staticPriority[u], h)
  PROVE  PInv' /\ Stutters
<1>1. Executing /\ self \in Task /\ pc[self] = "run" BY DEF Begins, At, Executing, self
<1>2. lists = settled BY <1>1, OutsideCall
<1>3. PICK c : c = [NoCall EXCEPT !.op = call, !.task = u, !.time = timestamp, !.delayMs = d]
  OBVIOUS
<1>4. pc' = [pc EXCEPT ![self] = h] /\ local' = [local EXCEPT ![self] = c] /\ settled' = settled
  BY <1>3 DEF Begins, Goto
<1>5. /\ pc \in [Task -> Points] /\ local \in [Task -> Locals] /\ timestamp \in Time
      /\ cpu = "thread"
  BY <1>1 DEF PInv, PTypeOK, TypeOK, Control, Locals, Executing
<1>6. c \in Locals /\ c.op = call /\ c.task = u
  BY <1>3, <1>5, NoCallType DEF NoCall, Locals, Pointer, TCB
<1>7. /\ pc'[self] = h /\ \A t \in Task : t # self => pc'[t] = pc[t]
      /\ local'[self] = c /\ \A t \in Task : t # self => local'[t] = local[t]
  BY <1>1, <1>4, <1>5
<1>8. UNCHANGED <<activeTask, cpu, dynamicPriority, timestamp, cursor>> BY DEF kernel
<1>9. PTypeOK'
  <2>1. local' \in [Task -> Locals] BY <1>1, <1>4, <1>5, <1>6
  <2> QED BY <1>4, <1>8, <2>1 DEF PInv, PTypeOK, TypeOK, Locals
<1>10. Executing' /\ self' = self BY <1>1, <1>8 DEF Executing, self
<1>11. InCall'
  <2>1. Midway(lists, lists, c, state'[u], staticPriority[u], h) BY <1>6
  <2> QED BY <1>2, <1>4, <1>6, <1>7, <1>10, <2>1 DEF InCall, Subject, Queue
<1>12. \A t \in Task : Coherent(t)'
  <2>1. ASSUME NEW t \in Task, t = self PROVE Coherent(t)'
    BY <1>1, <1>6, <1>7, <1>10, <2>1 DEF Coherent, Waits, self
  <2>2. ASSUME NEW t \in Task, t # self PROVE Coherent(t)'
    BY <1>7, <1>8, <2>2 DEF PInv, Control, Coherent, Waits, self
  <2> QED BY <2>1, <2>2
<1>13. Control'
  <2>1. pc' \in [Task -> Points] BY <1>1, <1>4, <1>5
  <2> QED BY <1>4, <1>5, <1>8, <1>12, <2>1 DEF PInv, Control
<1>14. PriorityInv' BY <1>8 DEF PInv, PriorityInv
<1>15. PICK Q \in Queues, S \in SUBSET TCB : Settled(Q, S) BY DEF PInv
<1>16. \A t : ~FallingAsleep(t) BY <1>2 DEF FallingAsleep
<1>17. ASSUME NEW t \in TCB, ~Nowhere(t, Q, S) PROVE state'[t] = state[t]
  <2>1. Consistent(Q, S) BY <1>2, <1>15, SettledIsConsistent
  <2>2. ~Unlinked(t) BY <1>17, <2>1, UnlinkedIsNowhere
  <2> QED BY <2>2
<1>18. Settled(Q, S)'
  <2>1. \A p \in Level : \A t \in Q[p] : state'[t] = "READY" /\ staticPriority[t] = p
    <3>1. \A p \in Level : \A t \in Q[p] : t \in TCB /\ ~Nowhere(t, Q, S)
      BY DEF Nowhere, Queues
    <3> QED BY <1>15, <1>16, <1>17, <3>1 DEF Settled
  <2>2. \A t \in S : state'[t] = "DELAYED" /\ staticPriority[t] \in Level
    <3>1. \A t \in S : t \in TCB /\ ~Nowhere(t, Q, S) BY DEF Nowhere
    <3> QED BY <1>15, <1>17, <3>1 DEF Settled
  <2> QED BY <1>4, <1>8, <1>15, <2>1, <2>2 DEF Settled
<1>19. PInv' BY <1>9, <1>11, <1>13, <1>14, <1>18 DEF PInv
<1> QED BY <1>4, <1>8, <1>19 DEF Stutters

LEMMA DelayBegins ==
  ASSUME PInv, NEW d \in Delays, osDelay(d)
  PROVE  PInv' /\ Stutters
<1>1. Begins("delay", self, d, "store") /\ UNCHANGED <<vars, slept>> BY DEF osDelay
<1>2. self \in Task BY <1>1 DEF Begins, At, Executing, self
<1>3. UNCHANGED <<lists, state, staticPriority, nextExecTimeUs, kernel, pendsv, slept>>
  BY <1>1 DEF vars, kernel
<1>4. state' \in [TCB -> {"READY", "DELAYED"}] BY <1>3 DEF PInv, PTypeOK, TypeOK
<1>5. \A c : c.op = "delay" =>
        Midway(lists, lists, c, state'[self], staticPriority[self], "store")
  BY DEF Midway, Untouched
<1> QED BY <1>1, <1>2, <1>3, <1>4, <1>5, BeginKeeps DEF Points

LEMMA StartBegins ==
  ASSUME PInv, NEW u \in Task, osStartTask(u)
  PROVE  PInv' /\ Stutters
<1>1. /\ Begins("start", u, 0, "push") /\ Unlinked(u)
      /\ state' = [state EXCEPT ![u] = "READY"]
      /\ UNCHANGED <<lists, staticPriority, nextExecTimeUs, kernel, pendsv, slept>>
  BY DEF osStartTask
<1>2. u \in TCB /\ state \in [TCB -> {"READY", "DELAYED"}]
  BY DEF TCB, PInv, PTypeOK, TypeOK
<1>3. /\ state' \in [TCB -> {"READY", "DELAYED"}] /\ state'[u] = "READY"
      /\ \A t \in TCB : state'[t] = state[t] \/ (t = u /\ Unlinked(u))
  BY <1>1, <1>2
<1>4. \A c : c.op = "start" /\ c.task = u =>
        Midway(lists, lists, c, state'[u], staticPriority[u], "push")
  BY <1>1, <1>3 DEF Unlinked, Midway, Pushing
<1> QED BY <1>1, <1>3, <1>4, BeginKeeps DEF Points

LEMMA KillBegins ==
  ASSUME PInv, NEW u \in Task, osKillTask(u)
  PROVE  PInv' /\ Stutters
<1>1. PICK h : h = IF state[u] = "READY" THEN "unlink" ELSE "drop" OBVIOUS
<1>2. /\ Begins("kill", u, 0, h) /\ UNCHANGED <<vars, slept>>
      /\ Unlinked(u) => state[u] = "DELAYED"
  BY <1>1 DEF osKillTask
<1>3. UNCHANGED <<lists, state, staticPriority, nextExecTimeUs, kernel, pendsv, slept>>
  BY <1>2 DEF vars, kernel
<1>4. u \in TCB /\ state \in [TCB -> {"READY", "DELAYED"}]
  BY DEF TCB, PInv, PTypeOK, TypeOK
<1>5. ASSUME state[u] = "READY" PROVE lists.next[u] # NULL
  <2>1. lists = settled BY <1>2, OutsideCall DEF Begins, At
  <2>2. PICK Q \in Queues, S \in SUBSET TCB : Consistent(Q, S)
    BY <2>1, SettledIsConsistent DEF PInv
  <2>3. ~Unlinked(u) BY <1>2, <1>5
  <2>4. ~Nowhere(u, Q, S) BY <1>4, <2>2, <2>3, UnlinkedIsNowhere
  <2>5. u \notin S BY <1>5, <2>2 DEF Consistent
  <2>6. PICK p \in Level : u \in Q[p] BY <1>4, <2>4, <2>5 DEF Nowhere
  <2>7. lists.next[u] \in Q[p] BY <2>2, <2>6, InRing DEF Consistent
  <2> QED BY <2>7, IdleIsALevel DEF Queues
<1>6. \A c : c.op = "kill" /\ c.task = u =>
        Midway(lists, lists, c, state[u], staticPriority[u], h)
  <2>1. CASE state[u] = "READY"
    BY <1>1, <1>5, <2>1 DEF Midway, Removing, IsQueued
  <2>2. CASE state[u] = "DELAYED"
    BY <1>1, <2>2 DEF Midway, Dropping
  <2> QED BY <1>4, <2>1, <2>2
<1>7. h \in Points /\ h # "run" BY <1>1 DEF Points
<1> QED BY <1>2, <1>3, <1>4, <1>6, <1>7, BeginKeeps

----------------------------------------------------------------------------
(* The calls that are one step.                                             *)

\* Only a task that executes is inside a call.
LEMMA NotExecuting ==
  ASSUME PInv, ~Executing
  PROVE  lists = settled /\ \A t \in Task : Waits(t)
BY DEF PInv, InCall, Control, Coherent

\* A task that is initialised anew is in no list, and not the one that does it.
LEMMA InitTaskKeeps ==
  ASSUME PInv, NEW u \in Task, NEW p \in Priorities, osInitTask(u, p)
  PROVE  PInv' /\ Abstract!SetPriority(u, p)
<1>1. /\ InMain \/ At("run")
      /\ Unlinked(u) /\ staticPriority' = [staticPriority EXCEPT ![u] = p]
      /\ pc' = [pc EXCEPT ![u] = "run"] /\ local' = [local EXCEPT ![u] = NoCall]
      /\ slept' = [slept EXCEPT ![u] = 0]
      /\ UNCHANGED <<lists, state, nextExecTimeUs, kernel, pendsv, settled>>
  BY DEF osInitTask
<1>2. lists = settled
  BY <1>1, NotExecuting, OutsideCall DEF At, InMain, Executing
<1>3. UNCHANGED <<activeTask, cpu, dynamicPriority, timestamp, cursor>> BY <1>1 DEF kernel
<1>4. /\ pc \in [Task -> Points] /\ local \in [Task -> Locals] /\ staticPriority \in [TCB -> UInt8]
      /\ slept \in [Task -> 0 .. Enough] /\ p \in Level /\ u \in TCB
  BY WorkloadAssumption DEF PInv, PTypeOK, TypeOK, Control, Locals, TCB
<1>5. /\ pc'[u] = "run" /\ \A t \in Task : t # u => pc'[t] = pc[t]
      /\ local'[u] = NoCall /\ \A t \in Task : t # u => local'[t] = local[t]
      /\ staticPriority'[u] = p /\ \A t \in TCB : t # u => staticPriority'[t] = staticPriority[t]
  BY <1>1, <1>4
<1>6. PICK Q \in Queues, S \in SUBSET TCB : Settled(Q, S) BY DEF PInv
<1>7. Nowhere(u, Q, S)
  <2>1. Consistent(Q, S) BY <1>2, <1>6, SettledIsConsistent
  <2> QED BY <1>1, <1>4, <2>1, UnlinkedIsNowhere
<1>8. PTypeOK'
  <2>1. p \in UInt8 BY <1>4 DEF Level, UInt8, TASK_PRIORITY_LVL_NUM
  <2>2. staticPriority' \in [TCB -> UInt8] /\ local' \in [Task -> Locals]
        /\ slept' \in [Task -> 0 .. Enough]
    BY <1>1, <1>4, <2>1, NoCallType, EnoughIsNat
  <2> QED BY <1>1, <1>3, <2>2 DEF PInv, PTypeOK, TypeOK, Locals
<1>9. u # activeTask \/ cpu = "main"
  <2>1. ASSUME At("run") PROVE u # activeTask
    BY <1>6, <1>7, <2>1 DEF At, Executing, Settled, Nowhere
  <2> QED BY <1>1, <2>1 DEF InMain
<1>10. InCall'
  <2>1. CASE At("run")
    <3>1. Executing' /\ self' = self /\ pc'[self] = "run"
      BY <1>1, <1>3, <1>5, <2>1 DEF At, Executing, self
    <3> QED BY <1>1, <1>2, <3>1 DEF InCall, Midway, Untouched
  <2>2. CASE InMain
    <3>1. ~Executing' BY <1>3, <2>2 DEF InMain, Executing
    <3> QED BY <1>1, <1>2, <3>1 DEF InCall
  <2> QED BY <1>1, <2>1, <2>2
<1>11. \A t \in Task : Coherent(t)'
  <2>1. ASSUME NEW t \in Task, t = u PROVE Coherent(t)'
    BY <1>5, <2>1 DEF Coherent, Waits, NoCall
  <2>2. ASSUME NEW t \in Task, t # u PROVE Coherent(t)'
    <3>1. Executing' <=> Executing BY <1>1, <1>3 DEF Executing
    <3> QED BY <1>3, <1>5, <2>2, <3>1 DEF PInv, Control, Coherent, Waits
  <2> QED BY <2>1, <2>2
<1>12. Control'
  <2>1. pc' \in [Task -> Points] BY <1>1, <1>4 DEF Points
  <2>2. \A t \in TCB : staticPriority'[t] \in Level
    BY <1>4, <1>5 DEF PInv, Control
  <2> QED BY <1>1, <1>3, <1>11, <2>1, <2>2 DEF PInv, Control
<1>13. PriorityInv' BY <1>3 DEF PInv, PriorityInv
<1>14. Settled(Q, S)'
  <2>1. \A t : ~FallingAsleep(t) BY <1>2 DEF FallingAsleep
  <2>2. \A q \in Level : \A t \in Q[q] : t \in TCB /\ t # u
    BY <1>7 DEF Nowhere, Queues
  <2>3. \A q \in Level : \A t \in Q[q] : state[t] = "READY" /\ staticPriority'[t] = q
    BY <1>5, <1>6, <2>1, <2>2 DEF Settled
  <2>4. \A t \in S : state[t] = "DELAYED" /\ staticPriority'[t] \in Level
    BY <1>4, <1>5, <1>6 DEF Settled
  <2> QED BY <1>1, <1>3, <1>6, <2>3, <2>4 DEF Settled
<1>15. PInv' BY <1>8, <1>10, <1>12, <1>13, <1>14 DEF PInv
<1>16. Abstract!SetPriority(u, p)
  <2>1. WellFormed(settled, Q, S) BY <1>6 DEF Settled
  <2>2. Abstract!Outside(u)
    BY <1>7, <2>1, Seen DEF Nowhere, Abstract!Outside, Abstract!Queued
  <2>3. Mode # "switching" /\ Mode' = Mode
    BY <1>1, <1>3 DEF Mode, At, InMain, Executing
  <2> QED BY <1>1, <1>3, <2>2, <2>3 DEF Abstract!SetPriority
<1> QED BY <1>15, <1>16

LEMMA BootTaskKeeps ==
  ASSUME PInv, NEW u \in Task, BootTask(u)
  PROVE  PInv' /\ Abstract!Start(u)
<1>1. /\ cpu = "main" /\ Unlinked(u)
      /\ lists' = _readyQueuePushTask(lists, staticPriority[u], u) /\ settled' = lists'
      /\ UNCHANGED <<state, staticPriority, nextExecTimeUs, kernel, pendsv, pc, local, slept>>
  BY DEF BootTask, InMain
<1>2. lists = settled /\ \A t \in Task : Waits(t) BY <1>1, NotExecuting DEF Executing
<1>3. UNCHANGED <<activeTask, cpu, dynamicPriority, timestamp, cursor>> BY <1>1 DEF kernel
<1>4. PICK p \in Level : p = staticPriority[u] BY DEF PInv, Control, TCB
<1>5. PICK Q \in Queues, S \in SUBSET TCB : Settled(Q, S) BY DEF PInv
<1>6. WellFormed(settled, Q, S) /\ u \in TCB BY <1>5 DEF Settled, TCB
<1>7. Nowhere(u, Q, S)
  <2>1. Consistent(Q, S) BY <1>2, <1>5, SettledIsConsistent
  <2> QED BY <1>1, <1>6, <2>1, UnlinkedIsNowhere
<1>8. PICK N : N = _readyQueuePushTask(settled, p, u) OBVIOUS
<1>9. lists' = N /\ settled' = N BY <1>1, <1>2, <1>4, <1>8
<1>10. PICK R : R = QueueJoined(Q, p, u) OBVIOUS
<1>11. WellFormed(N, R, S) /\ N.fault = settled.fault
  BY <1>6, <1>7, <1>8, <1>10, PushWellFormed
<1>12. /\ R \in Queues /\ \A q \in Level : Q[q] \subseteq R[q]
       /\ \A q \in Level : \A t \in R[q] : t \in Q[q] \/ (t = u /\ q = p)
  BY <1>6, <1>10 DEF Queues, Joined, QueueJoined
<1>13. N \in ListRecord BY <1>11 DEF WellFormed
<1>14. PTypeOK' BY <1>1, <1>3, <1>9, <1>13 DEF PInv, PTypeOK, TypeOK
<1>15. InCall' BY <1>1, <1>3, <1>9 DEF InCall, Executing
<1>16. Control'
  <2>1. \A t \in Task : Coherent(t)'
    BY <1>1, <1>2, <1>3 DEF PInv, Control, Coherent, Waits
  <2> QED BY <1>1, <1>3, <1>9, <1>11, <2>1 DEF PInv, Control
<1>17. PriorityInv' BY <1>3 DEF PInv, PriorityInv
<1>18. Settled(R, S)'
  <2>1. \A t : ~FallingAsleep(t) BY <1>2 DEF FallingAsleep
  <2>2. state[u] = "READY" BY <1>1, <1>6 DEF PInv, Control
  <2>3. \A q \in Level : \A t \in R[q] : state[t] = "READY" /\ staticPriority[t] = q
    BY <1>4, <1>5, <1>12, <2>1, <2>2 DEF Settled
  <2>4. IdleTask \in R[IDLE] BY <1>5, <1>12, IdleIsALevel DEF Settled
  <2> QED BY <1>1, <1>3, <1>5, <1>9, <1>11, <2>3, <2>4 DEF Settled
<1>19. PInv' BY <1>12, <1>14, <1>15, <1>16, <1>17, <1>18 DEF PInv
<1>20. Abstract!Start(u)
  <2>1. Mode # "switching" BY <1>1 DEF Mode
  <2> QED BY <1>1, <1>3, <1>4, <1>6, <1>7, <1>8, <1>9, <2>1, StartSettled
<1> QED BY <1>19, <1>20

----------------------------------------------------------------------------
(* The exceptions.                                                          *)

\* A tick finds the lists as a call found them or as it leaves them.
LEMMA TickKeeps ==
  ASSUME TickPoints \subseteq HarmlessTickPoints, PInv, Tick
  PROVE  /\ PInv'
         /\ \/ Abstract!Preempt \/ Abstract!Sleep
            \/ \E u \in Task : Abstract!EndQueued(u) \/ Abstract!EndAsleep(u)
<1>1. /\ cpu = "thread" /\ pendsv = FALSE /\ cpu' = "thread" /\ pendsv' = TRUE
      /\ timestamp' = AfterTick(timestamp) /\ settled' = lists'
      /\ UNCHANGED <<tasks, dynamicPriority, activeTask, cursor, pc, local>>
      /\ slept' = [t \in Task |-> IF local[t].op = "delay" /\ slept[t] < Enough
                                THEN slept[t] + 1 ELSE slept[t]]
  BY DEF Tick, SysTick_Handler, PInv, PTypeOK, TypeOK
<1>2. UNCHANGED <<lists, state, staticPriority, nextExecTimeUs>> BY <1>1 DEF tasks
<1>3. Executing => <<local[self].op, pc[self]>> \in HarmlessTickPoints
  BY DEF Tick, Executing, self
<1>4. \/ lists = settled
      \/ /\ Executing /\ pc[self] # "run"
         /\ Yielding(lists, settled, local[self], state[Subject], Queue, pc[self])
  <2>1. CASE ~Executing BY <2>1, NotExecuting
  <2>2. ASSUME Executing, pc[self] # "yield" PROVE lists = settled
    <3>1. pc[self] \in {"run", "store", "unlink"} BY <1>3, <2>2 DEF HarmlessTickPoints
    <3> QED BY <2>2, <3>1
        DEF PInv, InCall, Midway, Untouched, Removing, Adding, Pushing, Dropping, Yielding
  <2>3. ASSUME Executing, pc[self] = "yield"
        PROVE  Yielding(lists, settled, local[self], state[Subject], Queue, pc[self])
    BY <2>3 DEF PInv, InCall, Midway, Untouched, Removing, Adding, Pushing, Dropping
  <2> QED BY <2>1, <2>2, <2>3
<1>5. Leaves BY <1>1 DEF Leaves
<1>6. /\ \E R \in Queues, T \in SUBSET TCB : Settled(R, T)'
      /\ \/ Abstract!Preempt \/ Abstract!Sleep
         \/ \E u \in Task : Abstract!EndQueued(u) \/ Abstract!EndAsleep(u)
  BY <1>4, <1>5, LeftAnywhere
<1>7. PTypeOK'
  <2>1. timestamp' \in Time
    BY <1>1, TimeAssumption, TimeWraps DEF AfterTick, PInv, PTypeOK, TypeOK, Time
  <2>2. slept' \in [Task -> 0 .. Enough]
    BY <1>1, EnoughIsNat DEF PInv, PTypeOK
  <2> QED BY <1>1, <1>2, <2>1, <2>2 DEF PInv, PTypeOK, TypeOK
<1>8. InCall' BY <1>1 DEF InCall, Executing
<1>9. \A t \in Task : Waits(t)
  <2>1. Executing => Waits(self) BY <1>3 DEF HarmlessTickPoints, Waits
  <2> QED BY <2>1 DEF PInv, Control, Coherent, self
<1>10. Control'
  <2>1. \A t \in Task : Coherent(t)' BY <1>1, <1>9 DEF PInv, Control, Coherent, Waits
  <2> QED BY <1>1, <1>2, <2>1 DEF PInv, Control
<1>11. PriorityInv' BY <1>1 DEF PInv, PriorityInv
<1> QED BY <1>6, <1>7, <1>8, <1>10, <1>11 DEF PInv

\* While schedule() runs, and before osStart, no task is inside a call.
LEMMA SwitchOutside ==
  ASSUME PInv, Switch
  PROVE  /\ ~Executing /\ lists = settled /\ Inv /\ \A t \in Task : Waits(t)
         /\ settled' = lists' /\ UNCHANGED <<pc, local, slept, staticPriority>>
<1>1. ~Executing
  BY DEF Switch, PendSV_Handler, WakeExpired, Dispatch, osStart, Executing
<1>2. lists = settled /\ \A t \in Task : Waits(t) BY <1>1, NotExecuting
<1>3. settled' = lists' /\ UNCHANGED <<pc, local, slept, staticPriority>>
  BY DEF Switch, PendSV_Handler, WakeExpired, Dispatch, osStart, tasks
<1> QED BY <1>1, <1>2, <1>3, PInvIsInv

LEMMA SwitchKeeps ==
  ASSUME PInv, Switch
  PROVE  PInv'
<1>1. /\ ~Executing /\ lists = settled /\ Inv /\ \A t \in Task : Waits(t)
      /\ settled' = lists' /\ UNCHANGED <<pc, local, slept, staticPriority>>
  BY SwitchOutside
<1>2. PendSV_Handler \/ WakeExpired \/ Dispatch \/ osStart BY DEF Switch
<1>3. InPlace' /\ lists'.fault = lists.fault
  BY <1>1, <1>2, ControlKeeps, WakeExpiredKeeps, DispatchKeeps DEF StaysInPlace
<1>4. PICK Q \in Queues, S \in SUBSET TCB : Consistent(Q, S)' BY <1>3 DEF InPlace
<1>5. Settled(Q, S)' BY <1>1, <1>4 DEF Consistent, Settled
<1>6. PTypeOK'
  <2>1. TypeOK'
    <3>1. CASE osStart
      BY <1>1, <3>1 DEF Inv, TypeOK, osStart, SVC_Handler, tasks
    <3>2. CASE PendSV_Handler \/ WakeExpired \/ Dispatch
      BY <1>1, <3>2, ExceptionsType DEF Inv, Exceptions
    <3> QED BY <1>2, <3>1, <3>2
  <2>2. settled' \in ListRecord BY <1>1, <2>1 DEF TypeOK
  <2> QED BY <1>1, <2>1, <2>2 DEF PInv, PTypeOK
<1>7. InCall'
  <2>1. \A t \in Task : Midway(settled', settled', local[t], state'[local[t].task],
                               staticPriority'[local[t].task], pc[t])
    BY <1>1 DEF Waits, Midway, Untouched, Yielding
  <2>2. Executing' => activeTask' \in Task BY DEF Executing
  <2> QED BY <1>1, <2>1, <2>2 DEF InCall, self, Subject, Queue
<1>8. Control'
  <2>1. \A t \in Task : Coherent(t)' BY <1>1 DEF PInv, Control, Coherent, Waits
  <2>2. (pendsv' => cpu' = "thread") /\ cpu' # "main"
    BY <1>2 DEF PInv, Control, PendSV_Handler, WakeExpired, Dispatch, osStart, SVC_Handler
  <2> QED BY <1>1, <1>3, <2>1, <2>2 DEF PInv, Control
<1>9. PriorityInv'
  <2>1. CASE Dispatch BY <2>1, DispatchPriority DEF PInv
  <2>2. CASE UNCHANGED dynamicPriority BY <2>2 DEF PInv, PriorityInv
  <2> QED BY <1>2, <2>1, <2>2 DEF PendSV_Handler, WakeExpired, osStart
<1> QED BY <1>5, <1>6, <1>7, <1>8, <1>9 DEF PInv

LEMMA SwitchSimulated ==
  ASSUME PInv, Switch
  PROVE  \/ Abstract!Boot \/ UNCHANGED Abstract!avars
         \/ \E t \in Task : Abstract!Wake(t)
         \/ \E p \in Level : Abstract!Run(p)
<1>1. /\ lists = settled /\ Inv /\ settled' = lists' /\ staticPriority' = staticPriority
      /\ PriorityInv
  BY SwitchOutside DEF PInv
<1>2. CASE osStart
  <2>1. /\ cpu = "main" /\ cpu' = "thread" /\ pendsv' = FALSE
        /\ UNCHANGED <<lists, activeTask>>
    BY <1>2 DEF osStart, SVC_Handler, tasks, PInv, PTypeOK, TypeOK, Control
  <2>2. Mode = "main" /\ Mode' = "running" BY <2>1 DEF Mode
  <2> QED BY <1>1, <2>1, <2>2 DEF Abstract!Boot
<1>3. CASE PendSV_Handler
  <2>1. Mode = "switching" /\ Mode' = "switching" BY <1>3 DEF Mode, PendSV_Handler
  <2> QED BY <1>1, <1>3, <2>1 DEF PendSV_Handler, tasks, Abstract!avars
<1>4. CASE WakeExpired
  <2>1. Mode = "switching" /\ Mode' = "switching" /\ activeTask' = activeTask
    BY <1>4 DEF WakeExpired, Mode
  <2>2. CASE UNCHANGED <<lists, state>> BY <1>1, <2>1, <2>2 DEF Abstract!avars
  <2>3. ASSUME NEW t \in Task,
               t \in Asleep(lists), Asleep(lists') = Asleep(lists) \ {t},
               Rings(lists') = [Rings(lists) EXCEPT ![staticPriority[t]] = Append(@, t)]
        PROVE  Abstract!Wake(t)
    BY <1>1, <2>1, <2>3 DEF Abstract!Wake, Rings
  <2> QED BY <1>1, <1>4, <2>2, <2>3, WakeSeen
<1>5. CASE Dispatch
  <2>1. PICK p \in Level :
          /\ Ring(lists, p) # <<>>
          /\ Ring(lists, REALTIME) # <<>> => p = REALTIME
          /\ p = IDLE => \A q \in Level \ {IDLE} : Ring(lists, q) = <<>>
          /\ activeTask' = Head(Ring(lists, p))
          /\ Rings(lists') = [Rings(lists) EXCEPT ![p] = Append(Tail(@), Head(@))]
          /\ Asleep(lists') = Asleep(lists)
    BY <1>1, <1>5, DispatchSeen
  <2>2. cpu = "schedule" /\ cpu' = "thread" /\ ~pendsv'
    BY <1>5 DEF Dispatch, PInv, Control
  <2>3. Mode = "switching" /\ Mode' = "running" BY <2>2 DEF Mode
  <2>4. Abstract!Run(p) BY <1>1, <2>1, <2>3, Levels DEF Abstract!Run, Rings
  <2> QED BY <2>4
<1> QED BY <1>2, <1>3, <1>4, <1>5 DEF Switch

----------------------------------------------------------------------------
(* The specification.                                                       *)

LEMMA PInitHolds == PInit => PInv /\ Abstract!Init
<1> SUFFICES ASSUME PInit PROVE PInv /\ Abstract!Init OBVIOUS
<1>1. /\ osInit /\ pc = [t \in Task |-> "run"] /\ local = [t \in Task |-> NoCall]
      /\ settled = lists /\ slept = [t \in Task |-> 0]
  BY DEF PInit
<1>2. TypeOK /\ InPlace /\ ~lists.fault /\ PriorityInv
  BY <1>1, BootType, BootInPlace, BootPriority
<1>3. PTypeOK
  <2>1. local \in [Task -> Locals] /\ slept \in [Task -> 0 .. Enough]
    BY <1>1, NoCallType, EnoughIsNat
  <2> QED BY <1>1, <1>2, <2>1 DEF PTypeOK, TypeOK, Locals
<1>4. InCall BY <1>1 DEF InCall, osInit, Executing
<1>5. Control
  <2>1. \A t \in Task : Coherent(t) BY <1>1 DEF Coherent, Waits, NoCall
  <2>2. pc \in [Task -> Points] BY <1>1 DEF Points
  <2> QED BY <1>1, <1>2, <2>1, <2>2, IdleIsALevel DEF Control, osInit
<1>6. \E Q \in Queues, S \in SUBSET TCB : Settled(Q, S)
  BY <1>1, <1>2, SettledIsConsistent DEF InPlace
<1>7. Abstract!Init
  <2>1. Mode = "main" BY <1>1 DEF Mode, osInit
  <2> QED BY <1>1, <2>1, BootSeen DEF Abstract!Init, osInit, Abstract!TCB, TCB
<1> QED BY <1>2, <1>3, <1>4, <1>5, <1>6, <1>7 DEF PInv

LEMMA IdlingKeeps == PInv /\ UNCHANGED pvars => PInv' /\ UNCHANGED Abstract!avars
<1> SUFFICES ASSUME PInv, UNCHANGED pvars PROVE PInv' /\ UNCHANGED Abstract!avars OBVIOUS
<1>1. /\ UNCHANGED <<lists, state, staticPriority, nextExecTimeUs, dynamicPriority>>
      /\ UNCHANGED <<activeTask, timestamp, cpu, cursor, pendsv, pc, local, settled, slept>>
  BY DEF pvars, vars
<1>2. PTypeOK' BY <1>1 DEF PInv, PTypeOK, TypeOK
<1>3. Executing' <=> Executing BY <1>1 DEF Executing
<1>4. InCall' BY <1>1, <1>3 DEF PInv, InCall, self, Subject, Queue
<1>5. Control' BY <1>1, <1>3 DEF PInv, Control, Coherent, Waits
<1>6. PriorityInv' BY <1>1 DEF PInv, PriorityInv
<1>7. PICK Q \in Queues, S \in SUBSET TCB : Settled(Q, S) BY DEF PInv
<1>8. Settled(Q, S)' BY <1>1, <1>3, <1>7 DEF Settled, FallingAsleep, self
<1>9. UNCHANGED Abstract!avars BY <1>1 DEF Abstract!avars, Mode
<1> QED BY <1>2, <1>4, <1>5, <1>6, <1>8, <1>9 DEF PInv

\* A statement that completes nothing does not show.
LEMMA StuttersUnseen == Stutters => UNCHANGED Abstract!avars
BY DEF Stutters, Abstract!avars, Mode

LEMMA PNextKeeps ==
  ASSUME TickPoints \subseteq HarmlessTickPoints, PInv, [PNext]_pvars
  PROVE  PInv' /\ [Abstract!Next]_(Abstract!avars)
<1>1. CASE Tick
  BY <1>1, TickKeeps DEF Abstract!Next
<1>2. CASE Switch
  BY <1>2, SwitchKeeps, SwitchSimulated DEF Abstract!Next
<1>3. CASE Continue
  BY <1>3, ContinueKeeps, StuttersUnseen DEF Abstract!Next
<1>4. ASSUME NEW u \in Task, osStartTask(u) \/ osKillTask(u)
      PROVE  PInv' /\ [Abstract!Next]_(Abstract!avars)
  BY <1>4, StartBegins, KillBegins, StuttersUnseen
<1>5. ASSUME NEW u \in Task, BootTask(u) PROVE PInv' /\ Abstract!Next
  BY <1>5, BootTaskKeeps DEF Abstract!Next
<1>6. ASSUME NEW u \in Task, NEW p \in Priorities, osInitTask(u, p)
      PROVE  PInv' /\ Abstract!Next
  <2>1. PInv' /\ Abstract!SetPriority(u, p) BY <1>6, InitTaskKeeps
  <2>2. p \in Level BY WorkloadAssumption
  <2> QED BY <2>1, <2>2 DEF Abstract!Next
<1>7. ASSUME NEW d \in Delays, osDelay(d)
      PROVE  PInv' /\ [Abstract!Next]_(Abstract!avars)
  BY <1>7, DelayBegins, StuttersUnseen
<1>8. CASE UNCHANGED pvars BY <1>8, IdlingKeeps
<1> QED BY <1>1, <1>2, <1>3, <1>4, <1>5, <1>6, <1>7, <1>8 DEF PNext

LEMMA PInvariance ==
  ASSUME TickPoints \subseteq HarmlessTickPoints
  PROVE  PSpec => []PInv
<1>1. PInv /\ [PNext]_pvars => PInv' BY PNextKeeps
<1> QED BY <1>1, PInitHolds, PTL DEF PSpec

\* However the ticks fall at those points, every variable keeps its type, the
\* locals of every call included.
THEOREM PreemptedTypes ==
  ASSUME TickPoints \subseteq HarmlessTickPoints
  PROVE  PSpec => []PTypeOK
<1>1. PInv => PTypeOK BY DEF PInv
<1> QED BY <1>1, PInvariance, PTL

\* A call that is over, or that a tick interrupts at those points, has left
\* every task where its state and its priority say, for every number of tasks.
THEOREM PreemptedInOnePlace ==
  ASSUME TickPoints \subseteq HarmlessTickPoints
  PROVE  PSpec => []AtRestInOnePlace
<1>1. PInv => AtRestInOnePlace BY PInvIsInv, InvOnePlace DEF AtRestInOnePlace
<1> QED BY <1>1, PInvariance, PTL

\* Taken one statement at a time, osDelay, osStartTask and osKillTask are the
\* single steps that Scheduler takes them for: each shows in the queues once,
\* at its last store, its yield or the tick that comes before it, and what
\* shows is a step of AbstractScheduler.
THEOREM PreemptedRefinement ==
  ASSUME TickPoints \subseteq HarmlessTickPoints
  PROVE  PSpec => ImplementsAtomicCalls
<1>1. PInv /\ [PNext]_pvars => [Abstract!Next]_(Abstract!avars) BY PNextKeeps
<1>2. PInit => Abstract!Init BY PInitHolds
<1> QED BY <1>1, <1>2, PInvariance, PTL DEF PSpec, ImplementsAtomicCalls, Abstract!Spec

----------------------------------------------------------------------------
(* Delays.                                                                  *)

\* Where the time base is after s ticks, if it was at now.
TimeAfter(now, s) == (now + s * US_PER_SYS_TICK) % TimeMod

\* What a call of osDelay and the task that makes it know of time: the ticks
\* since the call, the wake-up time once it is stored, and, once the task is
\* asleep, that only the delay's end makes it READY.
Punctual(t) ==
  /\ local[t].op # "delay" => slept[t] = 0
  /\ local[t].op = "delay" =>
       /\ slept[t] <= local[t].delayMs => timestamp = TimeAfter(local[t].time, slept[t])
       /\ pc[t] # "store" => nextExecTimeUs[t] = WakeUpTime(local[t].time, local[t].delayMs)
       /\ pc[t] \in {"yield", "return"} => state[t] = "DELAYED" \/ slept[t] > local[t].delayMs

AllPunctual == \A t \in Task : Punctual(t)

\* A tick is no longer than a millisecond, and a delay shorter than half the
\* time base.
ShortDelays ==
  /\ US_PER_SYS_TICK <= US_PER_MS
  /\ \A d \in Delays : d * US_PER_MS < TimeMod \div 2

\* No more ticks than milliseconds take no longer.
LEMMA TicksFit ==
  ASSUME ShortDelays, NEW d \in Delays \cup {0}, NEW s \in Nat, s <= d
  PROVE  /\ d \in Nat /\ s * US_PER_SYS_TICK \in Nat /\ d * US_PER_MS \in Nat
         /\ s * US_PER_SYS_TICK <= d * US_PER_MS
         /\ d * US_PER_MS < TimeMod \div 2
<1>1. /\ US_PER_SYS_TICK \in Nat /\ US_PER_MS \in Nat /\ d \in Nat
      /\ US_PER_SYS_TICK <= US_PER_MS
  BY TimeAssumption, WorkloadAssumption DEF ShortDelays
<1>2. s * US_PER_SYS_TICK <= d * US_PER_SYS_TICK BY <1>1
<1>3. d * US_PER_SYS_TICK <= d * US_PER_MS BY <1>1
<1>4. d * US_PER_MS < TimeMod \div 2
  <2>1. CASE d = 0
    <3>1. 0 < TimeMod \div 2 BY TimeAssumption
    <3>2. d * US_PER_MS = 0 BY <1>1, <2>1
    <3> QED BY <3>1, <3>2
  <2>2. CASE d \in Delays BY <2>2 DEF ShortDelays
  <2> QED BY <2>1, <2>2
<1>5. s * US_PER_SYS_TICK \in Nat /\ d * US_PER_SYS_TICK \in Nat /\ d * US_PER_MS \in Nat
  BY <1>1
<1> QED BY <1>1, <1>2, <1>3, <1>4, <1>5

\* A sum of two times wraps at most once.
LEMMA WrapsOnce ==
  \A n \in Nat : n < 2 * TimeMod => n % TimeMod = IF n < TimeMod THEN n ELSE n - TimeMod
<1> SUFFICES ASSUME NEW n \in Nat, n < 2 * TimeMod
             PROVE  n % TimeMod = IF n < TimeMod THEN n ELSE n - TimeMod
  OBVIOUS
<1>1. TimeMod \in Nat \ {0} /\ n \in 0 .. 2 * TimeMod - 1 BY TimeAssumption
<1> QED BY <1>1, RemainderOnce, Zenon

\* The wake-up time is not past before more ticks have come than the delay has
\* milliseconds, also across the wrap of the time base.
LEMMA NotYetPast ==
  ASSUME ShortDelays, NEW d \in Delays \cup {0}, NEW s \in Nat, s <= d, NEW now \in Time
  PROVE  ~TIME_A_AFTER_B(TimeAfter(now, s), WakeUpTime(now, d))
<1>1. PICK a \in Nat, b \in Nat :
        /\ a = s * US_PER_SYS_TICK /\ b = d * US_PER_MS /\ a <= b /\ b < TimeMod \div 2
  BY TicksFit
<1>2. /\ TimeMod \in Nat /\ TimeMod \div 2 \in Nat /\ TimeMod = 2 * (TimeMod \div 2)
      /\ now \in Nat /\ now < TimeMod
  BY TimeAssumption DEF Time
<1>3. PICK x, y : x = (now + a) % TimeMod /\ y = (now + b) % TimeMod OBVIOUS
<1>4. x = IF now + a < TimeMod THEN now + a ELSE (now + a) - TimeMod
  <2>1. now + a \in Nat /\ now + a < 2 * TimeMod BY <1>1, <1>2
  <2> QED BY <1>3, <2>1, WrapsOnce, Zenon
<1>5. y = IF now + b < TimeMod THEN now + b ELSE (now + b) - TimeMod
  <2>1. now + b \in Nat /\ now + b < 2 * TimeMod BY <1>1, <1>2
  <2> QED BY <1>3, <2>1, WrapsOnce, Zenon
<1>6. (y + TimeMod - x) % TimeMod = b - a
  <2>1. y + TimeMod - x = b - a \/ y + TimeMod - x = b - a + TimeMod
    BY <1>1, <1>2, <1>4, <1>5
  <2>2. y + TimeMod - x \in Nat /\ y + TimeMod - x < 2 * TimeMod BY <1>1, <1>2, <2>1
  <2>3. (y + TimeMod - x) % TimeMod =
          IF y + TimeMod - x < TimeMod THEN y + TimeMod - x ELSE (y + TimeMod - x) - TimeMod
    BY <2>2, WrapsOnce, Zenon
  <2> QED BY <1>1, <1>2, <2>1, <2>3
<1>7. ~((y + TimeMod - x) % TimeMod >= TimeMod \div 2) BY <1>1, <1>2, <1>6
<1>8. TimeAfter(now, s) = x /\ WakeUpTime(now, d) = y
  BY <1>1, <1>3 DEF TimeAfter, WakeUpTime
<1> QED BY <1>7, <1>8 DEF TIME_A_AFTER_B

\* One more tick.
LEMMA TicksOn ==
  ASSUME ShortDelays, NEW d \in Delays \cup {0}, NEW s \in Nat, s + 1 <= d, NEW now \in Time
  PROVE  AfterTick(TimeAfter(now, s)) = TimeAfter(now, s + 1)
<1>1. (s + 1) * US_PER_SYS_TICK \in Nat /\ (s + 1) * US_PER_SYS_TICK < TimeMod \div 2
  <2>1. PICK n \in Nat : n = s + 1 OBVIOUS
  <2>2. /\ n * US_PER_SYS_TICK \in Nat /\ n * US_PER_SYS_TICK <= d * US_PER_MS
        /\ d * US_PER_MS \in Nat /\ d * US_PER_MS < TimeMod \div 2
    BY <2>1, TicksFit
  <2>3. TimeMod \div 2 \in Nat BY TimeAssumption
  <2> QED BY <2>1, <2>2, <2>3
<1>2. PICK a \in Nat, e \in Nat :
        a = s * US_PER_SYS_TICK /\ e = US_PER_SYS_TICK /\ a + e = (s + 1) * US_PER_SYS_TICK
  BY TimeAssumption
<1>3. /\ TimeMod \in Nat /\ TimeMod \div 2 \in Nat /\ TimeMod = 2 * (TimeMod \div 2)
      /\ now \in Nat /\ now < TimeMod /\ a + e < TimeMod \div 2
  BY <1>1, <1>2, TimeAssumption DEF Time
<1>4. PICK x, y : x = (now + a) % TimeMod /\ y = (now + (a + e)) % TimeMod OBVIOUS
<1>5. x = IF now + a < TimeMod THEN now + a ELSE (now + a) - TimeMod
  <2>1. now + a \in Nat /\ now + a < 2 * TimeMod BY <1>2, <1>3
  <2> QED BY <1>4, <2>1, WrapsOnce, Zenon
<1>6. y = IF now + (a + e) < TimeMod THEN now + (a + e) ELSE (now + (a + e)) - TimeMod
  <2>1. now + (a + e) \in Nat /\ now + (a + e) < 2 * TimeMod BY <1>2, <1>3
  <2> QED BY <1>4, <2>1, WrapsOnce, Zenon
<1>7. (x + e) % TimeMod = IF x + e < TimeMod THEN x + e ELSE (x + e) - TimeMod
  <2>1. x + e \in Nat /\ x + e < 2 * TimeMod BY <1>2, <1>3, <1>5
  <2> QED BY <2>1, WrapsOnce, Zenon
<1>8. (x + e) % TimeMod = y BY <1>2, <1>3, <1>5, <1>6, <1>7
<1>9. AfterTick(TimeAfter(now, s)) = (x + e) % TimeMod BY <1>2, <1>4 DEF AfterTick, TimeAfter
<1>10. TimeAfter(now, s + 1) = y BY <1>2, <1>4 DEF TimeAfter
<1> QED BY <1>8, <1>9, <1>10

\* A task whose call, times and state stay as they are, and that stays where it
\* is or goes from one statement to another.
Unhurried(t) ==
  /\ local'[t].op = local[t].op /\ local'[t].time = local[t].time
  /\ local'[t].delayMs = local[t].delayMs
  /\ timestamp' = timestamp /\ nextExecTimeUs'[t] = nextExecTimeUs[t]
  /\ slept'[t] = slept[t] /\ state'[t] = state[t]
  /\ \/ pc'[t] = pc[t]
     \/ /\ pc[t] # "store"
        /\ \/ local[t].op # "delay" \/ pc[t] = "yield"
           \/ pc'[t] \notin {"yield", "return"}

LEMMA UnhurriedKeeps ==
  ASSUME NEW t \in Task, Punctual(t), Unhurried(t)
  PROVE  Punctual(t)'
BY DEF Punctual, Unhurried

\* A statement that reads or writes a link.
LEMMA LinksKeepPunctual ==
  ASSUME PInv, AllPunctual, NEW h1 \in Points, NEW h \in Points, h1 # "store",
         At(h1), Goto(h), UNCHANGED <<state, nextExecTimeUs, timestamp, slept>>,
         \A t \in Task : /\ local'[t].op = local[t].op /\ local'[t].time = local[t].time
                         /\ local'[t].delayMs = local[t].delayMs,
         local[self].op # "delay" \/ h1 = "yield" \/ h \notin {"yield", "return"}
  PROVE  AllPunctual'
<1> SUFFICES ASSUME NEW t \in Task PROVE Punctual(t)' BY DEF AllPunctual
<1>1. pc \in [Task -> Points] BY DEF PInv, Control
<1>2. pc[self] = h1 /\ pc' = [pc EXCEPT ![self] = h] BY DEF At, Goto
<1>3. Unhurried(t) BY <1>1, <1>2 DEF Unhurried
<1> QED BY <1>3, UnhurriedKeeps DEF AllPunctual

\* Of a call only its locals next and prev are read into.
LEMMA ReadKeepsCall ==
  ASSUME PInv, NEW name \in {"next", "prev"}, NEW v,
         local' = [local EXCEPT ![self][name] = v]
  PROVE  \A t \in Task : /\ local'[t].op = local[t].op /\ local'[t].time = local[t].time
                         /\ local'[t].delayMs = local[t].delayMs
<1> SUFFICES ASSUME NEW t \in Task
             PROVE  /\ local'[t].op = local[t].op /\ local'[t].time = local[t].time
                    /\ local'[t].delayMs = local[t].delayMs
  OBVIOUS
<1>1. local \in [Task -> Locals] BY DEF PInv, PTypeOK, Locals
<1>2. local[t] \in Locals BY <1>1
<1>3. CASE t # self BY <1>1, <1>3
<1>4. CASE t = self
  <2>1. local'[t] = [local[t] EXCEPT ![name] = v] BY <1>1, <1>4
  <2>2. CASE name = "next"
    <3>1. local'[t] = [local[t] EXCEPT !.next = v] BY <2>1, <2>2
    <3> QED BY <1>2, <3>1 DEF Locals
  <2>3. CASE name = "prev"
    <3>1. local'[t] = [local[t] EXCEPT !.prev = v] BY <2>1, <2>3
    <3> QED BY <1>2, <3>1 DEF Locals
  <2> QED BY <2>2, <2>3
<1> QED BY <1>3, <1>4

LEMMA ReadKeepsPunctual ==
  ASSUME PInv, AllPunctual, NEW h1 \in Points, NEW h \in Points, h1 # "store",
         NEW name \in {"next", "prev"}, NEW v, Reads(h1, name, v, h),
         h \notin {"yield", "return"}
  PROVE  AllPunctual'
<1>1. At(h1) /\ Goto(h) /\ local' = [local EXCEPT ![self][name] = v]
  BY DEF Reads
<1>2. UNCHANGED <<state, nextExecTimeUs, timestamp, slept>> BY DEF Reads, vars
<1> QED BY <1>1, <1>2, ReadKeepsCall, LinksKeepPunctual

LEMMA WriteKeepsPunctual ==
  ASSUME PInv, AllPunctual, NEW h1 \in Points, NEW h \in Points, h1 # "store",
         NEW N, Writes(h1, N, h),
         h \in {"yield", "return"} => local[self].op # "delay"
  PROVE  AllPunctual'
<1>1. At(h1) /\ Goto(h) /\ UNCHANGED <<state, nextExecTimeUs, slept, local, kernel>>
  BY DEF Writes
<1>2. timestamp' = timestamp BY <1>1 DEF kernel
<1> QED BY <1>1, <1>2, LinksKeepPunctual

\* Only osDelay leaves "clear_prev" for another place than "yield", and only the
\* others come to the end of a helper.
LEMMA NoDelayHere ==
  ASSUME PInv
  PROVE  /\ At("drop_tail") => local[self].op = "kill"
         /\ At("first_next") \/ At("neighbor_prev") => local[self].op = "start"
BY DEF PInv, InCall, At, Midway, Untouched, Removing, Adding, Pushing, Dropping, Yielding

LEMMA RemoveFromQueuePunctual ==
  ASSUME PInv, AllPunctual, RemoveFromQueue
  PROVE  AllPunctual'
<1>1. CASE Reads("unlink", "next", lists.next[Subject], "unlink_prev")
  BY <1>1, ReadKeepsPunctual DEF Points
<1>2. CASE Reads("unlink_prev", "prev", lists.prev[Subject],
                 IF local[self].next = Subject THEN "empty" ELSE "collapse")
  <2>1. PICK h \in Points : /\ h = IF local[self].next = Subject THEN "empty" ELSE "collapse"
                            /\ h \notin {"yield", "return"}
    BY DEF Points
  <2>2. Reads("unlink_prev", "prev", lists.prev[Subject], h) BY <1>2, <2>1
  <2> QED BY <2>1, <2>2, ReadKeepsPunctual DEF Points
<1>3. CASE Writes("empty", Iter(NULL), "clear_next")
  BY <1>3, WriteKeepsPunctual DEF Points
<1>4. CASE Writes("collapse", Prev(local[self].next, local[self].prev), "collapse_prev")
  BY <1>4, WriteKeepsPunctual DEF Points
<1>5. CASE Writes("collapse_prev", Next(local[self].prev, local[self].next), "advance")
  BY <1>5, WriteKeepsPunctual DEF Points
<1>6. CASE Writes("advance", Iter(AfterRemoved), "clear_next")
  BY <1>6, WriteKeepsPunctual DEF Points
<1>7. CASE Writes("clear_next", Next(Subject, NULL), "clear_prev")
  BY <1>7, WriteKeepsPunctual DEF Points
<1>8. CASE Writes("clear_prev", Prev(Subject, NULL),
                  IF local[self].op = "delay" THEN "add" ELSE "yield")
  <2>1. PICK h \in Points : /\ h = IF local[self].op = "delay" THEN "add" ELSE "yield"
                            /\ h \in {"yield", "return"} => local[self].op # "delay"
    BY DEF Points
  <2>2. Writes("clear_prev", Prev(Subject, NULL), h) BY <1>8, <2>1
  <2> QED BY <2>1, <2>2, WriteKeepsPunctual DEF Points
<1> QED BY <1>1, <1>2, <1>3, <1>4, <1>5, <1>6, <1>7, <1>8 DEF RemoveFromQueue

LEMMA PushToQueuePunctual ==
  ASSUME PInv, AllPunctual, PushToQueue
  PROVE  AllPunctual'
<1>1. CASE Tests("push", IF lists.iter[Queue] = NULL THEN "first" ELSE "push_next")
  <2>1. PICK h \in Points : /\ h = IF lists.iter[Queue] = NULL THEN "first" ELSE "push_next"
                            /\ h \notin {"yield", "return"}
    BY DEF Points
  <2>2. Writes("push", lists, h) BY <1>1, <2>1, TestsStoreNothing
  <2> QED BY <2>1, <2>2, WriteKeepsPunctual DEF Points
<1>10. CASE Reads("push_next", "next", lists.iter[Queue], "push_prev")
  BY <1>10, ReadKeepsPunctual DEF Points
<1>11. CASE Writes("push_prev", Faulted(lists), "link_prev")
  BY <1>11, WriteKeepsPunctual DEF Points
<1>2. CASE Writes("first", Iter(Subject), "first_prev")
  BY <1>2, WriteKeepsPunctual DEF Points
<1>3. CASE Writes("first_prev", Prev(Subject, Subject), "first_next")
  BY <1>3, WriteKeepsPunctual DEF Points
<1>4. CASE Writes("first_next", Next(Subject, Subject), "return")
  <2>1. local[self].op # "delay" BY <1>4, NoDelayHere DEF Writes
  <2> QED BY <1>4, <2>1, WriteKeepsPunctual DEF Points
<1>5. CASE Reads("push_prev", "prev", lists.prev[local[self].next], "link_prev")
  BY <1>5, ReadKeepsPunctual DEF Points
<1>6. CASE Writes("link_prev", Prev(Subject, local[self].prev), "link_next")
  BY <1>6, WriteKeepsPunctual DEF Points
<1>7. CASE Writes("link_next", Next(Subject, local[self].next), "neighbor")
  BY <1>7, WriteKeepsPunctual DEF Points
<1>8. CASE Writes("neighbor", Prev(local[self].next, Subject), "neighbor_prev")
  BY <1>8, WriteKeepsPunctual DEF Points
<1>9. CASE Writes("neighbor_prev", Next(local[self].prev, Subject), "return")
  <2>1. local[self].op # "delay" BY <1>9, NoDelayHere DEF Writes
  <2> QED BY <1>9, <2>1, WriteKeepsPunctual DEF Points
<1> QED BY <1>1, <1>2, <1>3, <1>4, <1>5, <1>6, <1>7, <1>8, <1>9, <1>10, <1>11
   DEF PushToQueue

LEMMA AddToDelayedPunctual ==
  ASSUME PInv, AllPunctual, AddToDelayed
  PROVE  AllPunctual'
<1>1. CASE Writes("add", Prev(Subject, lists.tail), "add_next")
  BY <1>1, WriteKeepsPunctual DEF Points
<1>2. CASE Writes("add_next", Next(Subject, NULL),
                  IF lists.tail = NULL THEN "add_tail" ELSE "add_link")
  <2>1. PICK h \in Points : /\ h = IF lists.tail = NULL THEN "add_tail" ELSE "add_link"
                            /\ h \notin {"yield", "return"}
    BY DEF Points
  <2>2. Writes("add_next", Next(Subject, NULL), h) BY <1>2, <2>1
  <2> QED BY <2>1, <2>2, WriteKeepsPunctual DEF Points
<1>3. CASE Writes("add_link", Next(lists.tail, Subject), "add_tail")
  BY <1>3, WriteKeepsPunctual DEF Points
<1>4. CASE Writes("add_tail", [lists EXCEPT !.tail = Subject], "add_head")
  BY <1>4, WriteKeepsPunctual DEF Points
<1>5. CASE Writes("add_head", [lists EXCEPT !.head = IF @ = NULL THEN Subject ELSE @],
                  "set_state")
  BY <1>5, WriteKeepsPunctual DEF Points
<1> QED BY <1>1, <1>2, <1>3, <1>4, <1>5 DEF AddToDelayed

LEMMA RemoveFromDelayedPunctual ==
  ASSUME PInv, AllPunctual, RemoveFromDelayed
  PROVE  AllPunctual'
<1>1. CASE Reads("drop", "prev", lists.prev[Subject], "drop_next")
  BY <1>1, ReadKeepsPunctual DEF Points
<1>2. CASE Reads("drop_next", "next", lists.next[Subject], "drop_clear")
  BY <1>2, ReadKeepsPunctual DEF Points
<1>3. ASSUME NEW h1 \in {"drop_clear", "drop_clear_next", "drop_link", "drop_back", "drop_head"},
             NEW h \in {"drop_clear_next", "drop_link", "drop_back", "drop_head", "drop_tail"},
             NEW N, Writes(h1, N, h)
      PROVE  AllPunctual'
  BY <1>3, WriteKeepsPunctual DEF Points
<1>4. ASSUME NEW N, Writes("drop_tail", N, "yield") PROVE AllPunctual'
  <2>1. local[self].op # "delay" BY <1>4, NoDelayHere DEF Writes
  <2> QED BY <1>4, <2>1, WriteKeepsPunctual DEF Points
<1> QED BY <1>1, <1>2, <1>3, <1>4 DEF RemoveFromDelayed

----------------------------------------------------------------------------
\* The other statements of osDelay store the wake-up time, and the state, and
\* yield.
LEMMA DelayStatementsPunctual ==
  ASSUME PInv, AllPunctual, StoreNextExecTime \/ StoreDelayed \/ osYield
  PROVE  AllPunctual'
<1> SUFFICES ASSUME NEW t \in Task PROVE Punctual(t)' BY DEF AllPunctual
<1>1. Punctual(t) BY DEF AllPunctual
<1>2. /\ pc \in [Task -> Points] /\ state \in [TCB -> {"READY", "DELAYED"}]
      /\ nextExecTimeUs \in [TCB -> Time] /\ t \in TCB
  BY DEF PInv, Control, PTypeOK, TypeOK, TCB
<1>3. CASE StoreNextExecTime
  <2>1. /\ pc[self] = "store" /\ pc' = [pc EXCEPT ![self] = "unlink"]
        /\ nextExecTimeUs' = [nextExecTimeUs EXCEPT
             ![self] = WakeUpTime(local[self].time, local[self].delayMs)]
        /\ UNCHANGED <<state, kernel, local, slept>>
    BY <1>3 DEF StoreNextExecTime, At, Goto
  <2>2. timestamp' = timestamp BY <2>1 DEF kernel
  <2>3. CASE t # self
    <3>1. Unhurried(t) BY <1>2, <2>1, <2>2, <2>3 DEF Unhurried
    <3> QED BY <1>1, <3>1, UnhurriedKeeps
  <2>4. CASE t = self
    <3>1. /\ pc'[t] = "unlink"
          /\ nextExecTimeUs'[t] = WakeUpTime(local[t].time, local[t].delayMs)
      BY <1>2, <2>1, <2>4
    <3> QED BY <1>1, <2>1, <2>2, <3>1 DEF Punctual, WakeUpTime
  <2> QED BY <2>3, <2>4
<1>4. CASE StoreDelayed
  <2>1. /\ pc[self] = "set_state" /\ pc' = [pc EXCEPT ![self] = "yield"]
        /\ state' = [state EXCEPT ![self] = "DELAYED"]
        /\ UNCHANGED <<nextExecTimeUs, kernel, local, slept>>
    BY <1>4 DEF StoreDelayed, At, Goto
  <2>2. timestamp' = timestamp BY <2>1 DEF kernel
  <2>3. CASE t # self
    <3>1. Unhurried(t) BY <1>2, <2>1, <2>2, <2>3 DEF Unhurried
    <3> QED BY <1>1, <3>1, UnhurriedKeeps
  <2>4. CASE t = self
    <3>1. state'[t] = "DELAYED" /\ pc[t] # "store" BY <1>2, <2>1, <2>4
    <3> QED BY <1>1, <2>1, <2>2, <3>1 DEF Punctual
  <2> QED BY <2>3, <2>4
<1>5. CASE osYield
  <2>1. /\ At("yield") /\ Goto("return") /\ UNCHANGED <<tasks, kernel, local, slept>>
    BY <1>5 DEF osYield
  <2>2. UNCHANGED <<state, nextExecTimeUs, timestamp, slept>> /\ local' = local
    BY <2>1 DEF tasks, kernel
  <2>3. AllPunctual' BY <2>1, <2>2, LinksKeepPunctual DEF Points
  <2> QED BY <2>3 DEF AllPunctual
<1> QED BY <1>3, <1>4, <1>5

\* The end of a call, and what rewrites the locals of a task.
LEMMA ReturnPunctual ==
  ASSUME PInv, AllPunctual, Return
  PROVE  AllPunctual'
<1> SUFFICES ASSUME NEW t \in Task PROVE Punctual(t)' BY DEF AllPunctual
<1>1. /\ pc' = [pc EXCEPT ![self] = "run"] /\ local' = [local EXCEPT ![self] = NoCall]
      /\ slept' = [slept EXCEPT ![self] = 0] /\ UNCHANGED <<state, nextExecTimeUs, timestamp>>
  BY DEF Return, Goto, vars
<1>2. pc \in [Task -> Points] /\ local \in [Task -> Locals] /\ slept \in [Task -> 0 .. Enough]
  BY DEF PInv, Control, PTypeOK, Locals
<1>3. CASE t = self
  <2>1. local'[t] = NoCall /\ slept'[t] = 0 BY <1>1, <1>2, <1>3
  <2> QED BY <2>1 DEF Punctual, NoCall
<1>4. CASE t # self
  <2>1. Unhurried(t) BY <1>1, <1>2, <1>4 DEF Unhurried
  <2> QED BY <2>1, UnhurriedKeeps DEF AllPunctual
<1> QED BY <1>3, <1>4

LEMMA InitTaskPunctual ==
  ASSUME PInv, AllPunctual, NEW u \in Task, NEW p \in Priorities, osInitTask(u, p)
  PROVE  AllPunctual'
<1> SUFFICES ASSUME NEW t \in Task PROVE Punctual(t)' BY DEF AllPunctual
<1>1. /\ pc' = [pc EXCEPT ![u] = "run"] /\ local' = [local EXCEPT ![u] = NoCall]
      /\ slept' = [slept EXCEPT ![u] = 0] /\ UNCHANGED <<state, nextExecTimeUs, timestamp>>
  BY DEF osInitTask, kernel
<1>2. pc \in [Task -> Points] /\ local \in [Task -> Locals] /\ slept \in [Task -> 0 .. Enough]
  BY DEF PInv, Control, PTypeOK, Locals
<1>3. CASE t = u
  <2>1. local'[t] = NoCall /\ slept'[t] = 0 BY <1>1, <1>2, <1>3
  <2> QED BY <2>1 DEF Punctual, NoCall
<1>4. CASE t # u
  <2>1. Unhurried(t) BY <1>1, <1>2, <1>4 DEF Unhurried
  <2> QED BY <2>1, UnhurriedKeeps DEF AllPunctual
<1> QED BY <1>3, <1>4

\* A call that begins has read the time that is, and has not slept.
LEMMA BeginPunctual ==
  ASSUME PInv, AllPunctual, NEW u \in Task, NEW call \in {"start", "kill", "delay"},
         NEW d \in Nat, NEW h \in Points, Begins(call, u, d, h), call = "delay" => h = "store",
         UNCHANGED <<nextExecTimeUs, timestamp, slept>>,
         \A t \in Task : state'[t] = state[t] \/ local[t].op = "none"
  PROVE  AllPunctual'
<1> SUFFICES ASSUME NEW t \in Task PROVE Punctual(t)' BY DEF AllPunctual
<1>1. PICK c : c = [NoCall EXCEPT !.op = call, !.task = u, !.time = timestamp, !.delayMs = d]
  OBVIOUS
<1>2. /\ Executing /\ pc[self] = "run" /\ pc' = [pc EXCEPT ![self] = h]
      /\ local' = [local EXCEPT ![self] = c]
  BY <1>1 DEF Begins, At, Goto
<1>3. /\ pc \in [Task -> Points] /\ local \in [Task -> Locals] /\ slept \in [Task -> 0 .. Enough]
      /\ timestamp \in Time
  BY DEF PInv, Control, PTypeOK, TypeOK, Locals
<1>4. c.op = call /\ c.time = timestamp /\ c.delayMs = d BY <1>1 DEF NoCall
<1>5. CASE t = self
  <2>1. local[t].op = "none" BY <1>2, <1>5 DEF PInv, Control, Coherent
  <2>2. slept[t] = 0 BY <2>1 DEF AllPunctual, Punctual
  <2>3. local'[t] = c /\ pc'[t] = h /\ slept'[t] = 0 BY <1>2, <1>3, <1>5, <2>2
  <2>4. timestamp = TimeAfter(timestamp, 0)
    BY <1>3, TimeAssumption, RemainderOnce DEF TimeAfter, Time
  <2> QED BY <1>4, <2>3, <2>4 DEF Punctual, TimeAfter
<1>6. CASE t # self
  <2>1. local'[t] = local[t] /\ pc'[t] = pc[t] BY <1>2, <1>3, <1>6
  <2>2. Punctual(t) BY DEF AllPunctual
  <2>3. CASE state'[t] = state[t]
    <3>1. Unhurried(t) BY <2>1, <2>3 DEF Unhurried
    <3> QED BY <2>2, <3>1, UnhurriedKeeps
  <2>4. CASE local[t].op = "none" BY <2>1, <2>2, <2>4 DEF Punctual
  <2> QED BY <2>3, <2>4
<1> QED BY <1>5, <1>6

\* The count of ticks goes on for as long as any delay takes.
LEMMA EnoughForAll == \A d \in Delays \cup {0} : Enough >= d + 1
<1>1. PICK longest \in Delays : \A d \in Delays : d <= longest BY WorkloadAssumption
<1>2. longest \in Nat /\ Delays \subseteq Nat BY WorkloadAssumption
<1>3. \E n \in {d + 1 : d \in Delays} : \A d \in Delays : n >= d + 1
  BY <1>1, <1>2
<1>4. \A d \in Delays : Enough >= d + 1 BY <1>3 DEF Enough
<1>5. Enough \in Nat /\ Enough >= longest + 1 BY <1>1, <1>4, EnoughIsNat
<1>6. Enough >= 0 + 1 BY <1>2, <1>5
<1> QED BY <1>4, <1>6

LEMMA TickPunctual ==
  ASSUME ShortDelays, PInv, AllPunctual, Tick
  PROVE  AllPunctual'
<1> SUFFICES ASSUME NEW t \in Task PROVE Punctual(t)' BY DEF AllPunctual
<1>1. /\ timestamp' = AfterTick(timestamp)
      /\ UNCHANGED <<state, nextExecTimeUs, pc, local>>
      /\ slept' = [u \in Task |-> IF local[u].op = "delay" /\ slept[u] < Enough
                                THEN slept[u] + 1 ELSE slept[u]]
  BY DEF Tick, SysTick_Handler, tasks
<1>2. slept'[t] = IF local[t].op = "delay" /\ slept[t] < Enough THEN slept[t] + 1 ELSE slept[t]
  BY <1>1
<1>3. Punctual(t) BY DEF AllPunctual
<1>4. CASE local[t].op # "delay" BY <1>1, <1>2, <1>3, <1>4 DEF Punctual
<1>5. CASE local[t].op = "delay"
  <2>1. local[t] \in Locals /\ slept[t] \in 0 .. Enough BY DEF PInv, PTypeOK, Locals
  <2>2. PICK d \in Delays \cup {0}, now \in Time, s \in Nat :
          d = local[t].delayMs /\ now = local[t].time /\ s = slept[t] /\ s <= Enough
    BY <2>1, EnoughIsNat DEF Locals
  <2>3. d \in Nat BY <2>2, WorkloadAssumption
  <2>4. Enough \in Nat /\ Enough >= d + 1 BY EnoughIsNat, EnoughForAll
  <2>5. CASE s + 1 <= d
    <3>1. s < Enough /\ s <= d BY <2>2, <2>3, <2>4, <2>5
    <3>2. slept'[t] = s + 1 BY <1>2, <1>5, <2>2, <3>1
    <3>3. timestamp = TimeAfter(now, s) BY <1>3, <1>5, <2>2, <3>1 DEF Punctual
    <3>4. timestamp' = TimeAfter(now, s + 1) BY <1>1, <2>2, <2>5, <3>3, TicksOn
    <3>5. ~(s > d) BY <2>2, <2>3, <3>1
    <3> QED BY <1>1, <1>3, <1>5, <2>2, <3>2, <3>4, <3>5 DEF Punctual, TimeAfter, WakeUpTime
  <2>6. CASE ~(s + 1 <= d)
    <3>1. slept'[t] > d /\ ~(slept'[t] <= d)
      BY <1>2, <1>5, <2>2, <2>3, <2>4, <2>6
    <3> QED BY <1>1, <1>3, <1>5, <2>2, <3>1 DEF Punctual, WakeUpTime
  <2> QED BY <2>5, <2>6
<1> QED BY <1>4, <1>5

\* schedule() wakes a task that has called osDelay only when its delay is over.
LEMMA SwitchPunctual ==
  ASSUME ShortDelays, PInv, AllPunctual, Switch
  PROVE  AllPunctual'
<1> SUFFICES ASSUME NEW t \in Task PROVE Punctual(t)' BY DEF AllPunctual
<1>1. UNCHANGED <<nextExecTimeUs, timestamp, pc, local, slept>>
  BY DEF Switch, PendSV_Handler, WakeExpired, Dispatch, osStart, SVC_Handler, tasks
<1>2. Punctual(t) BY DEF AllPunctual
<1>3. CASE state'[t] = state[t]
  <2>1. Unhurried(t) BY <1>1, <1>3 DEF Unhurried
  <2> QED BY <1>2, <2>1, UnhurriedKeeps
<1>4. CASE state'[t] # state[t]
  <2>1. WakeExpired /\ Expired(cursor) /\ Wake(cursor)
    BY <1>4 DEF Switch, PendSV_Handler, WakeExpired, Dispatch, osStart, SVC_Handler, tasks
  <2>2. t = cursor
    <3>1. state \in [TCB -> {"READY", "DELAYED"}] /\ t \in TCB
      BY DEF PInv, PTypeOK, TypeOK, TCB
    <3> QED BY <1>4, <2>1, <3>1 DEF Wake
  <2>3. CASE local[t].op # "delay" \/ pc[t] \notin {"yield", "return"}
    BY <1>1, <1>2, <2>3 DEF Punctual
  <2>4. CASE local[t].op = "delay" /\ pc[t] \in {"yield", "return"}
    <3>1. local[t] \in Locals /\ slept[t] \in 0 .. Enough BY DEF PInv, PTypeOK, Locals
    <3>2. PICK d \in Delays \cup {0}, now \in Time, s \in Nat :
            d = local[t].delayMs /\ now = local[t].time /\ s = slept[t]
      BY <3>1, EnoughIsNat DEF Locals
    <3>3. d \in Nat BY <3>2, WorkloadAssumption
    <3>4. ASSUME s <= d PROVE FALSE
      <4>1. timestamp = TimeAfter(now, s) /\ nextExecTimeUs[t] = WakeUpTime(now, d)
        BY <1>2, <2>4, <3>2, <3>4 DEF Punctual
      <4>2. ~TIME_A_AFTER_B(TimeAfter(now, s), WakeUpTime(now, d))
        BY <3>2, <3>4, NotYetPast
      <4>3. TIME_A_AFTER_B(timestamp, nextExecTimeUs[t]) BY <2>1, <2>2 DEF Expired
      <4> QED BY <4>1, <4>2, <4>3
    <3>5. s > d BY <3>2, <3>3, <3>4
    <3> QED BY <1>1, <1>2, <2>4, <3>2, <3>5 DEF Punctual
  <2> QED BY <2>3, <2>4
<1> QED BY <1>3, <1>4

LEMMA PNextPunctual ==
  ASSUME ShortDelays, PInv, AllPunctual, [PNext]_pvars
  PROVE  AllPunctual'
<1>1. CASE Tick BY <1>1, TickPunctual
<1>2. CASE Switch BY <1>2, SwitchPunctual
<1>3. CASE Continue
  BY <1>3, RemoveFromQueuePunctual, PushToQueuePunctual, AddToDelayedPunctual,
     RemoveFromDelayedPunctual, DelayStatementsPunctual, ReturnPunctual
  DEF Continue
<1>4. ASSUME NEW d \in Delays, osDelay(d) PROVE AllPunctual'
  <2>1. Begins("delay", self, d, "store") /\ UNCHANGED <<state, nextExecTimeUs, timestamp, slept>>
    BY <1>4 DEF osDelay, vars
  <2>2. d \in Nat BY WorkloadAssumption
  <2>3. self \in Task BY <2>1 DEF Begins, At, Executing, self
  <2> QED BY <2>1, <2>2, <2>3, BeginPunctual DEF Points
<1>5. ASSUME NEW u \in Task, osStartTask(u) PROVE AllPunctual'
  <2>1. /\ Begins("start", u, 0, "push") /\ local[u].op = "none"
        /\ state' = [state EXCEPT ![u] = "READY"]
        /\ UNCHANGED <<nextExecTimeUs, timestamp, slept>>
    BY <1>5 DEF osStartTask, kernel
  <2>2. state \in [TCB -> {"READY", "DELAYED"}] /\ \A t \in Task : t \in TCB
    BY DEF PInv, PTypeOK, TypeOK, TCB
  <2>3. \A t \in Task : state'[t] = state[t] \/ local[t].op = "none" BY <2>1, <2>2
  <2> QED BY <2>1, <2>3, BeginPunctual DEF Points
<1>6. ASSUME NEW u \in Task, osKillTask(u) PROVE AllPunctual'
  <2>1. PICK h \in Points : h = IF state[u] = "READY" THEN "unlink" ELSE "drop"
    BY DEF Points
  <2>2. Begins("kill", u, 0, h) /\ UNCHANGED <<state, nextExecTimeUs, timestamp, slept>>
    BY <1>6, <2>1 DEF osKillTask, vars
  <2> QED BY <2>2, BeginPunctual
<1>7. ASSUME NEW u \in Task, NEW p \in Priorities, osInitTask(u, p) PROVE AllPunctual'
  BY <1>7, InitTaskPunctual
<1>8. CASE (\E u \in Task : BootTask(u)) \/ UNCHANGED pvars
  <2>1. UNCHANGED <<state, nextExecTimeUs, timestamp, pc, local, slept>>
    BY <1>8 DEF BootTask, kernel, pvars, vars
  <2> QED BY <2>1 DEF AllPunctual, Punctual, TimeAfter, WakeUpTime
<1> QED BY <1>1, <1>2, <1>3, <1>4, <1>5, <1>6, <1>7, <1>8 DEF PNext

\* A call of osDelay that returns is that of a task which executes, and so is
\* READY: its delay is over.
LEMMA ReturnsInTime ==
  ASSUME PInv, AllPunctual, At("return"), local[self].op = "delay"
  PROVE  slept[self] > local[self].delayMs
<1>1. Executing /\ self \in Task /\ pc[self] = "return" BY DEF At, Executing, self
<1>2. lists = settled BY <1>1, OutsideCall
<1>3. PICK Q \in Queues, S \in SUBSET TCB : Consistent(Q, S)
  BY <1>2, SettledIsConsistent DEF PInv
<1>4. state[self] = "READY" BY <1>1, <1>3 DEF Consistent, Executing, self
<1> QED BY <1>1, <1>4 DEF AllPunctual, Punctual

\* A task is back from osDelay(delayMs) only after more than delayMs ticks,
\* whatever the calls of other tasks, the kills and restarts and the wraps of
\* the time base in between, if a tick is at most a millisecond and the delay
\* shorter than half the time base.
THEOREM DelaysLastLongEnough ==
  ASSUME TickPoints \subseteq HarmlessTickPoints,
         US_PER_SYS_TICK <= US_PER_MS,
         \A d \in Delays : d * US_PER_MS < TimeMod \div 2
  PROVE  PSpec => NeverEarly
<1>1. ShortDelays BY DEF ShortDelays
<1>2. PInit => AllPunctual
  <2> SUFFICES ASSUME PInit, NEW t \in Task PROVE Punctual(t) BY DEF AllPunctual
  <2>1. local[t] = NoCall /\ slept[t] = 0 BY DEF PInit
  <2> QED BY <2>1 DEF Punctual, NoCall
<1>3. PInv /\ AllPunctual /\ [PNext]_pvars => AllPunctual' BY <1>1, PNextPunctual
<1>4. PInv /\ AllPunctual =>
        (At("return") /\ local[self].op = "delay" /\ pc'[self] = "run"
           => slept[self] > local[self].delayMs)
  BY ReturnsInTime
<1> QED BY <1>2, <1>3, <1>4, PInvariance, PTL DEF PSpec, NeverEarly
==============================================================================
