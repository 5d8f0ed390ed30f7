--------------------------- MODULE TaskListsProofs ---------------------------
(***************************************************************************)
(* Lemmas about the list helpers of TaskLists and the walks of ListWalks,   *)
(* for every number of tasks.                                              *)
(*                                                                         *)
(* That links form one ring, or one list, is said with ranks: a function r  *)
(* numbers the members in the order in which following next meets them.     *)
(* It needs no induction, and it excludes what closed links alone allow: a   *)
(* level whose members form two rings, or a cycle in the delayed list.      *)
(*                                                                         *)
(* On such links a walk meets every member once.  Walk is a recursive       *)
(* function, and no induction principle can be cited.  Its defining         *)
(* equation is shown to have a solution by giving one that is not           *)
(* recursive (Completed); that paths have the properties below is shown by  *)
(* looking at the least place at which they fail.                          *)
(***************************************************************************)
EXTENDS ListWalks, NaturalsInduction, WellFoundedInduction, FiniteSetTheorems,
        FunctionTheorems, TLAPS

Ranks == [TCB -> Nat]

\* The members M form one ring under next (nx) and prev (pv), and the ranks
\* count from i, the iterator.
RingOrder(nx, pv, M, i, r) ==
  /\ i \in M \cup {NULL}
  /\ i = NULL <=> M = {}
  /\ \A t \in M : nx[t] \in M /\ pv[t] \in M /\ pv[nx[t]] = t /\ nx[pv[t]] = t
  /\ \A t, u \in M : r[t] = r[u] => t = u
  /\ \A t \in M : r[i] <= r[t]
  /\ \A t \in M : nx[t] = i => \A u \in M : r[u] <= r[t]
  /\ \A t \in M : nx[t] # i => /\ r[t] < r[nx[t]]
                               /\ \A u \in M : r[t] < r[u] => r[nx[t]] <= r[u]

\* The members M form one list from h to l.
ListOrder(nx, pv, M, h, l, r) ==
  /\ h \in M \cup {NULL} /\ l \in M \cup {NULL}
  /\ h = NULL <=> M = {}
  /\ l = NULL <=> M = {}
  /\ \A t, u \in M : r[t] = r[u] => t = u
  /\ \A t \in M : r[h] <= r[t] /\ r[t] <= r[l]
  /\ \A t \in M : pv[t] = NULL <=> t = h
  /\ \A t \in M : nx[t] = NULL <=> t = l
  /\ \A t \in M : pv[t] # NULL => pv[t] \in M /\ nx[pv[t]] = t
  /\ \A t \in M : nx[t] # NULL =>
       /\ nx[t] \in M /\ pv[nx[t]] = t
       /\ r[t] < r[nx[t]]
       /\ \A u \in M : r[t] < r[u] => r[nx[t]] <= r[u]

\* The ranks r2 and r number the tasks outside M alike.
AlikeOutside(r, r2, M) == \A u \in TCB : u \notin M => r2[u] = r[u]

Joined(M, t) == M \cup {t}

Left(M, t) == M \ {t}

\* nx2 and pv2 are nx and pv with t linked between a and b (Between).
Inserted(nx, pv, nx2, pv2, a, t, b) ==
  /\ \A u \in TCB : nx2[u] = IF u = a THEN t ELSE IF u = t THEN b ELSE nx[u]
  /\ \A u \in TCB : pv2[u] = IF u = b THEN t ELSE IF u = t THEN a ELSE pv[u]

\* nx2 and pv2 are nx and pv with t taken out (Without).
TakenOut(nx, pv, nx2, pv2, t) ==
  /\ \A u \in TCB :
       nx2[u] = IF u = t THEN NULL ELSE IF u = pv[t] THEN nx[t] ELSE nx[u]
  /\ \A u \in TCB :
       pv2[u] = IF u = t THEN NULL ELSE IF u = nx[t] THEN pv[t] ELSE pv[u]

\* The ends h and l of a list from which t is taken out become h2 and l2.
EndsWithout(nx, pv, h, l, t, h2, l2) ==
  /\ h2 = IF h = t THEN nx[t] ELSE h
  /\ l2 = IF l = t THEN pv[t] ELSE l

\* A set of numbers that is not empty has a least element.
LEMMA LeastNumber ==
  ASSUME NEW N \in SUBSET Nat, N # {}
  PROVE  \E n \in N : \A m \in N : n <= m
<1>1. PICK n \in N : \A m \in N : <<m, n>> \notin OpToRel(<, Nat)
  BY NatLessThanWellFounded, WFMin
<1>2. ASSUME NEW m \in N PROVE m < n => <<m, n>> \in OpToRel(<, Nat)
  <2>1. <<m, n>> \in Nat \X Nat OBVIOUS
  <2> QED BY <2>1, Zenon DEF OpToRel
<1>3. \A m \in N : ~(m < n) BY <1>1, <1>2, Zenon
<1> QED BY <1>3

\* A set of ranked tasks that is not empty has a first member.
LEMMA FirstRanked ==
  ASSUME NEW r \in Ranks, NEW A \in SUBSET TCB, A # {}
  PROVE  \E u \in A : \A v \in A : r[u] <= r[v]
<1> DEFINE N == {r[u] : u \in A}
<1>1. N \in SUBSET Nat /\ N # {} BY DEF Ranks
<1>2. PICK n \in N : \A m \in N : n <= m BY <1>1, LeastNumber
<1> QED BY <1>2

----------------------------------------------------------------------------
(* What the helpers do to a ring.                                          *)

\* Only the links and ranks of the members matter.
LEMMA RingFrame ==
  ASSUME NEW nx, NEW pv, NEW r, NEW nx2, NEW pv2, NEW r2, NEW M, NEW i,
         RingOrder(nx, pv, M, i, r),
         \A u \in M : nx2[u] = nx[u] /\ pv2[u] = pv[u] /\ r2[u] = r[u]
  PROVE  RingOrder(nx2, pv2, M, i, r2)
BY DEF RingOrder

\* The same of a list.
LEMMA ListFrame ==
  ASSUME NEW nx, NEW pv, NEW r, NEW nx2, NEW pv2, NEW r2, NEW M, NEW h, NEW l,
         ListOrder(nx, pv, M, h, l, r),
         \A u \in M : nx2[u] = nx[u] /\ pv2[u] = pv[u] /\ r2[u] = r[u]
  PROVE  ListOrder(nx2, pv2, M, h, l, r2)
BY DEF ListOrder

\* The first task of a queue is a ring of its own.
LEMMA RingOfOne ==
  ASSUME NEW nx, NEW pv, NEW r \in Ranks, NEW t \in TCB, nx[t] = t, pv[t] = t
  PROVE  RingOrder(nx, pv, {t}, t, r)
BY TasksAreNotNull DEF RingOrder, Ranks, TCB

\* A task linked before the iterator comes last.
LEMMA RingPush ==
  ASSUME NEW nx, NEW pv, NEW r \in Ranks, NEW nx2, NEW pv2, NEW M \in SUBSET TCB, NEW i \in M,
         RingOrder(nx, pv, M, i, r), NEW t \in TCB \ M,
         Inserted(nx, pv, nx2, pv2, pv[i], t, i)
  PROVE  \E r2 \in Ranks :
           /\ AlikeOutside(r, r2, Joined(M, t))
           /\ RingOrder(nx2, pv2, Joined(M, t), i, r2)
<1> DEFINE r2 == [r EXCEPT ![t] = r[pv[i]] + 1]
           N == M \cup {t}
<1>1. pv[i] \in M /\ pv[i] # t /\ i # t /\ nx[pv[i]] = i /\ N \subseteq TCB
  BY DEF RingOrder
<1>2. /\ r2 \in Ranks /\ r2[t] = r[pv[i]] + 1
      /\ \A u \in M : r2[u] = r[u]
      /\ \A u \in TCB : u # t => r2[u] = r[u]
  BY <1>1 DEF Ranks
<1>3. \A u \in M : r[u] \in Nat /\ r[u] <= r[pv[i]]
  BY <1>1 DEF RingOrder, Ranks
<1>4. \A u \in N : r2[u] \in Nat /\ (u \in M => r2[u] < r2[t])
  BY <1>2, <1>3, <1>1 DEF Ranks
<1>5. /\ nx2[pv[i]] = t /\ nx2[t] = i /\ pv2[i] = t /\ pv2[t] = pv[i]
      /\ \A u \in M : u # pv[i] => nx2[u] = nx[u]
      /\ \A u \in M : u # i => pv2[u] = pv[u]
  BY <1>1 DEF Inserted
<1> HIDE DEF r2
<1>6. \A u \in N : nx2[u] \in N /\ pv2[u] \in N /\ pv2[nx2[u]] = u /\ nx2[pv2[u]] = u
  BY <1>1, <1>5 DEF RingOrder
<1>7. \A u, v \in N : r2[u] = r2[v] => u = v
  BY <1>2, <1>3, <1>4 DEF RingOrder
<1>8. \A u \in N : r2[i] <= r2[u]
  BY <1>2, <1>3, <1>4 DEF RingOrder
<1>9. \A u \in N : nx2[u] = i => \A v \in N : r2[v] <= r2[u]
  BY <1>1, <1>4, <1>5 DEF RingOrder
<1>10. \A u \in N : nx2[u] # i =>
         r2[u] < r2[nx2[u]] /\ \A v \in N : r2[u] < r2[v] => r2[nx2[u]] <= r2[v]
  <2> SUFFICES ASSUME NEW u \in N, nx2[u] # i
               PROVE  r2[u] < r2[nx2[u]] /\ \A v \in N : r2[u] < r2[v] => r2[nx2[u]] <= r2[v]
    OBVIOUS
  <2>1. u \in M BY <1>5
  <2>2. CASE u = pv[i] BY <2>1, <2>2, <1>2, <1>3, <1>4, <1>5
  <2>3. CASE u # pv[i]
    <3>1. nx2[u] = nx[u] /\ nx[u] \in M /\ nx[u] # i BY <2>1, <2>3, <1>5 DEF RingOrder
    <3>2. r[u] < r[nx[u]] /\ \A v \in M : r[u] < r[v] => r[nx[u]] <= r[v]
      BY <2>1, <3>1 DEF RingOrder
    <3> QED BY <2>1, <3>1, <3>2, <1>2, <1>3, <1>4
  <2> QED BY <2>2, <2>3
<1>11. RingOrder(nx2, pv2, N, i, r2)
  BY <1>1, <1>6, <1>7, <1>8, <1>9, <1>10, TasksAreNotNull DEF RingOrder, TCB
<1> QED BY <1>2, <1>11 DEF Joined, AlikeOutside

\* The iterator moves on, and the task it leaves comes last.
LEMMA RingIterate ==
  ASSUME NEW nx, NEW pv, NEW r \in Ranks, NEW M \in SUBSET TCB, NEW i \in M,
         RingOrder(nx, pv, M, i, r)
  PROVE  \E r2 \in Ranks :
           /\ AlikeOutside(r, r2, M)
           /\ RingOrder(nx, pv, M, nx[i], r2)
<1> DEFINE r2 == [r EXCEPT ![i] = r[pv[i]] + 1]
<1>1. /\ i \in TCB /\ pv[i] \in M /\ nx[i] \in M /\ nx[pv[i]] = i /\ pv[nx[i]] = i
      /\ i # NULL
  BY TasksAreNotNull DEF RingOrder, TCB
<1>2. /\ r2 \in Ranks /\ r2[i] = r[pv[i]] + 1
      /\ \A u \in TCB : u # i => r2[u] = r[u]
  BY <1>1 DEF Ranks
<1>3. \A u \in M : r[u] \in Nat /\ r[u] <= r[pv[i]] /\ r[i] <= r[u]
  BY <1>1 DEF RingOrder, Ranks
<1>4. \A u \in M : r2[u] \in Nat /\ (u # i => r2[u] < r2[i])
  BY <1>2, <1>3, <1>1 DEF Ranks
<1> HIDE DEF r2
<1>5. \A u, v \in M : r2[u] = r2[v] => u = v
  BY <1>2, <1>3, <1>4 DEF RingOrder
<1>6. \A u \in M : u # i => r[i] < r[u]
  <2> SUFFICES ASSUME NEW u \in M, u # i PROVE r[i] < r[u] OBVIOUS
  <2>1. r[u] # r[i] BY DEF RingOrder
  <2>2. r[i] \in Nat /\ r[u] \in Nat /\ r[i] <= r[u] BY <1>3
  <2> QED BY <2>1, <2>2
<1>7. \A u \in M : u # i => nx[i] # i /\ r[nx[i]] <= r[u]
  BY <1>3, <1>6 DEF RingOrder
<1>8. \A u \in M : r2[nx[i]] <= r2[u]
  BY <1>1, <1>2, <1>4, <1>7
<1>9. \A u \in M : nx[u] = nx[i] => u = i
  BY <1>1 DEF RingOrder
<1>10. \A u \in M : nx[u] # nx[i] =>
         r2[u] < r2[nx[u]] /\ \A v \in M : r2[u] < r2[v] => r2[nx[u]] <= r2[v]
  <2> SUFFICES ASSUME NEW u \in M, nx[u] # nx[i]
               PROVE  r2[u] < r2[nx[u]] /\ \A v \in M : r2[u] < r2[v] => r2[nx[u]] <= r2[v]
    OBVIOUS
  <2>1. u # i /\ nx[u] \in M BY DEF RingOrder
  <2>2. CASE nx[u] = i
    <3>1. \A v \in M : r[v] <= r[u] BY <2>2 DEF RingOrder
    <3> QED BY <2>1, <2>2, <3>1, <1>2, <1>3, <1>4
  <2>3. CASE nx[u] # i
    <3>1. r[u] < r[nx[u]] /\ \A v \in M : r[u] < r[v] => r[nx[u]] <= r[v]
      BY <2>3 DEF RingOrder
    <3> QED BY <2>1, <2>3, <3>1, <1>2, <1>3, <1>4
  <2> QED BY <2>2, <2>3
<1>11. /\ nx[i] \in M \cup {NULL}
       /\ nx[i] = NULL <=> M = {}
       /\ \A u \in M : nx[u] \in M /\ pv[u] \in M /\ pv[nx[u]] = u /\ nx[pv[u]] = u
       /\ \A u \in M : nx[u] = nx[i] => \A v \in M : r2[v] <= r2[u]
  BY <1>1, <1>4, <1>9, TasksAreNotNull DEF RingOrder, TCB
<1>12. RingOrder(nx, pv, M, nx[i], r2)
  BY <1>5, <1>8, <1>10, <1>11 DEF RingOrder
<1> QED BY <1>2, <1>12 DEF AlikeOutside

\* A task that is its own neighbour is alone in its ring.
LEMMA RingAlone ==
  ASSUME NEW nx, NEW pv, NEW r \in Ranks, NEW M \in SUBSET TCB, NEW i,
         RingOrder(nx, pv, M, i, r), NEW t \in M, nx[t] = t
  PROVE  M = {t}
<1>1. \A u \in M : r[u] \in Nat BY DEF Ranks
<1>2. t = i BY <1>1 DEF RingOrder
<1>3. \A u \in M : r[u] <= r[t] /\ r[t] <= r[u] BY <1>2 DEF RingOrder
<1> QED BY <1>1, <1>3 DEF RingOrder

\* Ranks that begin with the task after t: the ones before it come last.
Shifted(r, M, t, last) ==
  [u \in TCB |-> IF u \in M /\ r[u] < r[t] THEN r[u] + r[last] + 1 ELSE r[u]]

\* A task that is not alone leaves a ring behind.
LEMMA RingRemove ==
  ASSUME NEW nx, NEW pv, NEW r \in Ranks, NEW nx2, NEW pv2, NEW M \in SUBSET TCB, NEW i,
         RingOrder(nx, pv, M, i, r), NEW t \in M, nx[t] # t,
         TakenOut(nx, pv, nx2, pv2, t)
  PROVE  \E r2 \in Ranks :
           /\ AlikeOutside(r, r2, M)
           /\ RingOrder(nx2, pv2, Left(M, t), nx[t], r2)
<1> DEFINE s == Shifted(r, M, t, pv[i])
           N == M \ {t}
           n == nx[t]
           p == pv[t]
           l == pv[i]
<1>1. /\ i \in M /\ l \in M /\ nx[l] = i /\ n \in N /\ p \in N /\ nx[p] = t /\ pv[n] = t
      /\ NULL \notin M
  BY TasksAreNotNull DEF RingOrder, TCB
<1>2. \A u \in M : r[u] \in Nat /\ r[i] <= r[u] /\ r[u] <= r[l]
  BY <1>1 DEF RingOrder, Ranks
<1>3. /\ s \in Ranks
      /\ \A u \in M : r[u] < r[t] => s[u] = r[u] + r[l] + 1
      /\ \A u \in M : ~(r[u] < r[t]) => s[u] = r[u]
      /\ \A u \in TCB : u \notin M => s[u] = r[u]
  BY <1>1, <1>2 DEF Shifted, Ranks
<1>4. /\ nx2[p] = n /\ pv2[n] = p
      /\ \A u \in N : u # p => nx2[u] = nx[u] /\ nx[u] \in N
      /\ \A u \in N : u # n => pv2[u] = pv[u] /\ pv[u] \in N
  BY <1>1 DEF RingOrder, TakenOut
<1> HIDE DEF s
<1>5. \A u, v \in N : s[u] = s[v] => u = v
  <2> SUFFICES ASSUME NEW u \in N, NEW v \in N, u # v PROVE s[u] # s[v] OBVIOUS
  <2>1. r[u] # r[v] BY DEF RingOrder
  <2>2. r[u] \in Nat /\ r[v] \in Nat /\ r[l] \in Nat /\ r[u] <= r[l] /\ r[v] <= r[l]
    BY <1>1, <1>2
  <2> QED BY <2>1, <2>2, <1>3
<1>6. \A u \in N : nx2[u] \in N /\ pv2[u] \in N /\ pv2[nx2[u]] = u /\ nx2[pv2[u]] = u
  BY <1>1, <1>4 DEF RingOrder
<1>7. \A u \in N : r[u] # r[t] BY DEF RingOrder

\* n comes first.
<1>8. \A u \in N : s[n] <= s[u]
  <2>1. CASE n = i
    <3>1. \A u \in M : r[u] <= r[t] BY <2>1 DEF RingOrder
    <3> QED BY <3>1, <2>1, <1>1, <1>2, <1>3, <1>7
  <2>2. CASE n # i
    <3>1. r[t] < r[n] /\ \A u \in M : r[t] < r[u] => r[n] <= r[u]
      BY <2>2 DEF RingOrder
    <3> QED BY <3>1, <1>1, <1>2, <1>3, <1>7
  <2> QED BY <2>1, <2>2
\* p comes last.
<1>9. \A u \in N : s[u] <= s[p]
  <2>1. CASE t = i
    <3>1. \A u \in M : r[u] <= r[p] BY <2>1, <1>1 DEF RingOrder
    <3> QED BY <3>1, <2>1, <1>1, <1>2, <1>3
  <2>2. CASE t # i
    <3>1. r[p] < r[t] /\ \A u \in M : r[p] < r[u] => r[t] <= r[u]
      BY <2>2, <1>1 DEF RingOrder
    <3> QED BY <3>1, <1>1, <1>2, <1>3, <1>7
  <2> QED BY <2>1, <2>2
<1>10. \A u \in N : nx2[u] = n => u = p
  BY <1>1, <1>4 DEF RingOrder
<1>11. ASSUME NEW u \in N, nx2[u] # n
       PROVE  s[u] < s[nx2[u]] /\ \A v \in N : s[u] < s[v] => s[nx2[u]] <= s[v]
  <2>1. u # p /\ nx2[u] = nx[u] /\ nx[u] \in N BY <1>11, <1>4
  <2>2. CASE nx[u] = i
    <3>1. \A v \in M : r[v] <= r[u] BY <2>2 DEF RingOrder
    <3>2. r[t] < r[u] /\ r[i] < r[t] BY <3>1, <2>1, <2>2, <1>1, <1>2, <1>7
    <3> QED BY <3>1, <3>2, <2>1, <2>2, <1>1, <1>2, <1>3, <1>7
  <2>3. CASE nx[u] # i
    <3>1. r[u] < r[nx[u]] /\ \A v \in M : r[u] < r[v] => r[nx[u]] <= r[v]
      BY <2>3 DEF RingOrder
    <3>2. r[u] < r[t] <=> r[nx[u]] < r[t]
      BY <3>1, <2>1, <1>1, <1>2, <1>7
    <3> QED BY <3>1, <3>2, <2>1, <1>1, <1>2, <1>3, <1>7
  <2> QED BY <2>2, <2>3
<1>12. RingOrder(nx2, pv2, N, n, s)
  BY <1>1, <1>5, <1>6, <1>8, <1>9, <1>10, <1>11 DEF RingOrder
<1> QED BY <1>3, <1>12 DEF Left, AlikeOutside

----------------------------------------------------------------------------
(* What the helpers do to the delayed list.                                *)

\* A task added to the list comes last.
LEMMA ListAdd ==
  ASSUME NEW nx, NEW pv, NEW r \in Ranks, NEW nx2, NEW pv2, NEW M \in SUBSET TCB,
         NEW h, NEW l, NEW h2, ListOrder(nx, pv, M, h, l, r), NEW t \in TCB \ M,
         h2 = IF h = NULL THEN t ELSE h,
         Inserted(nx, pv, nx2, pv2, l, t, NULL)
  PROVE  \E r2 \in Ranks :
           /\ AlikeOutside(r, r2, Joined(M, t))
           /\ ListOrder(nx2, pv2, Joined(M, t), h2, t, r2)
<1>1. t # NULL /\ NULL \notin M /\ t \in TCB /\ NULL \notin TCB
  BY TasksAreNotNull DEF TCB
<1>2. CASE M = {}
  <2>1. h = NULL /\ l = NULL BY <1>2 DEF ListOrder
  <2>2. nx2[t] = NULL /\ pv2[t] = NULL BY <2>1, <1>1 DEF Inserted
  <2>3. ListOrder(nx2, pv2, {t}, t, t, r)
    BY <2>2, <1>1 DEF ListOrder, Ranks
  <2>4. h2 = t /\ M \cup {t} = {t} BY <1>2, <2>1
  <2> QED BY <2>3, <2>4 DEF Joined, AlikeOutside
<1>3. CASE M # {}
  <2> DEFINE s == [r EXCEPT ![t] = r[l] + 1]
             N == M \cup {t}
  <2>1. h \in M /\ l \in M /\ h # NULL /\ l # NULL /\ t # l /\ t # h
    BY <1>3, <1>1 DEF ListOrder
  <2>2. \A u \in M : r[u] \in Nat /\ r[u] <= r[l] BY <2>1 DEF ListOrder, Ranks
  <2>3. /\ s \in Ranks /\ s[t] = r[l] + 1
        /\ \A u \in M : s[u] = r[u] /\ s[u] < s[t]
        /\ \A u \in TCB : u # t => s[u] = r[u]
    BY <2>1, <2>2 DEF Ranks
  <2>4. /\ nx2[l] = t /\ nx2[t] = NULL /\ pv2[t] = l
        /\ \A u \in M : pv2[u] = pv[u] /\ (u # l => nx2[u] = nx[u])
    BY <2>1, <1>1 DEF Inserted
  <2>5. r[l] + 1 \in Nat BY <2>1, <2>2
  <2> HIDE DEF s
  <2>6. \A u, v \in N : s[u] = s[v] => u = v
    BY <2>2, <2>3 DEF ListOrder
  <2>7. \A u \in N : s[h] <= s[u] /\ s[u] <= s[t]
    BY <2>1, <2>2, <2>3, <2>5 DEF ListOrder
  <2>8. /\ \A u \in N : pv2[u] = NULL <=> u = h
        /\ \A u \in N : nx2[u] = NULL <=> u = t
    BY <2>1, <2>4, <1>1 DEF ListOrder
  <2>9. \A u \in N : pv2[u] # NULL => pv2[u] \in N /\ nx2[pv2[u]] = u
    BY <2>1, <2>4, <1>1 DEF ListOrder
  <2>10. ASSUME NEW u \in N, nx2[u] # NULL
         PROVE  /\ nx2[u] \in N /\ pv2[nx2[u]] = u
                /\ s[u] < s[nx2[u]]
                /\ \A v \in N : s[u] < s[v] => s[nx2[u]] <= s[v]
    <3>1. u \in M BY <2>10, <2>4
    <3>2. CASE u = l BY <3>2, <2>1, <2>2, <2>3, <2>4, <2>5
    <3>3. CASE u # l
      <4>1. /\ nx2[u] = nx[u] /\ nx[u] \in M /\ pv[nx[u]] = u /\ r[u] < r[nx[u]]
            /\ \A v \in M : r[u] < r[v] => r[nx[u]] <= r[v]
        BY <2>10, <3>1, <3>3, <2>4 DEF ListOrder
      <4> QED BY <4>1, <3>1, <2>2, <2>3, <2>4, <2>5
    <3> QED BY <3>2, <3>3
  <2>11. ListOrder(nx2, pv2, N, h, t, s)
    BY <2>1, <2>6, <2>7, <2>8, <2>9, <2>10 DEF ListOrder
  <2>12. h2 = h BY <2>1
  <2> QED BY <2>3, <2>11, <2>12 DEF Joined, AlikeOutside
<1> QED BY <1>2, <1>3

\* The ranks of the others stay when a task leaves the list.
LEMMA ListRemove ==
  ASSUME NEW nx, NEW pv, NEW r \in Ranks, NEW nx2, NEW pv2, NEW M \in SUBSET TCB,
         NEW h, NEW l, ListOrder(nx, pv, M, h, l, r), NEW t \in M,
         TakenOut(nx, pv, nx2, pv2, t),
         NEW h2, NEW l2, EndsWithout(nx, pv, h, l, t, h2, l2)
  PROVE  ListOrder(nx2, pv2, Left(M, t), h2, l2, r)
<1> DEFINE N == M \ {t}
<1> USE DEF EndsWithout
<1>1. NULL \notin M /\ h \in M /\ l \in M BY TasksAreNotNull DEF TCB, ListOrder
<1>2. \A u \in M : r[u] \in Nat BY DEF Ranks
<1>3. /\ nx[t] # NULL => nx[t] \in N /\ pv[nx[t]] = t
      /\ pv[t] # NULL => pv[t] \in N /\ nx[pv[t]] = t
      /\ pv[t] = NULL <=> t = h
      /\ nx[t] = NULL <=> t = l
  BY <1>2 DEF ListOrder
<1>4. /\ \A u \in N : nx2[u] = IF u = pv[t] THEN nx[t] ELSE nx[u]
      /\ \A u \in N : pv2[u] = IF u = nx[t] THEN pv[t] ELSE pv[u]
  BY DEF TakenOut
<1>5. \A u \in N : r[u] # r[t] BY DEF ListOrder
<1>6. /\ h2 \in N \cup {NULL} /\ l2 \in N \cup {NULL}
      /\ h2 = NULL <=> N = {}
      /\ l2 = NULL <=> N = {}
  <2>1. CASE N = {} BY <2>1, <1>1, <1>3
  <2>2. CASE N # {}
    <3>1. PICK u \in N : TRUE BY <2>2
    <3>2. h = l => r[u] = r[h] /\ r[t] = r[h]
      <4>1. u \in M /\ r[h] <= r[u] /\ r[u] <= r[l] /\ r[h] <= r[t] /\ r[t] <= r[l]
        BY DEF ListOrder
      <4> QED BY <4>1, <1>1, <1>2
    <3>3. h # l BY <3>1, <3>2 DEF ListOrder
    <3> QED BY <3>1, <3>3, <1>1, <1>3
  <2> QED BY <2>1, <2>2
<1>7. \A u \in N : r[h2] <= r[u] /\ r[u] <= r[l2]
  <2> SUFFICES ASSUME NEW u \in N PROVE r[h2] <= r[u] /\ r[u] <= r[l2] OBVIOUS
  <2>1. r[h] <= r[u] /\ r[u] <= r[l] BY DEF ListOrder
  <2>2. CASE h = t
    <3>1. r[t] < r[u] BY <2>1, <2>2, <1>2, <1>5
    <3>2. nx[t] # NULL BY <3>1, <1>2, <1>3, <2>1
    <3>3. r[nx[t]] <= r[u] BY <3>1, <3>2 DEF ListOrder
    <3> QED BY <3>3, <2>1, <2>2, <3>1, <3>2, <1>3, <1>2
  <2>3. CASE l = t
    <3>1. r[u] < r[t] BY <2>1, <2>3, <1>2, <1>5
    <3>2. pv[t] # NULL BY <3>1, <1>2, <1>3, <2>1
    <3>3. pv[t] \in N /\ nx[pv[t]] = t /\ r[pv[t]] < r[t] BY <3>2, <1>1, <1>3 DEF ListOrder
    <3>4. r[pv[t]] < r[u] => r[t] <= r[u] BY <3>3, <1>1 DEF ListOrder
    <3>5. r[u] <= r[pv[t]] BY <3>1, <3>3, <3>4, <1>2
    <3> QED BY <3>5, <2>1, <2>3, <3>2, <1>3, <1>2
  <2> QED BY <2>1, <2>2, <2>3
<1>8. /\ \A u \in N : pv2[u] = NULL <=> u = h2
      /\ \A u \in N : nx2[u] = NULL <=> u = l2
  BY <1>1, <1>3, <1>4 DEF ListOrder
<1>9. \A u \in N : pv2[u] # NULL => pv2[u] \in N /\ nx2[pv2[u]] = u
  BY <1>1, <1>3, <1>4 DEF ListOrder
<1>10. ASSUME NEW u \in N, nx2[u] # NULL
       PROVE  /\ nx2[u] \in N /\ pv2[nx2[u]] = u
              /\ r[u] < r[nx2[u]]
              /\ \A v \in N : r[u] < r[v] => r[nx2[u]] <= r[v]
  <2>1. CASE u = pv[t]
    <3>1. nx2[u] = nx[t] /\ nx[u] = t /\ nx[t] \in N /\ pv2[nx[t]] = u
      BY <2>1, <1>10, <1>1, <1>3, <1>4
    <3>2. /\ r[u] < r[t] /\ r[t] < r[nx[t]]
          /\ \A v \in M : r[u] < r[v] => r[t] <= r[v]
          /\ \A v \in M : r[t] < r[v] => r[nx[t]] <= r[v]
      BY <3>1, <1>1 DEF ListOrder
    <3> QED BY <3>1, <3>2, <1>2, <1>5
  <2>2. CASE u # pv[t]
    <3>1. nx2[u] = nx[u] /\ nx[u] # NULL BY <2>2, <1>10, <1>4
    <3>2. nx[u] \in M /\ pv[nx[u]] = u /\ r[u] < r[nx[u]]
          /\ \A v \in M : r[u] < r[v] => r[nx[u]] <= r[v]
      BY <3>1 DEF ListOrder
    <3>3. nx[u] # t /\ nx[u] # nx[t] BY <3>1, <3>2, <2>2, <1>3
    <3> QED BY <3>1, <3>2, <3>3, <1>4
  <2> QED BY <2>1, <2>2
<1>11. ListOrder(nx2, pv2, N, h2, l2, r)
  BY <1>6, <1>7, <1>8, <1>9, <1>10 DEF ListOrder
<1> QED BY <1>11 DEF Left

----------------------------------------------------------------------------
(* The record each helper returns, field by field.                         *)

\* Between links t to the two it stands between, and changes nothing else.
LEMMA BetweenFields ==
  ASSUME NEW L \in ListRecord, NEW t \in TCB, NEW pv \in Pointer, NEW nx \in Pointer
  PROVE  /\ Between(L, pv, t, nx) \in ListRecord
         /\ Inserted(L.next, L.prev, Between(L, pv, t, nx).next, Between(L, pv, t, nx).prev,
                     pv, t, nx)
         /\ Between(L, pv, t, nx).iter = L.iter
         /\ Between(L, pv, t, nx).head = L.head
         /\ Between(L, pv, t, nx).tail = L.tail
         /\ Between(L, pv, t, nx).fault = L.fault
BY DEF Between, ListRecord, Pointer, Inserted

\* Without takes t out of the links, and changes nothing else.
LEMMA WithoutFields ==
  ASSUME NEW L \in ListRecord, NEW t \in TCB
  PROVE  /\ Without(L, t) \in ListRecord
         /\ TakenOut(L.next, L.prev, Without(L, t).next, Without(L, t).prev, t)
         /\ Without(L, t).iter = L.iter
         /\ Without(L, t).head = L.head
         /\ Without(L, t).tail = L.tail
         /\ Without(L, t).fault = L.fault
BY DEF Without, ListRecord, Pointer, TakenOut

\* A fault leaves the links as they were.
LEMMA FaultedFields ==
  ASSUME NEW L \in ListRecord
  PROVE  /\ Faulted(L) \in ListRecord
         /\ Faulted(L).next = L.next /\ Faulted(L).prev = L.prev
         /\ Faulted(L).iter = L.iter
         /\ Faulted(L).head = L.head /\ Faulted(L).tail = L.tail
BY DEF Faulted, ListRecord

\* _listAddTask returns a list record.
LEMMA ListAddType ==
  ASSUME NEW L \in ListRecord, NEW t \in TCB
  PROVE  _listAddTask(L, t) \in ListRecord
<1> DEFINE B == Between(L, L.tail, t, NULL)
<1>1. L.tail \in Pointer /\ NULL \in Pointer BY DEF ListRecord, Pointer
<1>2. B \in ListRecord BY <1>1, BetweenFields
<1> QED BY <1>2 DEF _listAddTask, ListRecord, Pointer

\* So does _listRemoveTask.
LEMMA ListRemoveType ==
  ASSUME NEW L \in ListRecord, NEW t \in TCB
  PROVE  _listRemoveTask(L, t) \in ListRecord
<1>1. Without(L, t) \in ListRecord BY WithoutFields
<1> QED BY <1>1 DEF _listRemoveTask, ListRecord, Pointer

\* So does _readyQueuePushTask, at any priority.
LEMMA PushType ==
  ASSUME NEW L \in ListRecord, NEW t \in TCB, NEW p
  PROVE  _readyQueuePushTask(L, p, t) \in ListRecord
<1>1. CASE p \notin Level
  BY <1>1, FaultedFields DEF _readyQueuePushTask
<1>2. CASE p \in Level /\ L.iter[p] = NULL
  BY <1>2 DEF _readyQueuePushTask, ListRecord, Pointer
<1>3. CASE p \in Level /\ L.iter[p] # NULL
  <2>1. L.iter[p] \in TCB /\ L.iter[p] \in Pointer BY <1>3 DEF ListRecord, Pointer
  <2>2. L.prev[L.iter[p]] \in Pointer BY <2>1 DEF ListRecord
  <2> QED BY <1>3, <2>1, <2>2, BetweenFields, FaultedFields DEF _readyQueuePushTask
<1> QED BY <1>1, <1>2, <1>3

\* So does _readyQueueRemoveTask, whatever the task is linked to.
LEMMA ReadyRemoveType ==
  ASSUME NEW L \in ListRecord, NEW t \in TCB, NEW p
  PROVE  _readyQueueRemoveTask(L, p, t) \in ListRecord
<1>1. L.next[t] \in Pointer /\ NULL \in Pointer BY DEF ListRecord, Pointer
<1>2. Without(L, t) \in ListRecord BY WithoutFields
<1>3. \A q \in Pointer : [Without(L, t) EXCEPT !.iter[p] = q] \in ListRecord
  BY <1>2 DEF ListRecord
<1> QED BY <1>1, <1>3, FaultedFields DEF _readyQueueRemoveTask

\* So does _readyQueueIterateForwards, of a queue that is not empty.
LEMMA IterateType ==
  ASSUME NEW L \in ListRecord, NEW p \in Level, L.iter[p] # NULL
  PROVE  _readyQueueIterateForwards(L, p) \in ListRecord
<1>1. L.iter[p] \in TCB BY DEF ListRecord, Pointer
<1>2. L.next[L.iter[p]] \in Pointer BY <1>1 DEF ListRecord
<1> QED BY <1>2 DEF _readyQueueIterateForwards, ListRecord

----------------------------------------------------------------------------
(* The whole structure: the queue of each level and the delayed list are    *)
(* disjoint, each in order, and every other task is linked nowhere.         *)

Queues == [Level -> SUBSET TCB]

\* The queues once t has joined, or left, the one of level p.
QueueJoined(Q, p, t) == [Q EXCEPT ![p] = Joined(@, t)]

QueueLeft(Q, p, t) == [Q EXCEPT ![p] = Left(@, t)]

Apart(Q, S) ==
  /\ Q \in Queues /\ S \in SUBSET TCB
  /\ \A p \in Level : Q[p] \cap S = {}
  /\ \A p, q \in Level : p # q => Q[p] \cap Q[q] = {}

InOrder(L, Q, S, r) ==
  /\ \A p \in Level : RingOrder(L.next, L.prev, Q[p], L.iter[p], r)
  /\ ListOrder(L.next, L.prev, S, L.head, L.tail, r)

Nowhere(t, Q, S) == t \in TCB /\ t \notin S /\ \A p \in Level : t \notin Q[p]

WellFormed(L, Q, S) ==
  /\ L \in ListRecord
  /\ Apart(Q, S)
  /\ \E r \in Ranks : InOrder(L, Q, S, r)
  /\ \A t \in TCB : Nowhere(t, Q, S) => L.next[t] = NULL /\ L.prev[t] = NULL

\* Whether a task is linked can be read off its own control block and the two
\* ends of the delayed list (Unlinked).
LEMMA LinkedSomewhere ==
  ASSUME NEW L, NEW Q, NEW S, WellFormed(L, Q, S), NEW t \in TCB
  PROVE  Nowhere(t, Q, S) <=> /\ L.next[t] = NULL /\ L.prev[t] = NULL
                              /\ t \notin {L.head, L.tail}
<1>1. PICK r \in Ranks : InOrder(L, Q, S, r) BY DEF WellFormed
<1>2. t # NULL BY TasksAreNotNull DEF TCB
<1>3. ASSUME NEW p \in Level, t \in Q[p] PROVE L.next[t] # NULL
  <2>1. L.next[t] \in Q[p] /\ Q[p] \subseteq TCB
    BY <1>1, <1>3 DEF InOrder, RingOrder, WellFormed, Apart, Queues
  <2> QED BY <2>1, TasksAreNotNull DEF TCB
<1>4. ASSUME t \in S PROVE L.next[t] # NULL \/ t = L.tail
  BY <1>1, <1>4 DEF InOrder, ListOrder
<1>5. L.head \in S \cup {NULL} /\ L.tail \in S \cup {NULL}
  BY <1>1 DEF InOrder, ListOrder
<1> QED BY <1>2, <1>3, <1>4, <1>5 DEF Nowhere, WellFormed

\* N and L link the tasks outside X alike.
SameLinks(L, N, X) ==
  \A u \in TCB : u \notin X => N.next[u] = L.next[u] /\ N.prev[u] = L.prev[u]

\* Changes within the ring of level p leave the rest as it is.
LEMMA OneRingChanged ==
  ASSUME NEW L, NEW Q, NEW S, WellFormed(L, Q, S),
         NEW r \in Ranks, InOrder(L, Q, S, r), NEW p \in Level,
         NEW X \in SUBSET TCB, X \cap S = {}, Q[p] \subseteq X,
         \A q \in Level : q # p => X \cap Q[q] = {},
         NEW N \in ListRecord, SameLinks(L, N, X),
         N.head = L.head, N.tail = L.tail,
         \A q \in Level : q # p => N.iter[q] = L.iter[q],
         NEW R \in Queues, R[p] \subseteq X, \A q \in Level : q # p => R[q] = Q[q],
         NEW r2 \in Ranks, AlikeOutside(r, r2, X),
         RingOrder(N.next, N.prev, R[p], N.iter[p], r2),
         \A u \in X : u \notin R[p] => N.next[u] = NULL /\ N.prev[u] = NULL
  PROVE  WellFormed(N, R, S)
<1>1. Q \in Queues /\ S \in SUBSET TCB /\ Apart(Q, S) BY DEF WellFormed, Apart
<1>2. Apart(R, S) BY <1>1 DEF Apart, Queues
<1>3. ListOrder(N.next, N.prev, S, N.head, N.tail, r2)
  <2>1. \A u \in S : N.next[u] = L.next[u] /\ N.prev[u] = L.prev[u] /\ r2[u] = r[u]
    BY <1>1 DEF SameLinks, AlikeOutside
  <2>2. ListOrder(L.next, L.prev, S, L.head, L.tail, r) BY DEF InOrder
  <2>3. ListOrder(N.next, N.prev, S, L.head, L.tail, r2) BY <2>1, <2>2, ListFrame
  <2> QED BY <2>3
<1>4. ASSUME NEW q \in Level, q # p
      PROVE  RingOrder(N.next, N.prev, R[q], N.iter[q], r2)
  <2>1. \A u \in Q[q] : N.next[u] = L.next[u] /\ N.prev[u] = L.prev[u] /\ r2[u] = r[u]
    BY <1>1, <1>4 DEF SameLinks, AlikeOutside, Queues
  <2>2. RingOrder(L.next, L.prev, Q[q], L.iter[q], r) BY DEF InOrder
  <2>3. RingOrder(N.next, N.prev, Q[q], L.iter[q], r2) BY <2>1, <2>2, RingFrame
  <2> QED BY <2>3, <1>4
<1>5. InOrder(N, R, S, r2) BY <1>3, <1>4 DEF InOrder
<1>6. ASSUME NEW u \in TCB, Nowhere(u, R, S) PROVE N.next[u] = NULL /\ N.prev[u] = NULL
  <2>1. u \notin R[p] BY <1>6 DEF Nowhere
  <2>2. CASE u \in X BY <2>1, <2>2
  <2>3. CASE u \notin X
    <3>1. Nowhere(u, Q, S) BY <1>6, <2>3 DEF Nowhere
    <3> QED BY <2>3, <3>1 DEF WellFormed, SameLinks
  <2> QED BY <2>2, <2>3
<1> QED BY <1>2, <1>5, <1>6 DEF WellFormed

\* Changes within the delayed list leave the queues as they are.
LEMMA ListChanged ==
  ASSUME NEW L, NEW Q, NEW S, WellFormed(L, Q, S),
         NEW r \in Ranks, InOrder(L, Q, S, r),
         NEW X \in SUBSET TCB, S \subseteq X, \A q \in Level : X \cap Q[q] = {},
         NEW N \in ListRecord, SameLinks(L, N, X), N.iter = L.iter,
         NEW T, T \subseteq X,
         NEW r2 \in Ranks, AlikeOutside(r, r2, X),
         ListOrder(N.next, N.prev, T, N.head, N.tail, r2),
         \A u \in X : u \notin T => N.next[u] = NULL /\ N.prev[u] = NULL
  PROVE  WellFormed(N, Q, T)
<1>1. Q \in Queues /\ Apart(Q, S) BY DEF WellFormed, Apart
<1>2. Apart(Q, T) BY <1>1 DEF Apart, Queues
<1>3. ASSUME NEW q \in Level PROVE RingOrder(N.next, N.prev, Q[q], N.iter[q], r2)
  <2>1. \A u \in Q[q] : N.next[u] = L.next[u] /\ N.prev[u] = L.prev[u] /\ r2[u] = r[u]
    BY <1>1 DEF SameLinks, AlikeOutside, Queues
  <2>2. RingOrder(L.next, L.prev, Q[q], L.iter[q], r) BY DEF InOrder
  <2>3. RingOrder(N.next, N.prev, Q[q], L.iter[q], r2) BY <2>1, <2>2, RingFrame
  <2> QED BY <2>3
<1>4. InOrder(N, Q, T, r2) BY <1>3 DEF InOrder
<1>5. ASSUME NEW u \in TCB, Nowhere(u, Q, T) PROVE N.next[u] = NULL /\ N.prev[u] = NULL
  <2>1. CASE u \in X BY <1>5, <2>1 DEF Nowhere
  <2>2. CASE u \notin X
    <3>1. Nowhere(u, Q, S) BY <1>5, <2>2 DEF Nowhere
    <3> QED BY <2>2, <3>1 DEF WellFormed, SameLinks
  <2> QED BY <2>1, <2>2
<1> QED BY <1>2, <1>4, <1>5 DEF WellFormed

\* A pushed task joins the ring of its level.
LEMMA PushWellFormed ==
  ASSUME NEW L, NEW Q, NEW S, WellFormed(L, Q, S),
         NEW p \in Level, NEW t, Nowhere(t, Q, S),
         NEW N, N = _readyQueuePushTask(L, p, t)
  PROVE  WellFormed(N, QueueJoined(Q, p, t), S) /\ N.fault = L.fault
<1> DEFINE i == L.iter[p]
           R == QueueJoined(Q, p, t)
           X == Joined(Q[p], t)
<1>1. PICK r \in Ranks : InOrder(L, Q, S, r) BY DEF WellFormed
<1>2. L \in ListRecord /\ N \in ListRecord /\ t \in TCB
  BY PushType DEF WellFormed, Nowhere
<1>3. /\ Q \in Queues /\ R \in Queues
      /\ X \in SUBSET TCB /\ X \cap S = {} /\ Q[p] \subseteq X
      /\ \A q \in Level : q # p => X \cap Q[q] = {}
      /\ R[p] = X /\ \A q \in Level : q # p => R[q] = Q[q]
  BY DEF WellFormed, Apart, Queues, Nowhere, Joined, QueueJoined
<1>4. t \in X /\ \A u \in X : u = t \/ u \in Q[p] BY DEF Joined
<1> HIDE DEF R, X
<1>5. CASE i = NULL
  <2>1. Q[p] = {} BY <1>1, <1>5 DEF InOrder, RingOrder
  <2>2. N = [L EXCEPT !.iter[p] = t, !.prev[t] = t, !.next[t] = t]
    BY <1>5 DEF _readyQueuePushTask
  <2>3. /\ N.next[t] = t /\ N.prev[t] = t /\ N.iter[p] = t
        /\ \A u \in TCB : u # t => N.next[u] = L.next[u] /\ N.prev[u] = L.prev[u]
        /\ \A q \in Level : q # p => N.iter[q] = L.iter[q]
        /\ N.head = L.head /\ N.tail = L.tail /\ N.fault = L.fault
    BY <1>2, <2>2 DEF ListRecord
  <2>4. RingOrder(N.next, N.prev, {t}, t, r) BY <1>2, <2>3, RingOfOne
  <2>5. X = {t} BY <1>4, <2>1
  <2>6. SameLinks(L, N, X) /\ AlikeOutside(r, r, X)
    BY <2>3, <2>5 DEF SameLinks, AlikeOutside
  <2>7. RingOrder(N.next, N.prev, R[p], N.iter[p], r) BY <1>3, <2>3, <2>4, <2>5
  <2>8. WellFormed(N, R, S) BY <1>1, <1>2, <1>3, <2>3, <2>6, <2>7, OneRingChanged
  <2> QED BY <2>3, <2>8 DEF R
<1>6. CASE i # NULL
  <2>1. RingOrder(L.next, L.prev, Q[p], i, r) /\ Q[p] \in SUBSET TCB
    BY <1>1, <1>3 DEF InOrder, Queues
  <2>2. i \in Q[p] /\ L.prev[i] \in Q[p] BY <1>6, <2>1 DEF RingOrder
  <2>3. /\ i \in TCB /\ L.prev[i] \in TCB /\ L.prev[i] # NULL
        /\ i \in Pointer /\ L.prev[i] \in Pointer /\ i = L.iter[p]
    BY <2>1, <2>2, TasksAreNotNull DEF TCB, Pointer
  <2>4. N = Between(L, L.prev[i], t, i) BY <1>6, <2>3 DEF _readyQueuePushTask
  <2> HIDE DEF i
  <2> DEFINE B == Between(L, L.prev[i], t, i)
  <2>5. Inserted(L.next, L.prev, N.next, N.prev, L.prev[i], t, i)
    <3>1. Inserted(L.next, L.prev, B.next, B.prev, L.prev[i], t, i)
      BY ONLY <1>2, <2>3, BetweenFields
    <3> QED BY ONLY <3>1, <2>4
  <2>6. N.iter = L.iter /\ N.head = L.head /\ N.tail = L.tail /\ N.fault = L.fault
    <3>1. B.iter = L.iter /\ B.head = L.head /\ B.tail = L.tail /\ B.fault = L.fault
      BY ONLY <1>2, <2>3 DEF Between, ListRecord
    <3> QED BY ONLY <3>1, <2>4
  <2>7. t \in TCB \ Q[p] BY <1>2 DEF Nowhere
  <2>8. PICK r2 \in Ranks : /\ AlikeOutside(r, r2, Joined(Q[p], t))
                            /\ RingOrder(N.next, N.prev, Joined(Q[p], t), i, r2)
    <3>1. i \in Q[p] BY <2>2
    <3> QED BY ONLY <2>1, <3>1, <2>5, <2>7, RingPush
  <2>9. SameLinks(L, N, X)
    BY <1>3, <1>4, <2>2, <2>5 DEF Inserted, SameLinks
  <2>10. AlikeOutside(r, r2, X) /\ RingOrder(N.next, N.prev, R[p], N.iter[p], r2)
    BY <1>3, <2>3, <2>6, <2>8 DEF X
  <2>11. WellFormed(N, R, S)
    BY <1>1, <1>2, <1>3, <2>6, <2>9, <2>10, OneRingChanged
  <2> QED BY <2>6, <2>11 DEF R
<1> QED BY <1>5, <1>6

\* A task removed from the ring of its level leaves the rest a ring.
LEMMA ReadyRemoveWellFormed ==
  ASSUME NEW L, NEW Q, NEW S, WellFormed(L, Q, S),
         NEW p \in Level, NEW t \in Q[p],
         NEW N, N = _readyQueueRemoveTask(L, p, t)
  PROVE  WellFormed(N, QueueLeft(Q, p, t), S) /\ N.fault = L.fault
<1> DEFINE W == Without(L, t)
           R == QueueLeft(Q, p, t)
           X == Q[p]
<1>1. PICK r \in Ranks : InOrder(L, Q, S, r) BY DEF WellFormed
<1>2. /\ Q \in Queues /\ R \in Queues
      /\ X \in SUBSET TCB /\ X \cap S = {} /\ Q[p] \subseteq X
      /\ \A q \in Level : q # p => X \cap Q[q] = {}
      /\ R[p] = Left(X, t) /\ \A q \in Level : q # p => R[q] = Q[q]
  BY DEF WellFormed, Apart, Queues, Left, QueueLeft
<1>3. /\ t \in X /\ t \in TCB /\ R[p] \subseteq X
      /\ \A u \in X : u \notin R[p] <=> u = t
  BY <1>2 DEF Left
<1>4. L \in ListRecord /\ N \in ListRecord /\ W \in ListRecord
  BY <1>3, ReadyRemoveType, WithoutFields DEF WellFormed
<1>5. TakenOut(L.next, L.prev, W.next, W.prev, t) BY <1>3, <1>4, WithoutFields
<1>6. /\ W.iter = L.iter /\ W.head = L.head /\ W.tail = L.tail /\ W.fault = L.fault
  BY <1>3, <1>4, WithoutFields
<1>7. RingOrder(L.next, L.prev, X, L.iter[p], r) BY <1>1 DEF InOrder
<1>8. /\ L.next[t] \in X /\ L.prev[t] \in X /\ L.prev[L.next[t]] = t
      /\ L.next[t] # NULL /\ L.prev[t] # NULL
  <2>1. NULL \notin X BY <1>2, TasksAreNotNull DEF TCB
  <2> HIDE DEF X
  <2> QED BY <2>1, <1>3, <1>7 DEF RingOrder
<1>9. SameLinks(L, W, X)
  BY <1>3, <1>5, <1>8 DEF TakenOut, SameLinks
<1>10. W.next[t] = NULL /\ W.prev[t] = NULL BY <1>3, <1>5 DEF TakenOut
<1> HIDE DEF R, X, W
<1>11. ASSUME NEW i, N = [W EXCEPT !.iter[p] = i]
       PROVE  /\ N.next = W.next /\ N.prev = W.prev
              /\ N.head = L.head /\ N.tail = L.tail /\ N.fault = L.fault
              /\ N.iter[p] = i /\ \A q \in Level : q # p => N.iter[q] = L.iter[q]
  BY <1>4, <1>6, <1>11 DEF ListRecord

\* The rest follows once the ring without t is known to be one.
<1>12. ASSUME NEW i, N = [W EXCEPT !.iter[p] = i],
              NEW r2 \in Ranks, AlikeOutside(r, r2, X),
              RingOrder(W.next, W.prev, R[p], i, r2)
       PROVE  WellFormed(N, R, S)
  <2>1. RingOrder(N.next, N.prev, R[p], N.iter[p], r2) BY <1>11, <1>12
  <2>2. SameLinks(L, N, X) BY <1>9, <1>11, <1>12 DEF SameLinks
  <2>3. \A u \in X : u \notin R[p] => N.next[u] = NULL /\ N.prev[u] = NULL
    BY <1>3, <1>10, <1>11, <1>12
  <2>4. /\ N.head = L.head /\ N.tail = L.tail
        /\ \A q \in Level : q # p => N.iter[q] = L.iter[q]
    BY <1>11, <1>12
  <2>5. AlikeOutside(r, r2, X) BY <1>12
  <2> QED BY <1>1, <1>2, <1>3, <1>4, <2>1, <2>2, <2>3, <2>4, <2>5, OneRingChanged
<1>13. CASE L.next[t] = t
  <2>1. N = [W EXCEPT !.iter[p] = NULL] BY <1>13 DEF _readyQueueRemoveTask, W
  <2>2. X = {t} BY <1>2, <1>3, <1>7, <1>13, RingAlone
  <2>3. R[p] = {} BY <1>3, <2>2
  <2>4. RingOrder(W.next, W.prev, R[p], NULL, r) BY <2>3 DEF RingOrder
  <2>5. AlikeOutside(r, r, X) BY DEF AlikeOutside
  <2>6. WellFormed(N, R, S) BY <1>12, <2>1, <2>4, <2>5
  <2> QED BY <1>11, <2>1, <2>6 DEF R
<1>14. CASE L.next[t] # t
  <2>1. N = [W EXCEPT !.iter[p] = L.next[t]]
    BY <1>8, <1>14 DEF _readyQueueRemoveTask, W
  <2>2. PICK r2 \in Ranks : /\ AlikeOutside(r, r2, X)
                            /\ RingOrder(W.next, W.prev, Left(X, t), L.next[t], r2)
    BY ONLY <1>2, <1>3, <1>5, <1>7, <1>14, RingRemove
  <2>3. WellFormed(N, R, S) BY <1>2, <1>12, <2>1, <2>2
  <2> QED BY <1>11, <2>1, <2>3 DEF R
<1> QED BY <1>13, <1>14

\* The iterator of a level with ready tasks is one of them, and moving it on
\* keeps the ring.
LEMMA IterateWellFormed ==
  ASSUME NEW L, NEW Q, NEW S, WellFormed(L, Q, S), NEW p \in Level,
         L.iter[p] # NULL, NEW N, N = _readyQueueIterateForwards(L, p)
  PROVE  WellFormed(N, Q, S) /\ N.fault = L.fault
<1> DEFINE i == L.iter[p]
           X == Q[p]
<1>1. PICK r \in Ranks : InOrder(L, Q, S, r) BY DEF WellFormed
<1>2. /\ Q \in Queues
      /\ X \in SUBSET TCB /\ X \cap S = {}
      /\ \A q \in Level : q # p => X \cap Q[q] = {}
  BY DEF WellFormed, Apart, Queues
<1>3. L \in ListRecord /\ N \in ListRecord BY IterateType DEF WellFormed
<1>4. /\ N.next = L.next /\ N.prev = L.prev
      /\ N.head = L.head /\ N.tail = L.tail /\ N.fault = L.fault
      /\ N.iter[p] = L.next[i] /\ \A q \in Level : q # p => N.iter[q] = L.iter[q]
  BY <1>3 DEF ListRecord, _readyQueueIterateForwards
<1>5. RingOrder(L.next, L.prev, X, i, r) BY <1>1 DEF InOrder
<1>6. i \in X BY <1>5 DEF RingOrder
<1>7. PICK r2 \in Ranks : /\ AlikeOutside(r, r2, X)
                          /\ RingOrder(L.next, L.prev, X, L.next[i], r2)
  BY ONLY <1>2, <1>5, <1>6, RingIterate
<1>8. RingOrder(N.next, N.prev, X, N.iter[p], r2) BY <1>4, <1>7
<1>9. SameLinks(L, N, X) BY <1>4 DEF SameLinks
<1>10. WellFormed(N, Q, S)
  BY <1>1, <1>2, <1>3, <1>4, <1>7, <1>8, <1>9, OneRingChanged
<1> QED BY <1>4, <1>10

\* A task linked nowhere can join the delayed list.
LEMMA ListAddWellFormed ==
  ASSUME NEW L, NEW Q, NEW S, WellFormed(L, Q, S), NEW t, Nowhere(t, Q, S),
         NEW N, N = _listAddTask(L, t)
  PROVE  WellFormed(N, Q, Joined(S, t)) /\ N.fault = L.fault
<1> DEFINE B == Between(L, L.tail, t, NULL)
           X == Joined(S, t)
<1>1. PICK r \in Ranks : InOrder(L, Q, S, r) BY DEF WellFormed
<1>2. L \in ListRecord /\ N \in ListRecord /\ t \in TCB
  BY ListAddType DEF WellFormed, Nowhere
<1>3. /\ S \in SUBSET TCB /\ X \in SUBSET TCB /\ S \subseteq X
      /\ \A q \in Level : X \cap Q[q] = {}
      /\ t \in X /\ t \in TCB \ S
  BY DEF WellFormed, Apart, Nowhere, Joined
<1>4. L.tail \in Pointer /\ NULL \in Pointer BY <1>2 DEF ListRecord, Pointer
<1>5. B \in ListRecord /\ B.head = L.head BY <1>2, <1>4, BetweenFields
<1>6. Inserted(L.next, L.prev, B.next, B.prev, L.tail, t, NULL)
  BY <1>2, <1>4, BetweenFields
<1>7. B.iter = L.iter /\ B.fault = L.fault BY <1>2, <1>4, BetweenFields
<1> HIDE DEF B, X
<1>8. N = [B EXCEPT !.tail = t, !.head = IF @ = NULL THEN t ELSE @]
  BY DEF _listAddTask, B
<1>9. /\ N.next = B.next /\ N.prev = B.prev /\ N.tail = t
      /\ N.head = (IF L.head = NULL THEN t ELSE L.head)
      /\ N.iter = L.iter /\ N.fault = L.fault
  BY <1>5, <1>7, <1>8 DEF ListRecord
<1>10. ListOrder(L.next, L.prev, S, L.head, L.tail, r) BY <1>1 DEF InOrder
<1>11. Inserted(L.next, L.prev, N.next, N.prev, L.tail, t, NULL) BY <1>6, <1>9
<1>12. N.head = (IF L.head = NULL THEN t ELSE L.head) BY <1>9
<1>13. PICK r2 \in Ranks : /\ AlikeOutside(r, r2, Joined(S, t))
                           /\ ListOrder(N.next, N.prev, Joined(S, t), N.head, t, r2)
  BY ONLY <1>3, <1>10, <1>11, <1>12, ListAdd
<1>14. SameLinks(L, N, X)
  <2>1. L.tail \in S \cup {NULL} BY <1>10 DEF ListOrder
  <2>2. NULL \notin TCB BY TasksAreNotNull DEF TCB
  <2> QED BY <1>3, <1>11, <2>1, <2>2 DEF SameLinks, Inserted
<1>15. AlikeOutside(r, r2, X) /\ ListOrder(N.next, N.prev, X, N.head, N.tail, r2)
  BY <1>9, <1>13 DEF X
<1>16. WellFormed(N, Q, X)
  BY <1>1, <1>2, <1>3, <1>9, <1>14, <1>15, ListChanged
<1> QED BY <1>9, <1>16 DEF X

\* A task taken out of the delayed list leaves the rest a list.
LEMMA ListRemoveWellFormed ==
  ASSUME NEW L, NEW Q, NEW S, WellFormed(L, Q, S), NEW t \in S,
         NEW N, N = _listRemoveTask(L, t)
  PROVE  WellFormed(N, Q, Left(S, t)) /\ N.fault = L.fault
<1> DEFINE W == Without(L, t)
<1>1. PICK r \in Ranks : InOrder(L, Q, S, r) BY DEF WellFormed
<1>2. /\ S \in SUBSET TCB /\ t \in TCB
      /\ \A q \in Level : S \cap Q[q] = {}
  BY DEF WellFormed, Apart
<1>3. L \in ListRecord /\ N \in ListRecord /\ W \in ListRecord
  BY <1>2, ListRemoveType, WithoutFields DEF WellFormed
<1>4. TakenOut(L.next, L.prev, W.next, W.prev, t) BY <1>2, <1>3, WithoutFields
<1>5. W.iter = L.iter /\ W.head = L.head /\ W.tail = L.tail /\ W.fault = L.fault
  BY <1>2, <1>3, WithoutFields
<1> HIDE DEF W
<1>6. N = [W EXCEPT !.head = IF @ = t THEN L.next[t] ELSE @,
                    !.tail = IF @ = t THEN L.prev[t] ELSE @]
  BY DEF _listRemoveTask, W
<1>7. /\ N.next = W.next /\ N.prev = W.prev
      /\ N.head = (IF L.head = t THEN L.next[t] ELSE L.head)
      /\ N.tail = (IF L.tail = t THEN L.prev[t] ELSE L.tail)
      /\ N.iter = L.iter /\ N.fault = L.fault
  BY <1>3, <1>5, <1>6 DEF ListRecord
<1>8. ListOrder(L.next, L.prev, S, L.head, L.tail, r) BY <1>1 DEF InOrder
<1>9. TakenOut(L.next, L.prev, N.next, N.prev, t) BY <1>4, <1>7
<1>10. EndsWithout(L.next, L.prev, L.head, L.tail, t, N.head, N.tail)
  BY <1>7 DEF EndsWithout
<1>11. ListOrder(N.next, N.prev, Left(S, t), N.head, N.tail, r)
  BY ONLY <1>2, <1>8, <1>9, <1>10, ListRemove
<1>12. SameLinks(L, N, S)
  <2>1. L.next[t] \in S \cup {NULL} /\ L.prev[t] \in S \cup {NULL} BY <1>8 DEF ListOrder
  <2>2. NULL \notin TCB BY TasksAreNotNull DEF TCB
  <2> QED BY <1>9, <2>1, <2>2 DEF SameLinks, TakenOut
<1>13. Left(S, t) \subseteq S /\ \A u \in S : u \notin Left(S, t) => u = t BY DEF Left
<1>14. N.next[t] = NULL /\ N.prev[t] = NULL BY <1>2, <1>9 DEF TakenOut
<1>15. AlikeOutside(r, r, S) BY DEF AlikeOutside
<1>16. WellFormed(N, Q, Left(S, t))
  BY <1>1, <1>2, <1>3, <1>7, <1>11, <1>12, <1>13, <1>14, <1>15, ListChanged
<1> QED BY <1>7, <1>16

\* A fault leaves the links as they were.
LEMMA FaultWellFormed ==
  ASSUME NEW L, NEW Q, NEW S, WellFormed(L, Q, S)
  PROVE  WellFormed(Faulted(L), Q, S)
BY FaultedFields DEF WellFormed, InOrder

\* Taking a task that is linked nowhere off the delayed list changes nothing.
LEMMA RemoveUnlinked ==
  ASSUME NEW L \in ListRecord, NEW t \in TCB, L.next[t] = NULL, L.prev[t] = NULL,
         t \notin {L.head, L.tail}
  PROVE  _listRemoveTask(L, t) = L
<1> DEFINE W == Without(L, t)
<1>1. NULL \notin TCB BY TasksAreNotNull DEF TCB
<1>2. W.next = L.next /\ W.prev = L.prev
  BY <1>1 DEF Without, ListRecord
<1>3. W = L BY <1>2 DEF Without, ListRecord
<1> HIDE DEF W
<1> QED BY <1>3 DEF _listRemoveTask, ListRecord, W

\* What the neighbours of a ready task are, and what the iterator is.
LEMMA InRing ==
  ASSUME NEW L, NEW Q, NEW S, WellFormed(L, Q, S), NEW p \in Level
  PROVE  /\ L.iter[p] = NULL <=> Q[p] = {}
         /\ L.iter[p] \in Q[p] \cup {NULL}
         /\ \A t \in Q[p] : /\ t \in TCB /\ t \notin S
                            /\ L.next[t] \in Q[p] /\ L.prev[t] \in Q[p]
                            /\ L.prev[L.next[t]] = t /\ L.next[L.prev[t]] = t
<1>1. PICK r \in Ranks : InOrder(L, Q, S, r) BY DEF WellFormed
<1>2. RingOrder(L.next, L.prev, Q[p], L.iter[p], r) BY <1>1 DEF InOrder
<1>3. \A t \in Q[p] : t \in TCB /\ t \notin S BY DEF WellFormed, Apart, Queues
<1> QED BY <1>2, <1>3 DEF RingOrder

\* What the neighbours of a delayed task are, and what head and tail are.
LEMMA InList ==
  ASSUME NEW L, NEW Q, NEW S, WellFormed(L, Q, S)
  PROVE  /\ L.head \in S \cup {NULL} /\ L.tail \in S \cup {NULL}
         /\ L.head = NULL <=> S = {}
         /\ L.tail = NULL <=> S = {}
         /\ \A t \in S : /\ t \in TCB /\ \A p \in Level : t \notin Q[p]
                         /\ L.prev[t] = NULL <=> t = L.head
                         /\ L.next[t] = NULL <=> t = L.tail
                         /\ L.prev[t] # NULL => L.prev[t] \in S /\ L.next[L.prev[t]] = t
                         /\ L.next[t] # NULL => L.next[t] \in S /\ L.prev[L.next[t]] = t
                         /\ L.next[t] # t
<1>1. PICK r \in Ranks : InOrder(L, Q, S, r) BY DEF WellFormed
<1>2. ListOrder(L.next, L.prev, S, L.head, L.tail, r) BY <1>1 DEF InOrder
<1>3. \A t \in S : t \in TCB /\ \A p \in Level : t \notin Q[p]
  BY DEF WellFormed, Apart, Queues
<1>4. \A t \in S : r[t] \in Nat BY <1>3 DEF Ranks
<1>5. \A t \in S : L.next[t] # NULL => r[t] < r[L.next[t]] BY <1>2 DEF ListOrder
<1>6. NULL \notin S BY <1>3, TasksAreNotNull DEF TCB
<1>7. \A t \in S : L.next[t] # t BY <1>4, <1>5, <1>6
<1> QED BY <1>2, <1>3, <1>7 DEF ListOrder

----------------------------------------------------------------------------
(* The recursive function is what its definition says.                     *)

Chains == Seq(TCB) \ {<<>>}

\* Where the walk from t stops.
Stops(L, t, s) == L.next[s[Len(s)]] \in {NULL, t} \/ Len(s) = Cardinality(TCB)

\* f is the function from of Walk.
Solves(L, t, f) ==
  f = [s \in Chains |-> IF Stops(L, t, s) THEN s ELSE f[Append(s, L.next[s[Len(s)]])]]

From(L, t) == CHOOSE f : Solves(L, t, f)

LEMMA WalkIsFrom ==
  ASSUME NEW L, NEW t, t # NULL
  PROVE  Walk(L, t) = From(L, t)[<<t>>]
BY DEF Walk, From, Solves, Stops, Chains

\* e continues s along next to where it stops.
Completes(L, t, s, e) ==
  /\ e \in Chains /\ Len(s) <= Len(e)
  /\ \A i \in 1 .. Len(s) : e[i] = s[i]
  /\ \A i \in Len(s) .. Len(e) - 1 :
       /\ ~(L.next[e[i]] \in {NULL, t} \/ i = Cardinality(TCB))
       /\ e[i + 1] = L.next[e[i]]
  /\ Stops(L, t, e)

Completed(L, t) ==
  [s \in Chains |-> IF \E e : Completes(L, t, s, e) THEN CHOOSE e : Completes(L, t, s, e)
                    ELSE <<>>]

\* A chain that stops is complete, and only it completes it.
LEMMA StoppedIsComplete ==
  ASSUME NEW L, NEW t, NEW s \in Chains, Stops(L, t, s), NEW e
  PROVE  Completes(L, t, s, e) <=> e = s
<1>1. Len(s) \in Nat /\ s \in Seq(TCB) BY DEF Chains
<1>2. Completes(L, t, s, s) BY <1>1 DEF Completes
<1>3. ASSUME Completes(L, t, s, e) PROVE e = s
  <2>1. e \in Seq(TCB) /\ Len(e) \in Nat /\ Len(s) <= Len(e)
    BY <1>3 DEF Completes, Chains
  <2>2. Len(e) = Len(s)
    <3> SUFFICES ASSUME Len(s) < Len(e) PROVE FALSE BY <1>1, <2>1
    <3>1. Len(s) \in 1 .. Len(s) /\ Len(s) \in Len(s) .. Len(e) - 1
      BY <1>1, <2>1 DEF Chains
    <3>2. e[Len(s)] = s[Len(s)] BY <1>3, <3>1 DEF Completes
    <3>3. ~(L.next[e[Len(s)]] \in {NULL, t} \/ Len(s) = Cardinality(TCB))
      BY <1>3, <3>1 DEF Completes
    <3> QED BY <3>2, <3>3 DEF Stops
  <2> QED BY <1>1, <1>3, <2>1, <2>2 DEF Completes
<1> QED BY <1>2, <1>3

\* Any other one is completed as it is with its next task.
LEMMA NextIsAsComplete ==
  ASSUME NEW L \in ListRecord, NEW t, NEW s \in Chains, ~Stops(L, t, s), NEW e
  PROVE  /\ Append(s, L.next[s[Len(s)]]) \in Chains
         /\ Completes(L, t, s, e) <=> Completes(L, t, Append(s, L.next[s[Len(s)]]), e)
<1> DEFINE n == Len(s)
           nx == L.next[s[n]]
           a == Append(s, nx)
<1>1. s \in Seq(TCB) /\ n \in Nat /\ n >= 1 /\ s[n] \in TCB BY DEF Chains
<1>2. nx \in TCB /\ nx \notin {NULL, t} /\ n # Cardinality(TCB)
  BY <1>1 DEF Stops, ListRecord, Pointer
<1>3. /\ a \in Seq(TCB) /\ Len(a) = n + 1 /\ a # <<>>
      /\ \A i \in 1 .. n : a[i] = s[i]
      /\ a[n + 1] = nx
  BY <1>1, <1>2
<1>4. a \in Chains BY <1>3 DEF Chains
<1> HIDE DEF a
<1>5. ASSUME Completes(L, t, s, e) PROVE Completes(L, t, a, e)
  <2>1. e \in Seq(TCB) /\ Len(e) \in Nat /\ n <= Len(e)
    BY <1>5 DEF Completes, Chains
  <2>2. e[n] = s[n] BY <1>1, <1>5 DEF Completes
  <2>3. n # Len(e) BY <1>2, <1>5, <2>2 DEF Completes, Stops
  <2>4. e[n + 1] = nx BY <1>1, <1>5, <2>1, <2>2, <2>3 DEF Completes
  <2>5. \A i \in 1 .. n + 1 : e[i] = a[i] BY <1>1, <1>3, <1>5, <2>4 DEF Completes
  <2>6. ASSUME NEW i \in n + 1 .. Len(e) - 1
        PROVE  /\ ~(L.next[e[i]] \in {NULL, t} \/ i = Cardinality(TCB))
               /\ e[i + 1] = L.next[e[i]]
    <3>1. i \in n .. Len(e) - 1 BY <1>1, <2>1
    <3> QED BY <1>5, <3>1 DEF Completes
  <2>7. n + 1 <= Len(e) BY <1>1, <2>1, <2>3
  <2>8. e \in Chains /\ Stops(L, t, e) BY <1>5 DEF Completes
  <2> QED BY <1>3, <2>5, <2>6, <2>7, <2>8 DEF Completes
<1>6. ASSUME Completes(L, t, a, e) PROVE Completes(L, t, s, e)
  <2>1. e \in Seq(TCB) /\ Len(e) \in Nat /\ n + 1 <= Len(e)
    BY <1>3, <1>6 DEF Completes, Chains
  <2>2. \A i \in 1 .. n : i \in 1 .. n + 1 BY <1>1
  <2>3. \A i \in 1 .. n : e[i] = s[i] BY <1>3, <1>6, <2>2 DEF Completes
  <2>4. e[n + 1] = nx /\ e[n] = s[n] BY <1>1, <1>3, <1>6, <2>3 DEF Completes
  <2>5. ASSUME NEW i \in n .. Len(e) - 1
        PROVE  /\ ~(L.next[e[i]] \in {NULL, t} \/ i = Cardinality(TCB))
               /\ e[i + 1] = L.next[e[i]]
    <3>1. CASE i = n BY <1>2, <2>4, <3>1
    <3>2. CASE i # n
      <4>1. i \in n + 1 .. Len(e) - 1 BY <1>1, <2>1, <3>2
      <4> QED BY <1>3, <1>6, <4>1 DEF Completes
    <3> QED BY <3>1, <3>2
  <2> QED BY <1>1, <1>3, <1>6, <2>1, <2>3, <2>5 DEF Completes
<1> QED BY <1>4, <1>5, <1>6 DEF a

\* Hence the equation has a solution.
LEMMA CompletedSolves ==
  ASSUME NEW L \in ListRecord, NEW t
  PROVE  Solves(L, t, Completed(L, t))
<1> DEFINE f == Completed(L, t)
<1>1. ASSUME NEW s \in Chains
      PROVE  f[s] = IF Stops(L, t, s) THEN s ELSE f[Append(s, L.next[s[Len(s)]])]
  <2>1. CASE Stops(L, t, s)
    <3>1. \A e : Completes(L, t, s, e) <=> e = s BY <2>1, StoppedIsComplete
    <3>2. (CHOOSE e : Completes(L, t, s, e)) = s BY <3>1
    <3> QED BY <2>1, <3>1, <3>2 DEF Completed
  <2>2. CASE ~Stops(L, t, s)
    <3> DEFINE a == Append(s, L.next[s[Len(s)]])
    <3>1. a \in Chains /\ \A e : Completes(L, t, s, e) <=> Completes(L, t, a, e)
      BY <2>2, NextIsAsComplete
    <3> HIDE DEF a
    <3>2. (CHOOSE e : Completes(L, t, s, e)) = (CHOOSE e : Completes(L, t, a, e))
      BY <3>1
    <3>3. f[s] = f[a] BY <3>1, <3>2 DEF Completed
    <3> QED BY <2>2, <3>3 DEF a
  <2> QED BY <2>1, <2>2
<1>2. f = [s \in Chains |-> f[s]] BY DEF Completed
<1> HIDE DEF f
<1>3. Solves(L, t, f) BY <1>1, <1>2 DEF Solves
<1> QED BY <1>3 DEF f

LEMMA FromEquation ==
  ASSUME NEW L \in ListRecord, NEW t, NEW s \in Chains
  PROVE  From(L, t)[s] = IF Stops(L, t, s) THEN s
                         ELSE From(L, t)[Append(s, L.next[s[Len(s)]])]
<1>1. Solves(L, t, From(L, t)) BY CompletedSolves DEF From
<1> HIDE DEF From
<1> QED BY <1>1 DEF Solves

----------------------------------------------------------------------------
(* Paths.                                                                  *)

\* e follows nx from t, and does not come back to t.
IsPath(nx, t, e) ==
  /\ e \in Chains /\ e[1] = t
  /\ \A i \in 1 .. Len(e) - 1 : e[i + 1] = nx[e[i]] /\ e[i + 1] # t

\* It cannot go on.
Ends(nx, t, e) == nx[e[Len(e)]] \in {NULL, t}

\* A path that ends, and is not too long, is what Walk returns.
LEMMA WalkIs ==
  ASSUME NEW L \in ListRecord, NEW t \in TCB, NEW e,
         IsPath(L.next, t, e), Ends(L.next, t, e), Len(e) <= Cardinality(TCB),
         Cardinality(TCB) \in Nat
  PROVE  Walk(L, t) = e
<1> DEFINE n == Len(e)
           First(k) == [i \in 1 .. k |-> e[i]]
           N == {m \in 0 .. n - 1 : From(L, t)[First(n - m)] # e}
<1>1. e \in Seq(TCB) /\ n \in Nat /\ n >= 1 /\ \A i \in 1 .. n : e[i] \in TCB
  BY DEF IsPath, Chains
<1>2. ASSUME NEW k \in 1 .. n
      PROVE  First(k) \in Chains /\ Len(First(k)) = k /\ First(k)[k] = e[k]
  <2>1. k \in Nat /\ k >= 1 /\ \A i \in 1 .. k : e[i] \in TCB BY <1>1
  <2>2. First(k) \in Seq(TCB) /\ Len(First(k)) = k BY <2>1
  <2> QED BY <2>1, <2>2 DEF Chains
<1>3. First(n) = e BY <1>1
<1>4. ASSUME NEW k \in 1 .. n - 1
      PROVE  /\ ~Stops(L, t, First(k))
             /\ Append(First(k), L.next[First(k)[k]]) = First(k + 1)
  <2>1. k \in 1 .. n /\ k + 1 \in 1 .. n BY <1>1
  <2>2. e[k + 1] = L.next[e[k]] /\ e[k + 1] # t /\ e[k + 1] \in TCB
    BY <1>1, <2>1 DEF IsPath
  <2>3. e[k + 1] # NULL BY <2>2, TasksAreNotNull DEF TCB
  <2>4. First(k)[k] = e[k] /\ Len(First(k)) = k /\ k # Cardinality(TCB)
    BY <1>1, <1>2, <2>1
  <2>5. ~Stops(L, t, First(k)) BY <2>2, <2>3, <2>4 DEF Stops
  <2>6. Append(First(k), e[k + 1]) = First(k + 1)
    <3>1. k \in Nat /\ k >= 1 /\ \A i \in 1 .. k + 1 : e[i] \in TCB BY <1>1, <2>1
    <3> QED BY <3>1
  <2> QED BY <2>2, <2>4, <2>5, <2>6
<1>5. From(L, t)[First(n)] = e
  <2>1. Stops(L, t, e) /\ e \in Chains BY DEF Stops, Ends, IsPath
  <2> QED BY <1>3, <2>1, FromEquation
<1>6. N = {}
  <2> SUFFICES ASSUME N # {} PROVE FALSE OBVIOUS
  <2>1. N \in SUBSET Nat BY <1>1
  <2>2. PICK m \in N : \A j \in N : m <= j BY <2>1, LeastNumber
  <2>3. m \in 1 .. n - 1 /\ n - m \in 1 .. n - 1 /\ n - (m - 1) = (n - m) + 1
    <3>1. m \in 0 .. n - 1 OBVIOUS
    <3>2. m # 0 BY <1>1, <1>5
    <3> QED BY <1>1, <3>1, <3>2
  <2>4. m - 1 \notin N
    <3> HIDE DEF N
    <3>1. m \in Nat /\ ~(m <= m - 1) BY <1>1, <2>3
    <3> QED BY <2>2, <3>1, Zenon
  <2>5. From(L, t)[First((n - m) + 1)] = e
    <3>1. m - 1 \in 0 .. n - 1 BY <1>1, <2>3
    <3> HIDE DEF First
    <3>2. From(L, t)[First(n - (m - 1))] = e BY <2>4, <3>1
    <3> QED BY <2>3, <3>2
  <2>6. PICK k \in 1 .. n - 1 : k = n - m BY <2>3
  <2>7. From(L, t)[First(k)] = From(L, t)[First(k + 1)]
    <3>1. k \in 1 .. n BY <1>1
    <3>2. PICK F : F = First(k) OBVIOUS
    <3> HIDE DEF First
    <3>3. F \in Chains /\ Len(F) = k /\ ~Stops(L, t, F) BY <1>2, <1>4, <3>1, <3>2
    <3>4. From(L, t)[F] = From(L, t)[Append(F, L.next[F[k]])] BY <3>3, FromEquation
    <3>5. Append(F, L.next[F[k]]) = First(k + 1) BY <1>4, <3>2
    <3> QED BY <3>2, <3>4, <3>5
  <2> QED BY <2>2, <2>5, <2>6, <2>7
<1>7. From(L, t)[First(1)] = e
  <2>1. n - 1 \in 0 .. n - 1 /\ n - (n - 1) = 1 BY <1>1
  <2> HIDE DEF First
  <2> QED BY <1>6, <2>1
<1>8. First(1) = <<t>> BY <1>1 DEF IsPath
<1>9. t # NULL BY TasksAreNotNull DEF TCB
<1> QED BY <1>7, <1>8, <1>9, WalkIsFrom

\* nx does not lead out of M, and pv undoes it.
Closed(nx, pv, M) ==
  /\ M \in SUBSET TCB
  /\ \A u \in M : nx[u] # NULL => nx[u] \in M /\ pv[nx[u]] = u

\* A path that starts in M stays there.
LEMMA PathStays ==
  ASSUME NEW nx, NEW pv, NEW M, Closed(nx, pv, M), NEW t \in M, NEW e, IsPath(nx, t, e)
  PROVE  \A i \in 1 .. Len(e) : e[i] \in M
<1> DEFINE N == {i \in 1 .. Len(e) : e[i] \notin M}
<1>1. e \in Seq(TCB) /\ Len(e) \in Nat /\ NULL \notin TCB
  BY TasksAreNotNull DEF IsPath, Chains, TCB
<1> SUFFICES ASSUME N # {} PROVE FALSE OBVIOUS
<1>2. N \in SUBSET Nat BY <1>1
<1>3. PICK i \in N : \A j \in N : i <= j BY <1>2, LeastNumber
<1>4. i \in 1 .. Len(e) /\ e[i] \notin M OBVIOUS
<1>5. i # 1 BY <1>4 DEF IsPath
<1>6. i - 1 \in 1 .. Len(e) - 1 /\ i - 1 \in 1 .. Len(e) /\ (i - 1) + 1 = i
  BY <1>1, <1>4, <1>5
<1>7. e[i] = nx[e[i - 1]] /\ e[i] \in TCB BY <1>1, <1>4, <1>6 DEF IsPath
<1>8. e[i - 1] \notin M BY <1>1, <1>4, <1>7 DEF Closed
<1>9. i - 1 \in N BY <1>6, <1>8
<1> HIDE DEF N
<1> QED BY <1>1, <1>3, <1>4, <1>9

\* It meets nobody twice.
LEMMA PathOnce ==
  ASSUME NEW nx, NEW pv, NEW M, Closed(nx, pv, M), NEW t \in M, NEW e, IsPath(nx, t, e)
  PROVE  \A i, j \in 1 .. Len(e) : e[i] = e[j] => i = j
<1> DEFINE N == {i \in 1 .. Len(e) : \E j \in 1 .. Len(e) : i < j /\ e[i] = e[j]}
<1>1. e \in Seq(TCB) /\ Len(e) \in Nat /\ NULL \notin TCB
  BY TasksAreNotNull DEF IsPath, Chains, TCB
<1>2. \A i \in 1 .. Len(e) : e[i] \in M BY PathStays
<1>3. ASSUME N # {} PROVE FALSE
  <2>1. N \in SUBSET Nat BY <1>1
  <2>2. PICK i \in N : \A k \in N : i <= k BY <1>3, <2>1, LeastNumber
  <2>3. PICK j \in 1 .. Len(e) : i < j /\ e[i] = e[j] BY <2>2
  <2>4. /\ i \in 1 .. Len(e) /\ j - 1 \in 1 .. Len(e) - 1 /\ j - 1 \in 1 .. Len(e)
        /\ (j - 1) + 1 = j
    BY <1>1, <2>3
  <2>5. e[j] = nx[e[j - 1]] /\ e[j] # t /\ e[j] \in M BY <1>2, <2>4 DEF IsPath
  <2>6. i # 1 BY <2>3, <2>5 DEF IsPath
  <2>7. i - 1 \in 1 .. Len(e) - 1 /\ i - 1 \in 1 .. Len(e) /\ (i - 1) + 1 = i
    BY <1>1, <2>4, <2>6
  <2>8. e[i] = nx[e[i - 1]] BY <2>7 DEF IsPath
  <2>9. e[i - 1] = e[j - 1]
    <3>1. e[j] # NULL BY <1>1, <2>5 DEF Closed
    <3>2. pv[e[i]] = e[i - 1] /\ pv[e[j]] = e[j - 1]
      BY <1>2, <2>3, <2>4, <2>5, <2>7, <2>8, <3>1 DEF Closed
    <3> QED BY <2>3, <3>2
  <2>10. i - 1 < j - 1 /\ ~(i <= i - 1) BY <1>1, <2>3, <2>4
  <2>11. i - 1 \in N BY <2>4, <2>7, <2>9, <2>10
  <2> HIDE DEF N
  <2> QED BY <2>2, <2>10, <2>11
<1>4. ASSUME NEW i \in 1 .. Len(e), NEW j \in 1 .. Len(e), e[i] = e[j], i # j PROVE FALSE
  <2>1. i < j \/ j < i BY <1>1, <1>4
  <2> QED BY <1>3, <1>4, <2>1
<1> QED BY <1>4

LEMMA TCBIsFinite == IsFiniteSet(TCB) /\ Cardinality(TCB) \in Nat
BY TasksAreFinite, FS_AddElement, FS_CardinalityType DEF TCB

\* So it is no longer than there are tasks.
LEMMA PathShort ==
  ASSUME NEW nx, NEW pv, NEW M, Closed(nx, pv, M), NEW t \in M, NEW e, IsPath(nx, t, e)
  PROVE  Len(e) <= Cardinality(TCB)
<1>1. e \in Seq(TCB) /\ Len(e) \in Nat /\ e \in [1 .. Len(e) -> TCB] BY DEF IsPath, Chains
<1>2. e \in Injection(1 .. Len(e), TCB)
  BY <1>1, PathOnce, Zenon DEF Injection, IsInjective
<1>3. Cardinality(1 .. Len(e)) <= Cardinality(TCB) BY <1>2, TCBIsFinite, FS_Injection
<1>4. Cardinality(1 .. Len(e)) = Len(e) BY <1>1, FS_Interval
<1> QED BY <1>3, <1>4

\* The longest path ends.
LEMMA PathExists ==
  ASSUME NEW nx, NEW pv, NEW M, Closed(nx, pv, M), NEW t \in M
  PROVE  \E e : IsPath(nx, t, e) /\ Ends(nx, t, e)
<1> DEFINE N == {k \in Nat : \E e : IsPath(nx, t, e) /\ Cardinality(TCB) = Len(e) + k}
<1>1. IsPath(nx, t, <<t>>)
  BY DEF IsPath, Chains, Closed
<1>2. ASSUME NEW e, IsPath(nx, t, e)
      PROVE  /\ e \in Seq(TCB) /\ Len(e) \in Nat /\ Len(e) >= 1
             /\ Cardinality(TCB) - Len(e) \in N
  <2>1. e \in Seq(TCB) /\ Len(e) \in Nat /\ Len(e) >= 1 BY <1>2 DEF IsPath, Chains
  <2>2. Cardinality(TCB) - Len(e) \in Nat BY <1>2, <2>1, PathShort, TCBIsFinite
  <2>3. Cardinality(TCB) = Len(e) + (Cardinality(TCB) - Len(e)) BY <2>1, TCBIsFinite
  <2> QED BY <1>2, <2>1, <2>2, <2>3
<1>3. N # {} /\ N \in SUBSET Nat BY <1>1, <1>2
<1>4. PICK k \in N : \A j \in N : k <= j BY <1>3, LeastNumber
<1>5. PICK e : IsPath(nx, t, e) /\ Cardinality(TCB) = Len(e) + k OBVIOUS
<1>6. k \in Nat OBVIOUS
<1> HIDE DEF N
<1>7. ASSUME ~Ends(nx, t, e) PROVE FALSE
  <2> DEFINE n == Len(e)
             x == nx[e[n]]
             a == Append(e, x)
  <2>1. e \in Seq(TCB) /\ n \in Nat /\ n >= 1 BY <1>2, <1>5
  <2>2. e[n] \in M BY <1>5, <2>1, PathStays
  <2>3. x \in TCB /\ x # t BY <1>7, <2>2 DEF Ends, Closed
  <2>4. /\ a \in Seq(TCB) /\ Len(a) = n + 1 /\ a[n + 1] = x /\ a # <<>>
        /\ \A i \in 1 .. n : a[i] = e[i]
    BY <2>1, <2>3
  <2> HIDE DEF a
  <2>5. ASSUME NEW i \in 1 .. n PROVE a[i + 1] = nx[a[i]] /\ a[i + 1] # t
    <3>1. CASE i = n BY <2>1, <2>3, <2>4, <3>1
    <3>2. CASE i # n
      <4>1. i \in 1 .. n - 1 /\ i + 1 \in 1 .. n BY <2>1, <3>2
      <4> QED BY <1>5, <2>4, <4>1 DEF IsPath
    <3> QED BY <3>1, <3>2
  <2>6. a[1] = t BY <1>5, <2>1, <2>4 DEF IsPath
  <2>7. IsPath(nx, t, a)
    <3>1. a \in Chains BY <2>4 DEF Chains
    <3>2. \A i \in 1 .. Len(a) - 1 : i \in 1 .. n BY <2>1, <2>4
    <3> QED BY <2>5, <2>6, <3>1, <3>2 DEF IsPath
  <2>8. Cardinality(TCB) - Len(a) \in N BY <1>2, <2>7
  <2>9. Cardinality(TCB) - Len(a) < k BY <1>5, <1>6, <2>1, <2>4, TCBIsFinite
  <2>10. ~(k <= Cardinality(TCB) - Len(a)) BY <1>6, <2>1, <2>4, <2>9, TCBIsFinite
  <2> QED BY <1>4, <2>8, <2>10
<1> QED BY <1>5, <1>7

----------------------------------------------------------------------------
(* Walks over rings and lists.                                             *)

\* e meets every member of M; it meets members of M only, none twice.
Covers(e, M) == \A u \in M : \E i \in 1 .. Len(e) : e[i] = u

Once(e, M) ==
  /\ \A i \in 1 .. Len(e) : e[i] \in M
  /\ \A i, j \in 1 .. Len(e) : e[i] = e[j] => i = j

\* A walk inside M is the one path that ends, and meets nobody twice.
LEMMA WalkIsPath ==
  ASSUME NEW L \in ListRecord, NEW M, Closed(L.next, L.prev, M), NEW t \in M
  PROVE  /\ IsPath(L.next, t, Walk(L, t)) /\ Ends(L.next, t, Walk(L, t))
         /\ \A e : IsPath(L.next, t, e) /\ Ends(L.next, t, e) => Walk(L, t) = e
         /\ Once(Walk(L, t), M)
<1>1. t \in TCB BY DEF Closed
<1>2. \A e : IsPath(L.next, t, e) /\ Ends(L.next, t, e) => Walk(L, t) = e
  BY <1>1, WalkIs, PathShort, TCBIsFinite
<1>3. PICK e : IsPath(L.next, t, e) /\ Ends(L.next, t, e) BY PathExists
<1>4. Walk(L, t) = e BY <1>2, <1>3
<1>5. IsPath(L.next, t, Walk(L, t)) /\ Ends(L.next, t, Walk(L, t)) BY <1>3, <1>4
<1>6. Once(Walk(L, t), M) BY <1>5, PathStays, PathOnce DEF Once
<1> QED BY <1>2, <1>5, <1>6

\* Every member of M but t follows another one, of a lower rank.
Follow(L, M, t, r) ==
  \A u \in M : u # t => L.prev[u] \in M /\ L.next[L.prev[u]] = u /\ r[L.prev[u]] < r[u]

\* Then a walk from t meets them all.
LEMMA WalkMeetsAll ==
  ASSUME NEW L \in ListRecord, NEW M, Closed(L.next, L.prev, M), NEW t \in M,
         NEW r \in Ranks, Follow(L, M, t, r)
  PROVE  Covers(Walk(L, t), M)
<1> DEFINE e == Walk(L, t)
           A == {u \in M : ~\E i \in 1 .. Len(e) : e[i] = u}
<1>1. IsPath(L.next, t, e) /\ Ends(L.next, t, e) BY WalkIsPath
<1> HIDE DEF e
<1>2. e \in Seq(TCB) /\ Len(e) \in Nat /\ Len(e) >= 1 /\ e[1] = t /\ NULL \notin TCB
  BY <1>1, TasksAreNotNull DEF IsPath, Chains, TCB
<1>3. ASSUME A # {} PROVE FALSE
  <2>1. A \in SUBSET TCB BY DEF Closed
  <2>2. PICK u \in A : \A v \in A : r[u] <= r[v] BY <1>3, <2>1, FirstRanked
  <2>3. u \in M /\ u # t BY <1>2
  <2>4. PICK v \in M : v = L.prev[u] /\ L.next[v] = u /\ r[v] < r[u] BY <2>3 DEF Follow
  <2>5. r[u] \in Nat /\ r[v] \in Nat BY <2>3, <2>4 DEF Closed, Ranks
  <2>6. v \notin A BY <2>2, <2>4, <2>5
  <2>7. PICK i \in 1 .. Len(e) : e[i] = v BY <2>6
  <2>8. i # Len(e)
    <3>1. u # NULL BY <1>2, <2>1
    <3> QED BY <1>1, <2>3, <2>4, <2>7, <3>1 DEF Ends
  <2>9. i \in 1 .. Len(e) - 1 /\ i + 1 \in 1 .. Len(e) BY <1>2, <2>8
  <2>10. e[i + 1] = u BY <1>1, <2>4, <2>7, <2>9 DEF IsPath
  <2> QED BY <2>9, <2>10
<1> QED BY <1>3 DEF e, Covers

\* s goes once around a ring, from i.
Round(L, i, s) == IsPath(L.next, i, s) /\ L.next[s[Len(s)]] = i

\* A round inside a closed set is the walk.
LEMMA RoundIsWalk ==
  ASSUME NEW L \in ListRecord, NEW M, Closed(L.next, L.prev, M), NEW i \in M,
         NEW s, Round(L, i, s)
  PROVE  Walk(L, i) = s
<1>1. IsPath(L.next, i, s) /\ Ends(L.next, i, s) BY DEF Round, Ends
<1> QED BY <1>1, WalkIsPath

\* A walk inside M from where every other member is reached meets M, once each.
LEMMA WalkCovers ==
  ASSUME NEW L \in ListRecord, NEW M, Closed(L.next, L.prev, M), NEW c \in M,
         NEW r \in Ranks, Follow(L, M, c, r), NEW e, e = Walk(L, c)
  PROVE  /\ IsPath(L.next, c, e) /\ Ends(L.next, c, e)
         /\ e \in Seq(TCB) /\ Len(e) \in 1 .. Len(e)
         /\ Once(e, M) /\ Covers(e, M)
<1>1. IsPath(L.next, c, e) /\ Ends(L.next, c, e) /\ Once(e, M) BY WalkIsPath, Zenon
<1>2. Covers(e, M) BY WalkMeetsAll, Zenon
<1>3. e \in Seq(TCB) /\ Len(e) \in 1 .. Len(e) BY <1>1 DEF IsPath, Chains
<1> QED BY <1>1, <1>2, <1>3

\* Ring goes around the queue of its level, once.
LEMMA RingGoesRound ==
  ASSUME NEW L, NEW Q, NEW S, WellFormed(L, Q, S), NEW p \in Level,
         NEW e, e = Ring(L, p)
  PROVE  /\ L \in ListRecord /\ Closed(L.next, L.prev, Q[p])
         /\ L.iter[p] = NULL => e = <<>>
         /\ L.iter[p] # NULL => /\ L.iter[p] \in Q[p] /\ e = Walk(L, L.iter[p])
                                /\ Round(L, L.iter[p], e)
         /\ Once(e, Q[p]) /\ Covers(e, Q[p]) /\ e \in Seq(TCB)
<1>1. PICK r \in Ranks : InOrder(L, Q, S, r) BY DEF WellFormed
<1>2. RingOrder(L.next, L.prev, Q[p], L.iter[p], r) BY <1>1 DEF InOrder
<1>3. L \in ListRecord /\ Q[p] \in SUBSET TCB BY DEF WellFormed, Apart, Queues
<1>4. Closed(L.next, L.prev, Q[p]) BY <1>2, <1>3 DEF RingOrder, Closed
<1>5. CASE L.iter[p] = NULL
  <2>1. Q[p] = {} BY <1>2, <1>5 DEF RingOrder
  <2>2. e = <<>> BY <1>5 DEF Ring, Walk
  <2> QED BY <1>3, <1>4, <1>5, <2>1, <2>2 DEF Once, Covers
<1>6. CASE L.iter[p] # NULL
  <2>1. PICK c : c = L.iter[p] OBVIOUS
  <2>2. c \in Q[p] /\ NULL \notin Q[p]
    BY <1>2, <1>3, <1>6, <2>1, TasksAreNotNull DEF RingOrder, TCB
  <2>3. e = Walk(L, c) BY <2>1 DEF Ring
  <2>4. Follow(L, Q[p], c, r)
    <3> SUFFICES ASSUME NEW u \in Q[p], u # c
                 PROVE  L.prev[u] \in Q[p] /\ L.next[L.prev[u]] = u /\ r[L.prev[u]] < r[u]
      BY DEF Follow
    <3> QED BY <1>2, <2>1 DEF RingOrder
  <2>5. /\ IsPath(L.next, c, e) /\ Ends(L.next, c, e)
        /\ e \in Seq(TCB) /\ Len(e) \in 1 .. Len(e)
        /\ Once(e, Q[p]) /\ Covers(e, Q[p])
    BY <1>3, <1>4, <2>2, <2>3, <2>4, WalkCovers, Zenon
  <2>6. L.next[e[Len(e)]] \in Q[p] BY <1>2, <2>5 DEF RingOrder, Once
  <2>7. Round(L, c, e) BY <2>2, <2>5, <2>6 DEF Round, Ends
  <2> QED BY <1>3, <1>4, <1>6, <2>1, <2>2, <2>3, <2>5, <2>7
<1> QED BY <1>5, <1>6

\* The walk from head meets the members of the delayed list.
LEMMA AsleepIsTheList ==
  ASSUME NEW L, NEW Q, NEW S, WellFormed(L, Q, S)
  PROVE  Asleep(L) = S
<1>1. PICK r \in Ranks : InOrder(L, Q, S, r) BY DEF WellFormed
<1>2. PICK h : h = L.head OBVIOUS
<1>3. ListOrder(L.next, L.prev, S, h, L.tail, r) BY <1>1, <1>2 DEF InOrder
<1>4. L \in ListRecord /\ S \in SUBSET TCB /\ NULL \notin S
  BY TasksAreNotNull DEF WellFormed, Apart, TCB
<1>5. PICK e : e = Walk(L, h) OBVIOUS
<1>6. Asleep(L) = {e[i] : i \in DOMAIN e} BY <1>2, <1>5 DEF Asleep
<1>7. CASE h = NULL
  <2>1. S = {} BY <1>3, <1>7 DEF ListOrder
  <2>2. e = <<>> BY <1>5, <1>7 DEF Walk
  <2> QED BY <1>6, <2>1, <2>2
<1>8. CASE h # NULL
  <2>1. h \in S BY <1>3, <1>8 DEF ListOrder
  <2>2. Closed(L.next, L.prev, S) BY <1>3, <1>4 DEF ListOrder, Closed
  <2>3. Follow(L, S, h, r)
    <3> SUFFICES ASSUME NEW u \in S, u # h
                 PROVE  L.prev[u] \in S /\ L.next[L.prev[u]] = u /\ r[L.prev[u]] < r[u]
      BY DEF Follow
    <3> QED BY <1>3, <1>4 DEF ListOrder
  <2>4. e \in Seq(TCB) /\ Once(e, S) /\ Covers(e, S)
    BY <1>4, <1>5, <2>1, <2>2, <2>3, WalkCovers, Zenon
  <2>5. DOMAIN e = 1 .. Len(e) BY <2>4
  <2>6. {e[i] : i \in DOMAIN e} = S BY <2>4, <2>5 DEF Once, Covers
  <2> QED BY <1>6, <2>6
<1> QED BY <1>7, <1>8

----------------------------------------------------------------------------
(* What the helpers do to the rings, read as sequences.                     *)

\* A ring whose members keep their next is the same.
LEMMA RingUnchanged ==
  ASSUME NEW L, NEW Q, NEW S, WellFormed(L, Q, S),
         NEW N, NEW R, NEW T, WellFormed(N, R, T), NEW p \in Level, R[p] = Q[p],
         N.iter[p] = L.iter[p], \A u \in Q[p] : N.next[u] = L.next[u]
  PROVE  Ring(N, p) = Ring(L, p)
<1>1. CASE L.iter[p] = NULL BY <1>1, RingGoesRound
<1>2. CASE L.iter[p] # NULL
  <2> DEFINE e == Ring(L, p)
             c == L.iter[p]
  <2>1. /\ Round(L, c, e) /\ \A i \in 1 .. Len(e) : e[i] \in Q[p]
        /\ c \in Q[p]
    BY <1>2, RingGoesRound DEF Once
  <2>2. N \in ListRecord /\ Closed(N.next, N.prev, Q[p]) /\ Ring(N, p) = Walk(N, c)
    BY <1>2, RingGoesRound
  <2> HIDE DEF e
  <2>3. Len(e) \in 1 .. Len(e) /\ Len(e) \in Nat BY <2>1 DEF Round, IsPath, Chains
  <2>4. Round(N, c, e)
    <3>1. \A i \in 1 .. Len(e) - 1 : i \in 1 .. Len(e) BY <2>3
    <3> QED BY <2>1, <2>3, <3>1 DEF Round, IsPath
  <2>5. Walk(N, c) = e BY <2>1, <2>2, <2>4, RoundIsWalk
  <2> QED BY <2>2, <2>5 DEF e
<1> QED BY <1>1, <1>2

\* The links of nx2 are those of nx but for the tasks in X.
LinksBut(nx, nx2, X) == \A u \in TCB : u \notin X => nx2[u] = nx[u]

\* The rings of the levels whose tasks are not touched are the same.
LEMMA OtherRings ==
  ASSUME NEW L, NEW Q, NEW S, WellFormed(L, Q, S),
         NEW N, NEW R, NEW T, WellFormed(N, R, T), NEW q \in Level, R[q] = Q[q],
         N.iter[q] = L.iter[q], NEW X, LinksBut(L.next, N.next, X), X \cap Q[q] = {}
  PROVE  Ring(N, q) = Ring(L, q)
<1>1. Q[q] \in SUBSET TCB BY DEF WellFormed, Apart, Queues
<1>2. \A u \in Q[q] : N.next[u] = L.next[u] BY <1>1 DEF LinksBut
<1> QED BY <1>2, RingUnchanged

\* A sequence once around a well-formed ring is the ring.
LEMMA RingIs ==
  ASSUME NEW N, NEW R, NEW T, WellFormed(N, R, T), NEW p \in Level,
         NEW i \in TCB, N.iter[p] = i, NEW e, Round(N, i, e)
  PROVE  Ring(N, p) = e
<1>1. i # NULL BY TasksAreNotNull DEF TCB
<1>2. /\ N \in ListRecord /\ Closed(N.next, N.prev, R[p])
      /\ i \in R[p] /\ Ring(N, p) = Walk(N, i)
  BY <1>1, RingGoesRound
<1> QED BY <1>2, RoundIsWalk

\* s is the ring of the members M from i, read along next.
ReadsRing(L, M, i, s) ==
  /\ s \in Seq(TCB) /\ Len(s) \in Nat /\ Len(s) >= 1
  /\ s[1] = i /\ L.next[s[Len(s)]] = i
  /\ \A k \in 1 .. Len(s) : s[k] \in M /\ s[k] \in TCB
  /\ \A k \in 1 .. Len(s) - 1 : s[k + 1] = L.next[s[k]]
  /\ \A j, k \in 1 .. Len(s) : s[j] = s[k] => j = k
  /\ \A u \in M : \E k \in 1 .. Len(s) : s[k] = u

LEMMA RingFacts ==
  ASSUME NEW L, NEW Q, NEW S, WellFormed(L, Q, S), NEW p \in Level,
         NEW s, s = Ring(L, p), NEW i \in TCB, L.iter[p] = i
  PROVE  ReadsRing(L, Q[p], i, s)
<1>1. i # NULL BY TasksAreNotNull DEF TCB
<1>2. /\ L \in ListRecord /\ Round(L, i, s) /\ Once(s, Q[p]) /\ Covers(s, Q[p])
      /\ s \in Seq(TCB)
  BY <1>1, RingGoesRound
<1>3. Len(s) \in Nat /\ Len(s) >= 1 BY <1>2 DEF Round, IsPath, Chains
<1> QED BY <1>2, <1>3 DEF Round, IsPath, Once, Covers, ReadsRing

\* _readyQueuePushTask puts the task at the end.
LEMMA PushRings ==
  ASSUME NEW L, NEW Q, NEW S, WellFormed(L, Q, S), NEW p \in Level,
         NEW t, Nowhere(t, Q, S), NEW N, N = _readyQueuePushTask(L, p, t),
         NEW q \in Level
  PROVE  Ring(N, q) = IF q = p THEN Append(Ring(L, p), t) ELSE Ring(L, q)
<1> DEFINE R == QueueJoined(Q, p, t)
           i == L.iter[p]
<1>1. /\ L \in ListRecord /\ Q \in Queues /\ t \in TCB /\ t \notin Q[p]
      /\ NULL \notin TCB /\ \A r \in Level : r # p => Q[p] \cap Q[r] = {}
  BY TasksAreNotNull DEF WellFormed, Apart, Nowhere, TCB
<1>2. WellFormed(N, R, S) BY PushWellFormed
<1>3. \A r \in Level : r # p => R[r] = Q[r] BY <1>1 DEF QueueJoined, Queues
<1> HIDE DEF R
<1>4. CASE i = NULL
  <2>1. /\ N.iter = [L.iter EXCEPT ![p] = t] /\ N.next = [L.next EXCEPT ![t] = t]
    BY <1>1, <1>4 DEF _readyQueuePushTask, ListRecord
  <2>2. N.iter[p] = t /\ N.next[t] = t /\ LinksBut(L.next, N.next, {t})
    BY <1>1, <2>1 DEF LinksBut, ListRecord
  <2>3. CASE q = p
    <3>1. Round(N, t, <<t>>) BY <1>1, <2>2 DEF Round, IsPath, Chains
    <3>2. Ring(N, p) = <<t>> BY <1>1, <1>2, <2>2, <3>1, RingIs
    <3>3. Ring(L, p) = <<>> BY <1>4, RingGoesRound
    <3> QED BY <1>1, <2>3, <3>2, <3>3
  <2>4. CASE q # p
    <3>1. N.iter[q] = L.iter[q] BY <2>1, <2>4 DEF ListRecord
    <3>2. {t} \cap Q[q] = {} BY DEF Nowhere
    <3> QED BY <1>2, <1>3, <2>2, <2>4, <3>1, <3>2, OtherRings
  <2> QED BY <2>3, <2>4
<1>5. CASE i # NULL
  <2>1. i \in Q[p] /\ i \in TCB /\ L.prev[i] \in Q[p] /\ L.prev[i] # NULL
    BY <1>1, <1>5, InRing DEF Queues
  <2>2. N = Between(L, L.prev[i], t, i) BY <1>1, <1>5, <2>1 DEF _readyQueuePushTask
  <2>3. L.prev[i] \in Pointer /\ i \in Pointer
    BY <1>1, <2>1 DEF Queues, Pointer
  <2>4. /\ Inserted(L.next, L.prev, N.next, N.prev, L.prev[i], t, i)
        /\ N.iter = L.iter
    BY <1>1, <2>2, <2>3, BetweenFields
  <2>5. PICK l \in Q[p] : l = L.prev[i] /\ L.next[l] = i BY <2>1, InRing
  <2>6. /\ N.next[l] = t /\ N.next[t] = i
        /\ LinksBut(L.next, N.next, {t, l})
    BY <1>1, <2>4, <2>5 DEF Inserted, LinksBut, Queues
  <2>7. CASE q = p
    <3>1. PICK s : s = Ring(L, p) OBVIOUS
    <3> DEFINE n == Len(s)
               e == Append(s, t)
    <3>0. L.iter[p] = i OBVIOUS
    <3> HIDE DEF i
    <3>2. /\ s \in Seq(TCB) /\ n \in Nat /\ n >= 1
          /\ s[1] = i /\ L.next[s[n]] = i
          /\ \A k \in 1 .. n : s[k] \in Q[p] /\ s[k] \in TCB
          /\ \A k \in 1 .. n - 1 : s[k + 1] = L.next[s[k]]
          /\ \A j, k \in 1 .. n : s[j] = s[k] => j = k
      <4>1. ReadsRing(L, Q[p], i, s) BY <2>1, <3>0, <3>1, RingFacts
      <4> QED BY <4>1 DEF ReadsRing
    <3>3. s[n] = l
      <4>1. s[n] \in Q[p] BY <3>2
      <4>2. L.prev[L.next[s[n]]] = s[n] BY <4>1, InRing
      <4> QED BY <2>5, <3>2, <4>2
    <3>4. /\ e \in Seq(TCB) /\ Len(e) = n + 1 /\ e[n + 1] = t
          /\ \A k \in 1 .. n : e[k] = s[k]
      BY <1>1, <3>2
    <3> HIDE DEF e, n
    <3>5. ASSUME NEW k \in 1 .. n PROVE e[k + 1] = N.next[e[k]] /\ e[k + 1] # i
      <4>1. CASE k = n BY <1>1, <2>1, <2>6, <3>2, <3>3, <3>4, <4>1
      <4>2. CASE k # n
        <5>1. k \in 1 .. n - 1 /\ k + 1 \in 1 .. n /\ n \in 1 .. n BY <3>2, <4>2
        <5>2. s[k] # l /\ s[k] # t /\ s[k + 1] # i
          <6>1. 1 \in 1 .. n /\ k + 1 # 1 BY <3>2
          <6> QED BY <1>1, <3>2, <3>3, <4>2, <5>1, <6>1
        <5>3. N.next[s[k]] = L.next[s[k]] BY <2>6, <3>2, <5>2 DEF LinksBut
        <5> QED BY <3>2, <3>4, <5>1, <5>2, <5>3
      <4> QED BY <4>1, <4>2
    <3>6. Round(N, i, e)
      <4>1. (n + 1) - 1 = n /\ e # <<>> /\ 1 \in 1 .. n BY <3>2, <3>4
      <4> QED BY <2>6, <3>2, <3>4, <3>5, <4>1 DEF Round, IsPath, Chains
    <3>7. Ring(N, p) = e BY <1>2, <2>1, <2>4, <3>0, <3>6, RingIs
    <3> QED BY <2>7, <3>1, <3>7 DEF e
  <2>8. CASE q # p
    <3>1. {t, l} \cap Q[q] = {} BY <1>1, <2>5, <2>8 DEF Nowhere
    <3> QED BY <1>2, <1>3, <2>4, <2>6, <2>8, <3>1, OtherRings
  <2> QED BY <2>7, <2>8
<1> QED BY <1>4, <1>5

\* s without its k-th element, beginning with the one that followed it.
Resumed(s, k) == SubSeq(s, k + 1, Len(s)) \o SubSeq(s, 1, k - 1)

LEMMA ResumedElements ==
  ASSUME NEW s \in Seq(TCB), NEW k \in 1 .. Len(s), NEW e, e = Resumed(s, k)
  PROVE  /\ e \in Seq(TCB) /\ Len(e) = Len(s) - 1
         /\ \A j \in 1 .. Len(s) - k : e[j] = s[j + k]
         /\ \A j \in Len(s) - k + 1 .. Len(s) - 1 : e[j] = s[j - (Len(s) - k)]
<1> DEFINE a == SubSeq(s, k + 1, Len(s))
           b == SubSeq(s, 1, k - 1)
<1>1. Len(s) \in Nat /\ k \in Nat /\ k >= 1 /\ k <= Len(s) OBVIOUS
<1>2. /\ a \in Seq(TCB) /\ Len(a) = Len(s) - k
      /\ \A j \in 1 .. Len(s) - k : a[j] = s[j + k]
  BY <1>1
<1>3. /\ b \in Seq(TCB) /\ Len(b) = k - 1
      /\ \A j \in 1 .. k - 1 : b[j] = s[j]
  BY <1>1
<1>4. e = a \o b BY DEF Resumed
<1> HIDE DEF a, b
<1>5. e \in Seq(TCB) /\ Len(e) = Len(s) - 1 BY <1>1, <1>2, <1>3, <1>4
<1>6. ASSUME NEW j \in 1 .. Len(s) - k PROVE e[j] = s[j + k]
  <2>1. e[j] = a[j] BY <1>1, <1>2, <1>3, <1>4
  <2> QED BY <1>2, <2>1
<1>7. ASSUME NEW j \in Len(s) - k + 1 .. Len(s) - 1 PROVE e[j] = s[j - (Len(s) - k)]
  <2>1. j \in Nat /\ j - (Len(s) - k) \in 1 .. k - 1 BY <1>1
  <2>2. e[j] = b[j - Len(a)] BY <1>1, <1>2, <1>3, <1>4
  <2> QED BY <1>2, <1>3, <2>1, <2>2
<1> QED BY <1>5, <1>6, <1>7

\* _readyQueueIterateForwards puts the first at the end.
LEMMA IterateRings ==
  ASSUME NEW L, NEW Q, NEW S, WellFormed(L, Q, S), NEW p \in Level,
         L.iter[p] # NULL, NEW N, N = _readyQueueIterateForwards(L, p), NEW q \in Level
  PROVE  /\ Ring(N, q) = IF q = p THEN Append(Tail(Ring(L, p)), Head(Ring(L, p)))
                         ELSE Ring(L, q)
         /\ Ring(L, p) # <<>> /\ Head(Ring(L, p)) = L.iter[p]
<1>1. /\ L \in ListRecord /\ Q \in Queues /\ NULL \notin TCB
  BY TasksAreNotNull DEF WellFormed, Apart, TCB
<1>2. WellFormed(N, Q, S) BY IterateWellFormed
<1>3. PICK i \in TCB : i = L.iter[p] /\ i \in Q[p] BY <1>1, InRing DEF Queues
<1>4. N.next = L.next /\ N.iter = [L.iter EXCEPT ![p] = L.next[i]]
  BY <1>1, <1>3 DEF _readyQueueIterateForwards, ListRecord
<1>5. L.next[i] \in TCB /\ N.iter[p] = L.next[i]
  BY <1>1, <1>3, <1>4, InRing DEF Queues, ListRecord
<1>6. PICK s : s = Ring(L, p) OBVIOUS
<1>7. ReadsRing(L, Q[p], i, s) BY <1>3, <1>6, RingFacts
<1> DEFINE n == Len(s)
           e == Append(Tail(s), Head(s))
<1>8. /\ s \in Seq(TCB) /\ n \in Nat /\ n >= 1 /\ s # <<>>
      /\ s[1] = i /\ L.next[s[n]] = i
      /\ \A k \in 1 .. n : s[k] \in TCB
      /\ \A k \in 1 .. n - 1 : s[k + 1] = L.next[s[k]]
      /\ \A j, k \in 1 .. n : s[j] = s[k] => j = k
  BY <1>7 DEF ReadsRing
<1>9. Head(s) = i BY <1>8
<1>10. /\ e \in Seq(TCB) /\ Len(e) = n /\ e[n] = s[1]
       /\ \A k \in 1 .. n - 1 : e[k] = s[k + 1]
  BY <1>8
<1>11. CASE q = p
  <2> HIDE DEF n, e
  <2>1. 1 \in 1 .. n /\ n \in 1 .. n BY <1>8
  <2>2. e[1] = L.next[i]
    <3>1. CASE n = 1 BY <1>8, <1>10, <3>1
    <3>2. CASE n # 1
      <4>1. 1 \in 1 .. n - 1 BY <1>8, <3>2
      <4> QED BY <1>8, <1>10, <4>1
    <3> QED BY <3>1, <3>2
  <2>3. ASSUME NEW k \in 1 .. n - 1 PROVE e[k + 1] = L.next[e[k]] /\ e[k + 1] # L.next[i]
    <3>1. k + 1 \in 1 .. n /\ 1 \in 1 .. n - 1 /\ e[1] = s[2] /\ 2 \in 1 .. n BY <1>8, <1>10
    <3>2. CASE k = n - 1
      <4>1. e[k] = s[n] /\ e[k + 1] = s[1] BY <1>8, <1>10, <3>2
      <4>2. s[1] # s[2] BY <1>8, <2>1, <3>1
      <4> QED BY <1>8, <2>2, <3>1, <4>1, <4>2
    <3>3. CASE k # n - 1
      <4>1. k + 1 \in 1 .. n - 1 /\ (k + 1) + 1 \in 1 .. n /\ (k + 1) + 1 # 2 BY <1>8, <3>3
      <4>2. e[k] = s[k + 1] /\ e[k + 1] = s[(k + 1) + 1] BY <1>10, <4>1
      <4>3. s[(k + 1) + 1] # s[2] BY <1>8, <3>1, <4>1
      <4>4. s[(k + 1) + 1] = L.next[s[k + 1]] BY <1>8, <4>1
      <4> QED BY <2>2, <3>1, <4>2, <4>3, <4>4
    <3> QED BY <3>2, <3>3
  <2>4. Round(N, L.next[i], e)
    <3>1. e # <<>> BY <1>8, <1>10
    <3> QED BY <1>4, <1>8, <1>10, <2>2, <2>3, <3>1 DEF Round, IsPath, Chains
  <2>5. Ring(N, p) = e BY <1>2, <1>5, <2>4, RingIs
  <2> QED BY <1>3, <1>6, <1>8, <1>9, <1>11, <2>5 DEF e
<1>12. CASE q # p
  <2>1. N.iter[q] = L.iter[q] BY <1>4, <1>12, <1>1 DEF ListRecord
  <2>2. LinksBut(L.next, N.next, {}) BY <1>4 DEF LinksBut
  <2>3. Ring(N, q) = Ring(L, q) BY <1>2, <2>1, <2>2, OtherRings
  <2> QED BY <1>3, <1>6, <1>8, <1>9, <1>12, <2>3
<1> QED BY <1>11, <1>12

\* _listAddTask and _listRemoveTask leave the rings alone.
LEMMA ListAddRings ==
  ASSUME NEW L, NEW Q, NEW S, WellFormed(L, Q, S), NEW t, Nowhere(t, Q, S),
         NEW N, N = _listAddTask(L, t), NEW q \in Level
  PROVE  Ring(N, q) = Ring(L, q)
<1>1. L \in ListRecord /\ t \in TCB /\ NULL \notin TCB /\ S \cap Q[q] = {}
  BY TasksAreNotNull DEF WellFormed, Apart, Nowhere, TCB
<1>2. WellFormed(N, Q, Joined(S, t)) BY ListAddWellFormed
<1>3. L.tail \in Pointer /\ NULL \in Pointer BY <1>1 DEF ListRecord, Pointer
<1>4. PICK B : B = Between(L, L.tail, t, NULL) OBVIOUS
<1>5. /\ Inserted(L.next, L.prev, B.next, B.prev, L.tail, t, NULL)
      /\ B.iter = L.iter /\ B \in ListRecord
  BY <1>1, <1>3, <1>4, BetweenFields
<1>6. N.next = B.next /\ N.iter = L.iter
  BY <1>4, <1>5 DEF _listAddTask, ListRecord
<1>7. LinksBut(L.next, N.next, {t, L.tail}) BY <1>5, <1>6 DEF LinksBut, Inserted
<1>8. L.tail \in S \cup {NULL} BY InList
<1>9. {t, L.tail} \cap Q[q] = {}
  <2>1. Q[q] \in SUBSET TCB BY DEF WellFormed, Apart, Queues
  <2> QED BY <1>1, <1>8, <2>1 DEF Nowhere
<1> QED BY <1>2, <1>6, <1>7, <1>9, OtherRings

LEMMA ListRemoveRings ==
  ASSUME NEW L, NEW Q, NEW S, WellFormed(L, Q, S), NEW t \in S,
         NEW N, N = _listRemoveTask(L, t), NEW q \in Level
  PROVE  Ring(N, q) = Ring(L, q)
<1>1. L \in ListRecord /\ t \in TCB /\ NULL \notin TCB /\ S \cap Q[q] = {}
  BY TasksAreNotNull DEF WellFormed, Apart, TCB
<1>2. WellFormed(N, Q, Left(S, t)) BY ListRemoveWellFormed
<1>3. PICK W : W = Without(L, t) OBVIOUS
<1>4. /\ TakenOut(L.next, L.prev, W.next, W.prev, t)
      /\ W.iter = L.iter /\ W \in ListRecord
  BY <1>1, <1>3, WithoutFields
<1>5. N.next = W.next /\ N.iter = L.iter
  BY <1>3, <1>4 DEF _listRemoveTask, ListRecord
<1>6. LinksBut(L.next, N.next, {t, L.prev[t]}) BY <1>4, <1>5 DEF LinksBut, TakenOut
<1>7. L.prev[t] \in S \cup {NULL} BY InList
<1>8. {t, L.prev[t]} \cap Q[q] = {}
  <2>1. Q[q] \in SUBSET TCB BY DEF WellFormed, Apart, Queues
  <2> QED BY <1>1, <1>7, <2>1
<1> QED BY <1>2, <1>5, <1>6, <1>8, OtherRings

\* The ring from the task that follows the k-th: it leads back to the k-th and
\* does not meet it again.
LEMMA ResumedLinks ==
  ASSUME NEW L, NEW M, NEW i, NEW s, ReadsRing(L, M, i, s), NEW k \in 1 .. Len(s),
         Len(s) # 1, NEW e, e = Resumed(s, k)
  PROVE  /\ e \in Seq(TCB) /\ Len(e) = Len(s) - 1
         /\ e[1] = L.next[s[k]]
         /\ L.next[e[Len(e)]] = s[k]
         /\ \A j \in 1 .. Len(e) - 1 : e[j + 1] = L.next[e[j]] /\ e[j + 1] # e[1]
         /\ \A j \in 1 .. Len(e) : e[j] # s[k] /\ e[j] \in M /\ e[j] \in TCB
<1> DEFINE n == Len(s)
           Is(j) == IF j <= n - k THEN j + k ELSE j - (n - k)
<1>1. /\ s \in Seq(TCB)
      /\ s[1] = i /\ L.next[s[n]] = i
      /\ \A j \in 1 .. n : s[j] \in M /\ s[j] \in TCB
      /\ \A j \in 1 .. n - 1 : s[j + 1] = L.next[s[j]]
      /\ \A j, l \in 1 .. n : s[j] = s[l] => j = l
  BY Zenon DEF ReadsRing
<1>2. /\ e \in Seq(TCB) /\ Len(e) = n - 1
      /\ \A j \in 1 .. n - k : e[j] = s[j + k]
      /\ \A j \in n - k + 1 .. n - 1 : e[j] = s[j - (n - k)]
  BY <1>1, ResumedElements
<1>3. n \in Nat /\ n >= 2 /\ k \in Nat /\ 1 <= k /\ k <= n
  <2>1. n \in Nat /\ n >= 1 /\ n # 1 /\ k \in 1 .. n BY DEF ReadsRing
  <2> HIDE DEF n
  <2> QED BY <2>1
<1> HIDE DEF n
<1>4. ASSUME NEW j \in 1 .. n - 1
      PROVE  Is(j) \in 1 .. n /\ Is(j) # k /\ e[j] = s[Is(j)]
  <2>1. CASE j <= n - k
    <3>1. Is(j) = j + k /\ j \in 1 .. n - k /\ j + k \in 1 .. n /\ j + k # k BY <1>3, <2>1
    <3> QED BY <1>2, <3>1
  <2>2. CASE ~(j <= n - k)
    <3>1. /\ Is(j) = j - (n - k) /\ j \in n - k + 1 .. n - 1
          /\ j - (n - k) \in 1 .. n /\ j - (n - k) # k
      BY <1>3, <2>2
    <3> QED BY <1>2, <3>1
  <2> QED BY <2>1, <2>2
<1>5. ASSUME NEW j \in 1 .. n - 1 PROVE e[j] # s[k] /\ e[j] \in M /\ e[j] \in TCB
  <2>1. PICK l \in 1 .. n : l # k /\ e[j] = s[l] BY <1>4
  <2>2. k \in 1 .. n BY <1>3
  <2> QED BY <1>1, <2>1, <2>2
<1>6. e[1] = L.next[s[k]]
  <2>1. CASE k = n
    <3>1. 1 \in n - k + 1 .. n - 1 /\ 1 - (n - k) = 1 BY <1>3, <2>1
    <3> QED BY <1>1, <1>2, <2>1, <3>1
  <2>2. CASE k # n
    <3>1. 1 \in 1 .. n - k /\ k \in 1 .. n - 1 BY <1>3, <2>2
    <3> QED BY <1>1, <1>2, <3>1
  <2> QED BY <2>1, <2>2
<1>7. L.next[e[n - 1]] = s[k]
  <2>1. CASE k = 1
    <3>1. n - 1 \in 1 .. n - k /\ (n - 1) + k = n BY <1>3, <2>1
    <3> QED BY <1>1, <1>2, <2>1, <3>1
  <2>2. CASE k # 1
    <3>1. n - 1 \in n - k + 1 .. n - 1 /\ (n - 1) - (n - k) = k - 1
      BY <1>3, <2>2
    <3>2. k - 1 \in 1 .. n - 1 /\ (k - 1) + 1 = k BY <1>3, <2>2
    <3>3. e[n - 1] = s[k - 1] BY <1>2, <3>1
    <3>4. s[k] = L.next[s[k - 1]] BY <1>1, <3>2
    <3> QED BY <3>3, <3>4
  <2> QED BY <2>1, <2>2
<1>8. ASSUME NEW j \in 1 .. n - 2 PROVE e[j + 1] = L.next[e[j]] /\ e[j + 1] # e[1]
  <2>1. j \in 1 .. n - 1 /\ j + 1 \in 1 .. n - 1 /\ 1 \in 1 .. n - 1 BY <1>3
  <2>2. Is(j + 1) # Is(1) BY <1>3, <2>1
  <2>3. e[j + 1] # e[1]
    <3>1. e[j + 1] = s[Is(j + 1)] /\ Is(j + 1) \in 1 .. n BY <1>4, <2>1
    <3>2. e[1] = s[Is(1)] /\ Is(1) \in 1 .. n BY <1>4, <2>1
    <3> HIDE DEF Is
    <3> QED BY <1>1, <2>2, <3>1, <3>2
  <2>4. e[j + 1] = L.next[e[j]]
    <3>1. CASE j + 1 <= n - k
      <4>1. Is(j) \in 1 .. n - 1 /\ Is(j + 1) = Is(j) + 1 BY <1>3, <3>1
      <4>2. e[j] = s[Is(j)] /\ e[j + 1] = s[Is(j + 1)] BY <1>4, <2>1
      <4> HIDE DEF Is
      <4> QED BY <1>1, <4>1, <4>2
    <3>2. CASE j = n - k
      <4>1. Is(j) = n /\ Is(j + 1) = 1 BY <1>3, <3>2
      <4>2. e[j] = s[Is(j)] /\ e[j + 1] = s[Is(j + 1)] BY <1>4, <2>1
      <4> HIDE DEF Is
      <4> QED BY <1>1, <4>1, <4>2
    <3>3. CASE j > n - k
      <4>1. Is(j) \in 1 .. n - 1 /\ Is(j + 1) = Is(j) + 1 BY <1>3, <3>3
      <4>2. e[j] = s[Is(j)] /\ e[j + 1] = s[Is(j + 1)] BY <1>4, <2>1
      <4> HIDE DEF Is
      <4> QED BY <1>1, <4>1, <4>2
    <3> QED BY <1>3, <3>1, <3>2, <3>3
  <2> QED BY <2>3, <2>4
<1>9. (n - 1) - 1 = n - 2 BY <1>3
<1> QED BY <1>2, <1>5, <1>6, <1>7, <1>8, <1>9 DEF n

\* _readyQueueRemoveTask takes the task out, and the one after it is the next.
LEMMA ReadyRemoveRings ==
  ASSUME NEW L, NEW Q, NEW S, WellFormed(L, Q, S), NEW p \in Level,
         NEW s, s = Ring(L, p), NEW k \in 1 .. Len(s), NEW t, t = s[k],
         NEW N, N = _readyQueueRemoveTask(L, p, t), NEW q \in Level, t \in Q[p]
  PROVE  Ring(N, q) = IF q = p THEN Resumed(s, k) ELSE Ring(L, q)
<1>1. /\ L \in ListRecord /\ Q \in Queues /\ t \in TCB /\ NULL \notin TCB
      /\ \A r \in Level : r # p => Q[p] \cap Q[r] = {}
  BY TasksAreNotNull DEF WellFormed, Apart, Queues, TCB
<1>2. WellFormed(N, QueueLeft(Q, p, t), S) BY ReadyRemoveWellFormed
<1>3. PICK R : R = QueueLeft(Q, p, t) OBVIOUS
<1>4. \A r \in Level : r # p => R[r] = Q[r] BY <1>1, <1>3 DEF QueueLeft, Queues
<1>5. PICK i \in TCB : i = L.iter[p] BY <1>1, InRing DEF Queues
<1>6. ReadsRing(L, Q[p], i, s) BY <1>5, RingFacts
<1>7. /\ s \in Seq(TCB) /\ Len(s) \in Nat /\ Len(s) >= 1
      /\ s[1] = i /\ L.next[s[Len(s)]] = i
  BY <1>6 DEF ReadsRing
<1>8. PICK W : W = Without(L, t) OBVIOUS
<1>9. /\ TakenOut(L.next, L.prev, W.next, W.prev, t)
      /\ W.iter = L.iter /\ W \in ListRecord
  BY <1>1, <1>8, WithoutFields
<1>10. L.next[t] \in Q[p] /\ L.prev[t] \in Q[p] /\ L.next[L.prev[t]] = t BY InRing
<1>11. L.next[t] \in TCB /\ L.prev[t] \in TCB BY <1>1, <1>10 DEF Queues
<1>12. LinksBut(L.next, W.next, {t, L.prev[t]}) BY <1>9 DEF TakenOut, LinksBut
<1>13. {t, L.prev[t]} \cap Q[q] = {} \/ q = p BY <1>1, <1>10
<1>14. CASE L.next[t] = t
  <2>1. N.next = W.next /\ N.iter = [L.iter EXCEPT ![p] = NULL]
    BY <1>1, <1>8, <1>9, <1>14 DEF _readyQueueRemoveTask, ListRecord
  <2>2. CASE q = p
    <3>1. Len(s) = 1
      <4> SUFFICES ASSUME Len(s) # 1 PROVE FALSE OBVIOUS
      <4>1. k \in 1 .. Len(s) - 1 \/ k = Len(s) BY <1>7
      <4>2. k \in 1 .. Len(s) - 1 => k + 1 \in 1 .. Len(s) /\ k + 1 # k BY <1>7
      <4>3. 1 \in 1 .. Len(s) BY <1>7
      <4>4. /\ \A j \in 1 .. Len(s) - 1 : s[j + 1] = L.next[s[j]]
            /\ \A j, l \in 1 .. Len(s) : s[j] = s[l] => j = l
        BY <1>6, Zenon DEF ReadsRing
      <4>5. CASE k = Len(s) BY <1>7, <1>14, <4>3, <4>4, <4>5
      <4>6. CASE k \in 1 .. Len(s) - 1 BY <1>14, <4>2, <4>4, <4>6
      <4> QED BY <4>1, <4>5, <4>6
    <3>2. k = 1 BY <1>7, <3>1
    <3>3. Resumed(s, k) = <<>>
      <4>1. Resumed(s, 1) \in Seq(TCB) /\ Len(Resumed(s, 1)) = Len(s) - 1
        BY <1>7, <3>2, ResumedElements
      <4> QED BY <3>1, <3>2, <4>1
    <3>4. N.iter[p] = NULL BY <1>1, <2>1 DEF ListRecord
    <3>5. Ring(N, p) = <<>> BY <1>2, <3>4, RingGoesRound
    <3> QED BY <2>2, <3>3, <3>5
  <2>3. CASE q # p
    <3>1. N.iter[q] = L.iter[q] BY <1>1, <2>1, <2>3 DEF ListRecord
    <3>2. WellFormed(N, R, S) /\ R[q] = Q[q] BY <1>2, <1>3, <1>4, <2>3
    <3>3. \A u \in Q[q] : N.next[u] = L.next[u]
      <4>1. Q[q] \in SUBSET TCB BY <1>1 DEF Queues
      <4> QED BY <1>12, <1>13, <2>1, <2>3, <4>1 DEF LinksBut
    <3>4. Ring(N, q) = Ring(L, q) BY <3>1, <3>2, <3>3, RingUnchanged
    <3> QED BY <2>3, <3>4
  <2> QED BY <2>2, <2>3
<1>15. CASE L.next[t] # t
  <2>1. N.next = W.next /\ N.iter = [L.iter EXCEPT ![p] = L.next[t]]
    BY <1>1, <1>8, <1>9, <1>11, <1>15 DEF _readyQueueRemoveTask, ListRecord
  <2>2. CASE q = p
    <3>1. Len(s) # 1
      <4>1. Len(s) = 1 => k = 1 BY <1>7
      <4> QED BY <1>7, <1>15, <4>1
    <3>2. PICK e : e = Resumed(s, k) OBVIOUS
    <3>3. /\ e \in Seq(TCB) /\ Len(e) = Len(s) - 1
          /\ e[1] = L.next[t]
          /\ L.next[e[Len(e)]] = t
          /\ \A j \in 1 .. Len(e) - 1 : e[j + 1] = L.next[e[j]] /\ e[j + 1] # e[1]
          /\ \A j \in 1 .. Len(e) : e[j] # t /\ e[j] \in Q[p] /\ e[j] \in TCB
      BY <1>6, <3>1, <3>2, ResumedLinks
    <3>4. Len(e) \in Nat /\ Len(e) >= 1 BY <1>7, <3>1, <3>3
    <3>5. \A u \in Q[p] : u # t =>
            N.next[u] = IF L.next[u] = t THEN L.next[t] ELSE L.next[u]
      <4> SUFFICES ASSUME NEW u \in Q[p], u # t
                   PROVE  N.next[u] = IF L.next[u] = t THEN L.next[t] ELSE L.next[u]
        OBVIOUS
      <4>1. u \in TCB /\ L.prev[L.next[u]] = u BY <1>1, InRing DEF Queues
      <4>2. u = L.prev[t] <=> L.next[u] = t BY <1>10, <4>1
      <4> QED BY <1>9, <2>1, <4>1, <4>2 DEF TakenOut
    <3>6. ASSUME NEW j \in 1 .. Len(e) - 1
          PROVE  e[j + 1] = N.next[e[j]] /\ e[j + 1] # L.next[t]
      <4>1. j \in 1 .. Len(e) /\ j + 1 \in 1 .. Len(e) BY <3>4
      <4> QED BY <3>3, <3>5, <4>1
    <3>7. N.next[e[Len(e)]] = L.next[t]
      <4>1. Len(e) \in 1 .. Len(e) BY <3>4
      <4> QED BY <3>3, <3>5, <4>1
    <3>8. Round(N, L.next[t], e) BY <3>3, <3>4, <3>6, <3>7 DEF Round, IsPath, Chains
    <3>9. N.iter[p] = L.next[t] BY <1>1, <2>1 DEF ListRecord
    <3>10. Ring(N, p) = e BY <1>2, <1>11, <3>8, <3>9, RingIs
    <3> QED BY <2>2, <3>2, <3>10
  <2>3. CASE q # p
    <3>1. N.iter[q] = L.iter[q] BY <1>1, <2>1, <2>3 DEF ListRecord
    <3>2. WellFormed(N, R, S) /\ R[q] = Q[q] BY <1>2, <1>3, <1>4, <2>3
    <3>3. \A u \in Q[q] : N.next[u] = L.next[u]
      <4>1. Q[q] \in SUBSET TCB BY <1>1 DEF Queues
      <4> QED BY <1>12, <1>13, <2>1, <2>3, <4>1 DEF LinksBut
    <3>4. Ring(N, q) = Ring(L, q) BY <3>1, <3>2, <3>3, RingUnchanged
    <3> QED BY <2>3, <3>4
  <2> QED BY <2>2, <2>3
<1> QED BY <1>14, <1>15

Rings(L) == [p \in Level |-> Ring(L, p)]

\* A walk meets the members of its queue, and the walk from head the sleepers.
LEMMA Seen ==
  ASSUME NEW L, NEW Q, NEW S, WellFormed(L, Q, S)
  PROVE  /\ \A p \in Level : \A t : (\E i \in DOMAIN Ring(L, p) : Ring(L, p)[i] = t) <=> t \in Q[p]
         /\ Asleep(L) = S
<1>1. ASSUME NEW p \in Level, NEW t
      PROVE  (\E i \in DOMAIN Ring(L, p) : Ring(L, p)[i] = t) <=> t \in Q[p]
  <2>1. PICK s : s = Ring(L, p) OBVIOUS
  <2>2. s \in Seq(TCB) /\ Once(s, Q[p]) /\ Covers(s, Q[p]) BY <2>1, RingGoesRound
  <2>3. DOMAIN s = 1 .. Len(s) BY <2>2
  <2> QED BY <2>1, <2>2, <2>3 DEF Once, Covers
<1> QED BY <1>1, AsleepIsTheList

\* Lists whose rings are the same are the same queues.
LEMMA RingsSame ==
  ASSUME NEW L, NEW N, \A q \in Level : Ring(N, q) = Ring(L, q)
  PROVE  Rings(N) = Rings(L)
BY DEF Rings

\* A pushed task joins the end of its queue.
LEMMA PushSeen ==
  ASSUME NEW L, NEW Q, NEW S, WellFormed(L, Q, S), NEW p \in Level, NEW t, Nowhere(t, Q, S),
         NEW N, N = _readyQueuePushTask(L, p, t)
  PROVE  /\ Rings(N) = [Rings(L) EXCEPT ![p] = Append(@, t)]
         /\ Asleep(N) = Asleep(L)
<1>1. \A q \in Level : Ring(N, q) = IF q = p THEN Append(Ring(L, p), t) ELSE Ring(L, q)
  BY PushRings
<1>2. WellFormed(N, QueueJoined(Q, p, t), S) BY PushWellFormed
<1> QED BY <1>1, <1>2, Seen DEF Rings

\* A task that is removed leaves its queue, which goes on behind it.
LEMMA RemoveSeen ==
  ASSUME NEW L, NEW Q, NEW S, WellFormed(L, Q, S), NEW p \in Level, NEW t \in Q[p],
         NEW N, N = _readyQueueRemoveTask(L, p, t)
  PROVE  /\ Asleep(N) = Asleep(L)
         /\ \E i \in DOMAIN Ring(L, p) :
              /\ Ring(L, p)[i] = t
              /\ Rings(N) = [Rings(L) EXCEPT ![p] = Resumed(@, i)]
<1>1. PICK s : s = Ring(L, p) OBVIOUS
<1>2. PICK i \in DOMAIN s : s[i] = t BY <1>1, Seen
<1>3. s \in Seq(TCB) BY <1>1, RingGoesRound
<1>4. i \in 1 .. Len(s) BY <1>3
<1>5. \A q \in Level : Ring(N, q) = IF q = p THEN Resumed(s, i) ELSE Ring(L, q)
  BY <1>1, <1>2, <1>4, ReadyRemoveRings
<1>6. Rings(N) = [Rings(L) EXCEPT ![p] = Resumed(s, i)] /\ Rings(L)[p] = s
  BY <1>1, <1>5 DEF Rings
<1>7. WellFormed(N, QueueLeft(Q, p, t), S) BY ReadyRemoveWellFormed
<1>8. Asleep(N) = Asleep(L) BY <1>7, Seen
<1> QED BY <1>1, <1>2, <1>6, <1>8

\* A sleeper that is removed leaves the queues as they are.
LEMMA DropSeen ==
  ASSUME NEW L, NEW Q, NEW S, WellFormed(L, Q, S), NEW t \in S,
         NEW N, N = _listRemoveTask(L, t)
  PROVE  /\ Rings(N) = Rings(L)
         /\ t \in Asleep(L) /\ Asleep(N) = Asleep(L) \ {t}
<1>1. Rings(N) = Rings(L) BY ListRemoveRings, RingsSame
<1>2. WellFormed(N, Q, Left(S, t)) BY ListRemoveWellFormed
<1> QED BY <1>1, <1>2, Seen DEF Left

\* A task that has left its queue is nowhere.
LEMMA RemovedIsNowhere ==
  ASSUME NEW L, NEW Q, NEW S, WellFormed(L, Q, S), NEW p \in Level, NEW t \in Q[p]
  PROVE  Nowhere(t, QueueLeft(Q, p, t), S)
<1>1. PICK R : R = QueueLeft(Q, p, t) OBVIOUS
<1>2. Apart(Q, S) BY DEF WellFormed
<1>3. t \notin R[p] /\ \A q \in Level : q # p => R[q] = Q[q]
  BY <1>1, <1>2 DEF QueueLeft, Queues, Left, Apart
<1>4. t \in TCB BY <1>2 DEF Apart, Queues
<1> QED BY <1>1, <1>2, <1>3, <1>4 DEF Nowhere, Apart

\* A task that goes from its queue to the delayed list.
LEMMA SleepSeen ==
  ASSUME NEW L, NEW Q, NEW S, WellFormed(L, Q, S), NEW p \in Level, NEW t \in Q[p],
         NEW N, N = _listAddTask(_readyQueueRemoveTask(L, p, t), t)
  PROVE  /\ WellFormed(N, QueueLeft(Q, p, t), Joined(S, t)) /\ N.fault = L.fault
         /\ Asleep(N) = Asleep(L) \cup {t}
         /\ \E i \in DOMAIN Ring(L, p) :
              /\ Ring(L, p)[i] = t
              /\ Rings(N) = [Rings(L) EXCEPT ![p] = Resumed(@, i)]
<1>1. PICK M : M = _readyQueueRemoveTask(L, p, t) OBVIOUS
<1>2. PICK R : R = QueueLeft(Q, p, t) OBVIOUS
<1>3. WellFormed(M, R, S) /\ M.fault = L.fault BY <1>1, <1>2, ReadyRemoveWellFormed
<1>4. Nowhere(t, R, S) BY <1>2, RemovedIsNowhere
<1>5. N = _listAddTask(M, t) BY <1>1
<1>6. Rings(N) = Rings(M) BY <1>3, <1>4, <1>5, ListAddRings, RingsSame
<1>7. WellFormed(N, R, Joined(S, t)) /\ N.fault = M.fault
  BY <1>3, <1>4, <1>5, ListAddWellFormed
<1>8. Asleep(N) = Joined(S, t) /\ Asleep(L) = S BY <1>7, Seen
<1> QED BY <1>1, <1>2, <1>3, <1>6, <1>7, <1>8, RemoveSeen DEF Joined
==============================================================================
