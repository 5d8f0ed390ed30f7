------------------------------ MODULE ListWalks ------------------------------
(* What the links of a list record lead to, as sequences and sets.          *)
EXTENDS TaskLists, Sequences, FiniteSets

\* The control blocks are variables of a program.
ASSUME TasksAreFinite == IsFiniteSet(Task)

\* The control blocks met when following next from t, once each: to the end
\* of a list, or once around a ring.
Walk(L, t) ==
  LET from[s \in Seq(TCB) \ {<<>>}] ==
        LET nx == L.next[s[Len(s)]]
        IN IF nx \in {NULL, t} \/ Len(s) = Cardinality(TCB) THEN s ELSE from[Append(s, nx)]
  IN IF t = NULL THEN <<>> ELSE from[<<t>>]

\* One round of the ready queue of level p, beginning with the next to run.
Ring(L, p) == Walk(L, L.iter[p])

\* The tasks the delayed list reaches.
Asleep(L) == LET s == Walk(L, L.head) IN {s[i] : i \in DOMAIN s}

\* A linked task is met by following next from the iterator of its level if it
\* is READY, from the head of the delayed list if it is DELAYED, and by no other
\* walk; an unlinked task by none.
InOnePlace(L, taskState, taskPriority) ==
  \A t \in TCB :
    LET linked == L.next[t] # NULL \/ L.prev[t] # NULL \/ t \in {L.head, L.tail}
        queues == {p \in Level : \E i \in DOMAIN Ring(L, p) : Ring(L, p)[i] = t}
    IN /\ queues = IF linked /\ taskState[t] = "READY" THEN {taskPriority[t]} ELSE {}
       /\ t \in Asleep(L) <=> linked /\ taskState[t] = "DELAYED"
==============================================================================
