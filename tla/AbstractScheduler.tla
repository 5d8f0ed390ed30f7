-------------------------- MODULE AbstractScheduler --------------------------
(***************************************************************************)
(* What the scheduler promises, without links, time or dynamic priorities.  *)
(* Every task is in one place: idle outside, waiting in the queue of its    *)
(* level, or asleep.  The first of a queue is the next of that level to     *)
(* run; it runs and goes to the back.  REALTIME comes first, IDLE last, and *)
(* nothing is promised about the levels between them.                       *)
(***************************************************************************)
EXTENDS Naturals, Sequences

CONSTANTS Task, IdleTask, Level, IDLE, REALTIME

TCB == Task \cup {IdleTask}

VARIABLES
  ready,     \* the queue of each level
  asleep,    \* the tasks in osDelay
  priority,  \* the level of each task
  running,   \* the task whose turn it is
  mode       \* "main" at boot, then "running" or "switching"

avars == <<ready, asleep, priority, running, mode>>

Queued(t) == \E p \in Level : \E i \in DOMAIN ready[p] : ready[p][i] = t

Outside(t) == ~Queued(t) /\ t \notin asleep

\* Without its i-th element, beginning with the one that followed it.
ResumeAfter(s, i) == SubSeq(s, i + 1, Len(s)) \o SubSeq(s, 1, i - 1)

----------------------------------------------------------------------------

Init ==
  /\ ready = [p \in Level |-> IF p = IDLE THEN <<IdleTask>> ELSE <<>>]
  /\ asleep = {}
  /\ priority = [t \in TCB |-> IDLE]
  /\ running = IdleTask
  /\ mode = "main"

Boot ==
  /\ mode = "main"
  /\ mode' = "running"
  /\ UNCHANGED <<ready, asleep, priority, running>>

SetPriority(t, p) ==
  /\ mode # "switching" /\ Outside(t)
  /\ priority' = [priority EXCEPT ![t] = p]
  /\ UNCHANGED <<ready, asleep, running, mode>>

Start(t) ==
  /\ mode # "switching" /\ Outside(t)
  /\ ready' = [ready EXCEPT ![priority[t]] = Append(@, t)]
  /\ UNCHANGED <<asleep, priority, running, mode>>

\* The running task ends a waiting task, or itself.
EndQueued(t) ==
  /\ mode = "running"
  /\ \E i \in DOMAIN ready[priority[t]] :
       /\ ready[priority[t]][i] = t
       /\ ready' = [ready EXCEPT ![priority[t]] = ResumeAfter(@, i)]
  /\ mode' = "switching"
  /\ UNCHANGED <<asleep, priority, running>>

EndAsleep(t) ==
  /\ mode = "running" /\ t \in asleep
  /\ asleep' = asleep \ {t}
  /\ mode' = "switching"
  /\ UNCHANGED <<ready, priority, running>>

Sleep ==
  /\ mode = "running"
  /\ LET p == priority[running]
     IN \E i \in DOMAIN ready[p] :
          /\ ready[p][i] = running
          /\ ready' = [ready EXCEPT ![p] = ResumeAfter(@, i)]
  /\ asleep' = asleep \cup {running}
  /\ mode' = "switching"
  /\ UNCHANGED <<priority, running>>

\* A tick, or a task that yields.
Preempt ==
  /\ mode = "running"
  /\ mode' = "switching"
  /\ UNCHANGED <<ready, asleep, priority, running>>

Wake(t) ==
  /\ mode = "switching" /\ t \in asleep
  /\ asleep' = asleep \ {t}
  /\ ready' = [ready EXCEPT ![priority[t]] = Append(@, t)]
  /\ UNCHANGED <<priority, running, mode>>

Run(p) ==
  /\ mode = "switching"
  /\ ready[p] # <<>>
  /\ ready[REALTIME] # <<>> => p = REALTIME
  /\ p = IDLE => \A q \in Level \ {IDLE} : ready[q] = <<>>
  /\ running' = Head(ready[p])
  /\ ready' = [ready EXCEPT ![p] = Append(Tail(@), Head(@))]
  /\ mode' = "running"
  /\ UNCHANGED <<asleep, priority>>

Next ==
  \/ Boot \/ Preempt \/ Sleep
  \/ \E t \in Task :
       \/ Start(t) \/ EndQueued(t) \/ EndAsleep(t) \/ Wake(t)
       \/ \E p \in Level : SetPriority(t, p)
  \/ \E p \in Level : Run(p)

Spec == Init /\ [][Next]_avars
==============================================================================
