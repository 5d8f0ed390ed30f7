# f405_rtos: specification and verification

TLA+ models of the firmware in this repository, TLC configurations that check
them on small instances, and TLAPS proofs of what holds on every instance.

## 1. Inventory

The program is a preemptive kernel for one Cortex-M4 core (STM32F405), a USB
device stack with a virtual COM port, and a text console on top of it.

| Part | Source (`src/`) | State | Operations | Interacts through |
|---|---|---|---|---|
| Task lists | `src/scheduler_v2/scheduler.c` 42-133 | links inside each `Task_t`, `readyQueue[5].iter`, `delayedList` | link, unlink, rotate | called by the API (threads) and by `schedule()` (exception) without a lock |
| Scheduling | `scheduler.c` 273-394, `timebase.c` | dynamic priorities, `activeTask`, `_timestamp`, PENDSVSET | SysTick, PendSV | exceptions preempt threads, not each other |
| Kernel API | `scheduler.c` 136-270 | `state`, `staticPriority`, `nextExecTimeUs` of each task | osInitTask, osStartTask, osKillTask, osDelay, osYield, osInit, osStart, return of a task function | called from `main`, then from tasks |
| Time base | `timebase.c`, `common/atomic.h` | 64-bit `_timestamp` | osTime under a PRIMASK guard | written by SysTick |
| USB device core | `drivers/usb/usb.c` | per-endpoint transfer pointers, `lastRequest`, `addressToSet` | InitiateTransfer, InitiateReception, interrupt handler | interrupt against threads; callbacks |
| USB standard requests | `drivers/usb/usb_stdreq.c` | configuration, address | SET_ADDRESS, GET_DESCRIPTOR, GET/SET_CONFIGURATION | called by the interrupt handler |
| Virtual COM port | `drivers/usb_vcp/usb_vcp.c` | two ring buffers, `txBusy` | read, peek, write; reception and transmission callbacks | threads against the USB interrupt |
| Console | `console/console.c` | line buffer, parameters | console_process | polls the COM port |
| Scheduler, version 1 | `scheduler_v1/scheduler.c` | queues of tasks | a superset with suspend and resume | excluded from the build (`.cproject`) |
| System | `system/*.c`, start-up, linker scripts | heap break, clocks | `_sbrk`, fault handlers | |

What is hard about it: tasks and exceptions share the lists without masking
(every call of the API can be cut in two by a tick); SysTick wakes and switches
tasks while another one is in the middle of a call; the time base wraps;
dynamic priorities saturate; the ring buffers are shared with an interrupt; a
bus reset can come in the middle of a transfer. `PROJECT.json` lists each
hazard at its line with the property that covers it, or says why none does.

What makes each part correct:

* **lists**: a task is in exactly one place, and its `state` and
  `staticPriority` say which; every ready queue is one ring that its iterator
  points into; the delayed list runs from head to tail;
* **scheduling**: REALTIME first, IDLE last, every other level served again and
  again; round robin inside a level; no task sleeps past the tick it is due;
  there always is a task to run;
* **API**: each call has its effect as a whole, and a task is never lost;
* **time**: a delay never ends early, and never fails to end;
* **COM port**: bytes come out in the order they went in, none is lost but by a
  full buffer, what is written is sent, and a call tells how much it has stored;
* **USB**: one data stage per request, in order; a reset leads back to a state
  in which enumeration works;
* **console**: the screen shows the line that will be executed, no parameter
  leaves its range, a number is taken for itself or refused, and what is shown is
  what is stored. (All but the second hold with exceptions: see section 3.)

## 2. Modules

| Module | Models | Checked by |
|---|---|---|
| `TaskLists` | the list helpers, as functions of one record of links | through the modules below |
| `ListWalks` | what following `next` leads to (no code of its own) | - |
| `SchedulerCore` | SysTick_Handler, PendSV_Handler, schedule, osInit, osStart | through the modules below |
| `Scheduler` (EXTENDS `SchedulerCore`) | the API, one step per call, and its properties | `sched_lists`, `sched_fair` |
| `AbstractScheduler` | what the kernel promises: a sequence per level, a set of sleepers | as the target of refinement |
| `SchedulerRefinement` | the mapping from `Scheduler` to `AbstractScheduler` | `sched_lists` |
| `PreemptedCalls` (EXTENDS `SchedulerCore`) | osDelay, osStartTask, osKillTask, one statement at a time | `preempt_points`, `preempt_anywhere` |
| `MCScheduler`, `MCPreemptedCalls` | values of the constants for TLC | |
| `UsbEndpoints` | the transfers of `usb.c`: what one endpoint's variables and registers go through | through the next two |
| `UsbVcp` (EXTENDS `UsbEndpoints`) | the ring buffers and endpoint 2: task and interrupt, statement by statement | `vcp_stream`, `vcp_reset`, `vcp_return`, `vcp_overrun` |
| `ByteStream` | what the port promises in one direction: a bounded queue | as the target of refinement |
| `UsbDevice` (EXTENDS `UsbEndpoints`) | endpoint 0: the interrupt handler, standard and class requests, host, bus reset | `usb_control`, `usb_reset` |
| `Console` | the line editor, the commands, conversions and ranges | `console`, `console_print` |
| `MCUsbDevice`, `MCConsole` | values of the constants for TLC | |
| `UsbVcpProofs` (EXTENDS `UsbVcp`) | TLAPS theorems about `UsbVcp` | tlapm |
| `ConsoleProofs` (EXTENDS `Console`) | TLAPS theorems about `Console` | tlapm |
| `TaskListsProofs` (EXTENDS `ListWalks`) | TLAPS lemmas: the order each list helper leaves, what walks meet, and what each helper does to a ring | tlapm |
| `SchedulerCoreProofs` (EXTENDS `SchedulerCore`, `TaskListsProofs`) | TLAPS lemmas about the exceptions, for the next three | tlapm |
| `SchedulerProofs` (EXTENDS `Scheduler`, `SchedulerCoreProofs`) | TLAPS theorems about `Scheduler` | tlapm |
| `SchedulerRefinementProofs` (EXTENDS `SchedulerRefinement`, `SchedulerProofs`) | TLAPS theorems: the refinement | tlapm |
| `PreemptedCallsProofs` (EXTENDS `PreemptedCalls`, `SchedulerCoreProofs`) | TLAPS theorems: calls taken one statement at a time | tlapm |
| `UsbDeviceProofs` (EXTENDS `UsbDevice`) | TLAPS theorems about `UsbDevice` | tlapm |

### How the state corresponds to the code

`lists` is a record of every pointer of the structure: the `next` and `prev`
fields of all control blocks, the five iterators, `head` and `tail`. Its field
`fault` stands for C's undefined behaviour: it is set when the code would
dereference NULL or index `readyQueue` out of bounds, and nothing happens after
that. `state`, `staticPriority` and `nextExecTimeUs` are functions from control
blocks to the fields of that name; a control block that was never used holds
zeros, as static memory does.

`cpu` says what the processor executes. In `"main"` the timer is not running
yet. In `"thread"` it executes `activeTask`, unless `pendsv` is set: SysTick,
PendSV and SVCall have the same, lowest, priority, so a pending PendSV is taken
before the thread executes anything and before the next SysTick (its exception
number is lower), and neither interrupts the other. In `"schedule"` it is inside
PendSV_Handler. The walk of `schedule()` over the delayed list is one step per
task (`WakeExpired`, with `cursor` as the loop variable) and one for the rest
(`Dispatch`). No other action is enabled in between, so the division adds no
behaviour; it keeps every action free of recursion, which the proofs need.

A task that computes takes no step, and what it computes is not modelled. The
idle task is an empty loop.

Time counts in units in which a tick is `US_PER_SYS_TICK` and a millisecond
`US_PER_MS` (both 1000 in the code), modulo `TimeMod` (2^64 in the code).
`TIME_A_AFTER_B` is the sign of the difference in that arithmetic.

An endpoint of `UsbEndpoints` is one record: `TxData`, `TxDataLeft` and their
companions (or `RxData` and its own), and the few register bits that the
driver moves: enabled, NAK, bytes to send, the FIFO, the transfer-complete
flag, the endpoint's bit of DIEPEMPMSK. Its operators map the record a function
or a branch of the handler finds to the record it leaves. What the OTG core does
is modelled from how the driver uses it and marked external in `PROJECT.json`.
A FIFO has `FIFO_WORDS` words, and a packet waits in `LoadDataIntoTxBuf` until there
is room for it (`HasRoom`). The pointer of a buffer moves by whole words, which
decides what a handler is handed. `count` is PKTCNT. `ENDPOINT` matters for nothing
but a transfer of length zero: on endpoint 0 it is one packet, on any other the
code programs no packet at all. What the core does then no part of the repository
says: the host may get the empty packet that follows a full one on endpoint 2, or not
(`HostReadsEmpty`, which is not fair), and an OUT endpoint that was told to take no
packet takes an empty one, without which no control transfer to the host would end.
Wire-level retries and the descriptors' contents are left out.

In `UsbVcp` the task takes one statement of VCP_writeBytes, VCP_write,
VCP_readBytes and VCP_read at a time (`pc`), and each branch of USB_IRQ_Handler
that serves endpoint 2 is one step, possible between any two statements. Bytes
are numbered. Four history variables serve the properties: `packet` (what the host
has sent last), `stored` (bytes stored by the call), `unread` (of the packets of
the host, what there was room for and has not been read; it does not look at what
the callback is handed) and `primed` (since the last configuration a call has found or
started a transfer). Two constants say when interrupts come: `ResetPoints` ("idle": a reset, and
SET_CONFIGURATION to a configured device, only between transfers) and `ReceptionPoints`
("harmless": no packet longer than the room left is handled while rxBufTail is past the
end of the buffer). `connState` is only CONFIGURED or not: all that the port asks for.

In `UsbDevice` one step is one branch of the handler: the FIFO level, the OUT
endpoint with SETUP, the IN endpoint, the reset, in that order, with the core
and the host going on in between. `lastRequest` is the request that waits
to be handled. The host follows the protocol, one control transfer at a time,
and keeps its own view (address, configuration, line coding and line state) that
the device's is compared with.

In `Console` a step is one key. A key is a character or a word; a number is what
`IntegerText` and `FloatText` say a word stands for, integers have `WIDTH` bits,
floats are counted in units of the last digit of `%f`. A float is one of `Floats`: `strtof`
rounds to the nearest, and to `INFINITY` beyond the greatest; it is known by the
number that `%f` prints, so floats closer together than its last digit are one.
Every key but Backspace and Enter goes into the line, as in the code. Those of
`Controls` do not take one column: TAB (also a blank between words), NUL (ends the string it
is in: `CString`) and ESC, which stands for all that a terminal gives no column. `screen` is
the row of the terminal, whose tab stops are every `TABSTOP` columns up to `COLUMNS`;
the row does not wrap. `write` is a recursive function rather than a fold, whose operator
argument the provers cannot instantiate. What a command writes (values, lists, help, errors)
is whole lines, `Answer`; its words are left out. Two history variables: `typed`
remembers the last value that was set, and `plain` says that no key of `Controls` was
typed since the prompt.

### What the application is assumed to do

`Calls`, `Priorities` and `Delays` are the workload. In every run a task is
initialised or started only while it is linked nowhere (a control block in use
must not be reused), no READY task is killed that is not linked, and priorities
have a queue (osStartTask refuses those above 5; section 6 has what it does with 5).
API calls that change the lists are made from `main` only before `osStart`. Interrupt handlers do not call the API.

The module `Scheduler` has the behaviours in which no tick arrives inside a call.
`PreemptedCalls` has the others, with `TickPoints`, the statements before which a
tick may arrive, as a constant. Its granularity is the C statement (a condition is one of
its own: `_readyQueuePushTask` reads `queue->iter` twice, in lines 80 and 87).

One task uses the COM port, as `main.c` does. Sending and receiving are explored
separately (`Applications`): they share nothing but the task and `connState`. The host
asks for the requests that the code handles; for any other the firmware ends in
a breakpoint. Addresses are below 128, and GET_LINE_CODING asks for the whole
line coding. The console's parameters have different names, and start with values
of their types within their ranges (a string within its length); commands of the
application write whole lines.

## 3. Runs

`sched_lists` - three tasks, levels LOW and REALTIME, delays of 0 and 1 tick,
every API call, base priorities scaled so that the limit is reached within a few
dispatches (limit 5, REALTIME 6), a time base of 4 ticks so that it wraps all
the time. Checks:
  * `TypeOK`;
  * `LinksOK`: rings closed, delayed list closed from head to tail, iterators
    inside their own ring and NULL only for an empty level;
  * `RunningIsReady`: the task that executes is in its ready queue, which
    osDelay and taskExitHandler rely on without looking;
  * `NeverFaults`: no NULL is followed, and there always is a task to run;
  * `NoneOverdueAtDispatch`, `OverdueOnlyWhileScheduling`: the walk misses no
    expired task although it unlinks tasks on its way, and nobody oversleeps,
    across the wrap of the time base;
  * `DynamicPriorityBounded`, `StrictAtBothEnds`: saturation keeps REALTIME on
    top and IDLE at the bottom;
  * `EveryTaskInOnePlace`: walking the lists finds each task where its state says;
  * `Implements`: every step is a step of `AbstractScheduler` or none of its business.

`sched_fair` - three tasks on LOW, MEDIUM and HIGH, with the code's own base
priorities and limit, under fairness. `AgingBounded`: a waiting level is passed
over at most 5 times (5 is exact: 4 is violated). `NoStarvation`: every task that
is in the system runs again and again. Applications with REALTIME tasks are out
of this run's premise, and so are tasks that end: section 6 says why. Delays are
of zero ticks here (the task sleeps until the next tick).

`preempt_points` - two tasks on the IDLE and LOW levels, where the idle task
makes rings of three; ticks outside calls, before a call's first look at a list
and after its last write. `ImplementsAtomicCalls`: the calls are then as good as
the single steps of `Scheduler`: they implement `AbstractScheduler` too.
`AtRestInOnePlace`: a call that has ended has moved its task completely.
`NeverEarly`: a task is back from osDelay(d) only after more than d ticks, even
if ticks arrive between reading the time and sleeping. So what `Scheduler`'s runs
show of whole calls holds of the code wherever ticks stay out of the window
between those points, and the next run shows that the window is real.

`preempt_anywhere` (violation) - ticks between any two statements of osDelay.
`DelayEnds` fails: cut between leaving the ready queue and entering the delayed
list, the task is in no list and never runs again. The comment above osDelay
suspects as much. A tick between the reads and the stores of `_readyQueueRemoveTask`
alone is enough as well; section 6 lists the other places in that window.

`vcp_stream` - buffers of 4 bytes, packets of 2, calls of 1 and 3 bytes: the
buffer fills, wraps and is cut in the middle of a call. Bus resets, SET_CONFIGURATION
and its opposite come between transfers. Checks:
  * `TxIsAStream`: what is written implements `ByteStream`, so bytes reach the host
    once each and in order, whoever starts the transfers;
  * `NothingStranded`, `WrittenIsSent`: no wake-up is lost between the check of
    txBusy and the transfer-complete callback, and what is written is sent;
  * `ReadsWhatWasReceived`: the reader gets the bytes that the host has sent, in order,
    and never the filler of an empty buffer, although VCP_read moves rxBufTail past
    the end of the buffer for a statement. In this run no packet that is longer than the
    room left is handled at that statement (`ReceptionPoints`);
  * `HostMaySendAgain`: a full buffer never blocks the host.

Bytes written before the host configures the device are not promised anything
before the next call (`primed`): the end of the configuration starts no transfer.

`vcp_reset` (violation) - the same with resets and SET_CONFIGURATION at any time. A
reset, or a repeated SET_CONFIGURATION, between the start and the end of a transfer
leaves TxData set: the port is busy for ever, also after the host has configured
the device again.

`vcp_return` (violation) - VCP_writeBytes returns one more than it has stored, so
VCP_write, which asks for 0, returns 1 for a byte that did not fit.

`vcp_overrun` (violation) - without the premise of `vcp_stream`: a packet that does not
fit, handled while rxBufTail is past the end of the buffer, is stored whole, over bytes
that have not been read.

`usb_control` - packets of 2 bytes, descriptors of 1, 2 and 3, requests for 0, 2
and 4 bytes; every request the code handles, in any order, with resets between
two passes of the handler, when nothing is pending. Checks:
  * `DataStageExact`: the host gets what it asked for, or all there is, also if a
    length is a multiple of the packet size and an empty packet must end it, and
    also after a transfer that a reset cut off;
  * `ViewsAgree`: address, configuration and line state are the same on both sides;
  * `RefusedAsExpected`: exactly the requests that must be are stalled;
  * `EveryTransferEnds`.

`usb_reset` (violation) - a reset at any time. If the end of a packet is handled
in the same pass, the handler asks for the next packet, flushes it, and
loads it in the next pass behind the back of the following transfer:
`OnePacketAtATime` fails.

`console` - a parameter of each type with and without a range, a buffer of 8
keys, 4 tokens, integers of 4 bits, floats of 3 bits; numbers at and beyond every
limit; lines with tabs, zero bytes and a key too many; the user corrects them as they
please. Checks:
  * `InListedRange`: the ranges that list prints hold, also of floats, which are
    rounded before they are compared (NaN passes both comparisons of
    set_parameter_value and is excepted);
  * `StringFits`: the maximum length that list prints counts the terminating zero;
  * `AcceptedAsTyped`: a number that is accepted is the number that was typed, if the
    range leaves out the values that strtol and strtoul saturate to, and the number
    for a uint32 is not negative;
  * `ShownSetsBack`: what get prints can be given to set, which leaves an int32, and
    a uint32 below 2^31, as it is; a finite float has lost its last digit;
  * `ScreenShowsLine`: as long as only keys of one column have been typed since the prompt,
    the row shows what Enter will execute; after Enter it does so again.

`console_print` (violation) - a uint32 from 2^31 on is shown as a negative number.

### Bounds

Three tasks and the idle task give every shape of ring and list that the helpers
distinguish: removal of the head, middle, tail and only member, and a neighbour
on each side that is not the task itself. A delay must be shorter than half the
time base, as in the code, so `TimeMod` is 4 for delays of one tick and 2 for
delays of none. Nothing else is bounded: time wraps and dynamic priorities
saturate by themselves, so the state spaces are finite without constraints.
Symmetry is used where only safety is checked.

The ring buffers of `vcp_stream` hold 3 bytes, more than a packet and less than
two: every order of head and tail, full and empty, and transfers of a whole
and of a part of a packet occur. `NumBytes` exceeds the bytes that can be on
their way (3 + 2), so their numbers are distinct, and `WrittenIsSent` speaks of
byte 0 for any byte. In `usb_control` the descriptors take one packet, exactly
one, and one and a half, which with the requested lengths gives every way a
data stage ends. A FIFO takes 4 words, and a packet 1, so that there is room for more
than a packet, as in the code (64 words for packets of 16). Integers of 4 bits wrap
and saturate as those of 32 do; floats of 3 bits with four exponents are exact, rounded and infinite. There are two tab stops, so that a
tab behind the last one occurs. (`console` takes lines for a string of one character: a
longer one only adds states.)

The deadlock
check is on in every passing run: a system with a timer never stops, a host may
always reset the bus, a user may always type. It is off
in `preempt_anywhere`, where the corrupted lists may also lead to a
NULL pointer, at which the model stops.

### Fairness

`UsbVcp`: a task that is in a call goes on with it (the scheduler starves nobody
the runs above speak of), a pending interrupt is taken, and a host polls a device
it has configured; nobody has to write, send, reset or configure. `UsbDevice`: the
interrupt is taken, and a host goes on with a transfer it has begun. All of it is
weak fairness.

`ExceptionFairness`: SysTick is a free-running timer whose request stays pending
until it is served, so it is strongly fair (a task that yields all the time makes
it wait, not vanish); a pending PendSV and the steps of its handler are weakly
fair. Threads are not fair: a task may spin for ever. `PreemptedCalls` adds that a
task which is dispatched again and again gets through its call (strong fairness
of its next statement), since a tick is many instructions long.

## 4. Proofs

### The scheduler

The theorems hold for every set of tasks, every workload (`WorkloadAssumption`),
every table of base priorities (`DynPriorityAssumption`) and every even time base
(`TimeAssumption`); `TasksAreNotNull` says that control blocks are not NULL. They
are about `Scheduler`, whose calls are single steps. `PassedOverAtMostFiveTimes`
alone is about one table, the code's.

| Theorem | States |
|---|---|
| `TypeCorrect` | `TypeOK` |
| `LinksHold` | `LinksOK` |
| `RunningTaskIsReady` | `RunningIsReady` |
| `NoFaults` | `NeverFaults`, if `Priorities` are levels and no unlinked task is killed |
| `PriorityBounded` | `DynamicPriorityBounded` |
| `Strict` | `StrictAtBothEnds` |
| `PassedOverAtMostFiveTimes` | `AgingBounded`, if the base priorities are 1, 2 and 3 (`CodeBase`: the code's) and the limit is at least 8 (254 in the code) |
| `WalkMissesNobody` | `NoneOverdueAtDispatch` |
| `NobodyOversleeps` | `OverdueOnlyWhileScheduling` |
| `OnePlace` | `EveryTaskInOnePlace` |
| `Refinement` | `Implements`, if `Priorities` are levels and no unlinked task is killed |

`TypeOK` is inductive as it stands, because the helpers are total: following
NULL, or an index out of bounds, gives a faulted record.

`LinksOK` is not inductive. Its conjuncts speak of a task and its neighbours,
and two rings on one level satisfy them; removing the iterator's task from a
ring of one would then leave the other ring without an iterator. The inductive
invariant has to say that the tasks of a level form *one* ring. This is done
without walking the ring (no induction): `RingOrder` asks for *ranks*, numbers
that increase along `next` from the iterator on, with no member between two
neighbours, so that only the last member can lead back to the first.
`ListOrder` is the same for the delayed list. `WellFormed(L, Q, S)` says that the
links L hold the rings Q[p] and the list S in such an order, disjoint, and every
other task nowhere.

`TaskListsProofs` gives for each helper the ranks it leaves: a pushed task comes
last (`RingPush`); when the iterator moves, so does the task it leaves
(`RingIterate`); when a task is removed, the order begins behind it (`RingRemove`);
in the delayed list the ranks of the others stay (`ListAdd`, `ListRemove`). The
lemmas `PushWellFormed`, `ReadyRemoveWellFormed`, `IterateWellFormed`,
`ListAddWellFormed` and `ListRemoveWellFormed` lift this to the whole structure.

`SchedulerCoreProofs` then has one lemma per exception, and `SchedulerProofs` one per
call of the API, that `Consistent` is kept: each
task is in the ring or the list its `state` and `staticPriority` say, the idle
task in its own (hence there is always a task to run), the cursor of the walk on
a sleeping task or NULL, and the executing task in some ring. The same lemmas
show that a step faults only outside `Allowed`, which gives `NoFaults`. Both its
premises are needed: osKillTask (line 110) and the check of osStartTask (line 171) do not
make sure of them (section 6).

`DynamicPriorityBounded` is strengthened by "the idle level has none" in
`PriorityInv`. It rests on the choice of the queue: REALTIME could not stay at its
base, above the limit, if it ever had to wait, and `ActiveQueue` shows that it
does not. `Strict` combines it with `Consistent`, by which the task under the
iterator of a level has that level's priority.

`AgingBounded` is not inductive: how soon a level overtakes those above it depends
on how long these have waited themselves. `WithinReach` relates the three counts: LOW
is passed over at most 5 times, MEDIUM 3 and HIGH once; MEDIUM at most once
if LOW has been twice; and if HIGH has been, either MEDIUM has not and LOW at most 4
times, or LOW has not and MEDIUM at most twice. `AgingTurn` shows that the choice
of schedule() keeps this, case by case of the level it chooses. No reachable state
saturates (hence the limit of 8: the counts stand for priorities up to 8), and only
a dispatch changes the counts: a level that runs empty keeps its priority until then.

That nobody oversleeps is the invariant `OnTime`: while a thread executes no sleeper
is expired, and while `schedule()` walks every expired sleeper is still `Ahead` of
the cursor. The ranks of `ListOrder` say what "ahead" means. `WalkGoesOn` moves the
cursor; `WakeKeepsTheWalk` is the heart: a removed task takes its successor along
(the loop has read it before), and those ahead keep their ranks. Between two ticks
no task expires, because the time stands still and a new sleeper ends in PendSV.
`AfterIsPast` reads TIME_A_AFTER_B as a distance on the circle of the time base: a
task that is overdue is also expired, across the wrap.

`Refinement` and `OnePlace` speak of the walks themselves (`Ring`, `Asleep`), for
every finite set of tasks (`TasksAreFinite`: control blocks are variables of a
program). `Walk` is a recursive function. Its equation is shown to have a solution,
one that is not recursive (`Completed`: continue as the path from here that
stops), and what holds along a path is shown by taking the least place where it
fails. So `WalkMeetsAll`: on links in a `RingOrder` the walk meets each
member once and comes back. Each helper then becomes an operation on sequences:
`PushRings` appends behind the others, `IterateRings` moves the first to the end,
`ReadyRemoveRings` takes one out and goes on behind it, the list helpers leave the
rings alone. `Refinement` has one lemma for each abstract action (`StartSimulated`,
`SleepSimulated`, `WakeSimulated`, `EndSimulated`, `RunSimulated`...), and one for the
steps that change nothing the abstract specification sees. It needs `RInv`: no
fault (hence its premises), the bound of the idle level, and that PendSV is pending
only while a thread executes.

### Calls cut in pieces

`Scheduler` has calls that are single steps; `PreemptedCalls` takes them one statement at
a time. The theorems are for every set of tasks, workload, table of base priorities
and time base, and for ticks at points that are harmless (`TickPoints` within
`HarmlessTickPoints`: outside calls, before a call's first look at a list, after its
last write). `preempt_anywhere` shows that without this premise a task can be lost.

| Theorem | States |
|---|---|
| `PreemptedTypes` | `PTypeOK` |
| `PreemptedInOnePlace` | `AtRestInOnePlace` |
| `PreemptedRefinement` | `ImplementsAtomicCalls` |
| `DelaysLastLongEnough` | `NeverEarly`, if a tick is at most a millisecond (both are 1000 us in the code) and delays are shorter than half the time base |

Inside a call the lists are neither what they were nor what they will be, so nothing
like `Consistent` holds of them. It holds of `settled`, the lists when a call was last
completed or left (`Settled`), and the lists are described by what they have in
common with those: `Midway` has, for every statement of every helper, the stores that
separate `lists` from `settled` (`Collapsing`, `Collapsed`, `Skipped`, `Forgotten`... for
_readyQueueRemoveTask, `Entered` and `LooksBack` on for _readyQueuePushTask,
`AtTail` on for _listAddTask, `CutOff` on for _listRemoveTask), and what the locals
have been read from (`Known`). `Untouched` says that before the first of these the
two are equal: only there, and after the last, may a tick arrive (`Control`). `PInv`
is the types, `Control`, `InCall` (the executing task is `Midway`; every other task that
is in a call waits at a harmless point) and `Settled`.

That all stores of a helper together are what the helper is as a function
is stated by `RemoveAddsUp`, `PushAddsUp`, `PushAddsUpAlone`, `AddAddsUp` and `DropAddsUp`,
including the cases in which a neighbour is the task itself or both neighbours
are the same. A statement before the last keeps `settled`, so it is a stutter of
`AbstractScheduler`; the last one is the abstract call, by the lemmas about rings that
`Refinement` uses too. The calls end in different ways: osStartTask with its last
store (`StartCompleted`), osDelay and osKillTask when they yield or a tick does it for
them (`LeftDelayed`, `LeftTaken`, `LeftDropped`), since the task must not run again
after that. No premise about killed tasks is needed, unlike above: the
guards of `PreemptedCalls` are the application's.

`NeverEarly` needs `AllPunctual` besides: for a task in osDelay, the time is the one the
call has read and a tick for each it has counted, until it has counted more than the
delay (`TimeAfter`, modulo the time base); nextExecTimeUs is what `WakeUpTime` says once
it is stored; and once the task is asleep, it is READY only after the delay.
`NotYetPast` is why schedule() does not wake it before: the two times are less than half
the circle apart. `ReturnsInTime` closes the circle: a task that executes is in a
ring of the settled lists, so it is READY.

### The COM port

For every size of buffer and packet (`VcpAssumption`, `PacketAssumption`: the
buffer is larger than a packet, NULL is no number), every workload and both
directions at once:

| Theorem | States | If |
|---|---|---|
| `TypesCorrect` | `TypeOK`: no index leaves its buffer | |
| `ReceptionInOrder` | `ReadsWhatWasReceived` | resets come between transfers, and no packet longer than the room left is handled while rxBufTail is past the end |
| `NoneStranded` | `NothingStranded` | resets come between transfers |
| `TransmissionIsAStream` | `TxIsAStream`, the refinement of `ByteStream` | resets come between transfers |

`vcp_overrun` shows that `ReceptionInOrder` needs the second of its premises (for the
first see section 6), and `vcp_reset` that the premise is needed for what follows from
the last two.

The types are split into `TxType`, `RxType` and `TaskType`. They say besides
that a packet to be loaded is all of `txTmpBuf` from its beginning, and that
the bytes handed over are in `rxTmpBuf`: without it, what the FIFO gets is not a
byte. `Counted` follows `bytesLeft`, which is decremented before it is tested.

`NothingStranded` is not inductive. `Wakes` adds why a transfer wakes whoever
waits: it has the callback as its handler (data and handler are NULL together), it
ends because the device stays configured while it lasts, and the call that has seen
the port idle has either started one or left nothing in the ring when it returns.

For the stream, `Shape` says what an endpoint holds at each stage of a transfer
(nothing, to be loaded, loaded, sent), and `InPlace` that there is no transfer while
the task starts one. Then `TxPending` is one chunk followed by the ring
(`PendingSplit`). The lemmas `RingStore`, `RingPublish`, `RingTake` and `RingFill` say
what the operations on indices do to the sequence in the ring: nothing, append
one, drop some, append some. They need only that an index is wrapped at
most once, and no induction.

For the receiving side, `RxInPlace` compares `unread` with the ring from the
*wrapped* tail, so that the statement in which rxBufTail is past the end
of the buffer needs no case of its own. `StoredValue` is the heart: a packet is cut exactly
where the buffer is full, but never while rxBufTail is past the end, because no
next index equals it then; hence the second premise. `Arriving` follows the host's packet
through FIFO and rxTmpBuf to the callback (`HandedOver`): what is handed over is what was
sent, because RxDataReceived is zero whenever a packet arrives; hence the first.

### Control transfers

For all descriptors, lengths asked for, and sizes of packets and words
(`DeviceAssumption`, `PacketAssumption`; `NullAssumption`: the buffers are distinct, and
NULL is not one of them, nor a function or a request):

| Theorem | States | If |
|---|---|---|
| `Types` | `TypeOK` | |
| `DataExact` | `DataStageExact` | resets find the handler at rest |
| `Agreement` | `ViewsAgree` | resets find the handler at rest |
| `Refusals` | `RefusedAsExpected` | resets find the handler at rest |

`usb_reset` shows why the premise is there: with a reset between two branches of one
pass the next transfer may begin with a packet of the last.

None of the three properties is inductive: they speak of the end of a transfer. The
inductive invariant `Inv` says how far a transfer is. `Phase` has one disjunct for each
stage that both sides can be in together: the SETUP packet in the FIFO (`InFifo`), read
(`Fetched`), refused (`Refused`); a packet to be loaded, loaded, or acknowledged
(`ToLoad`, `ToSend`, `Acknowledged`); the empty packet that ends a short transfer
(`EndingShort`); the same for data from the host (`Receiving`, `Arriving`, `Storing`);
the status stages (`AwaitingStatus`, `AnsweringStatus`); `AtRest` and `Resetting`.
`Stream` splits what the request is answered with into three: the bytes the host
has got, the packet under way, and what `TxDataLeft` and the pointer into the buffer
still stand for. The number of packets that USB_EP_InitiateTransfer computes is
`Packets` of the bytes left, the pointer moves by whole words (`WholeWords`), and
the transfer ends with an empty packet exactly if the host expects one. `Known`
relates what either side remembers between transfers.

The lemmas go from the record to the system: `TransferStarts`, `PacketLoads`,
`PacketFollows`, `ReceptionEnds`... say what an operator of `UsbEndpoints` does to an
endpoint, `SetAddressOutcome`, `GetDescriptorOutcome`... what a request handler leaves
(refused, or granted with a buffer and a length), and `RxStep`, `OutStep`, `InStep`,
`ResetStep`, one per branch of USB_IRQ_Handler, and `SetupStep`, `ReadsDataStep`,
`SendsStatusStep`..., one per action of the host, that `Inv` is kept.

### The console

For every set of parameters and commands, sizes of the buffers, width of an integer and
sequence of keys:

| Theorem | States |
|---|---|
| `TypeCorrect` | `TypeOK` |
| `RangesHold` | `InListedRange` |
| `StringsFit` | `StringFits` |
| `NoNumberForAnother` | `AcceptedAsTyped` |
| `ShownIsSetBack` | `ShownSetsBack` |
| `TerminalShowsLine` | `ScreenShowsLine` |

Assumed of the application: a parameter starts with a value of its type and within
its own limits (`ParametersAssumption`), a word stands for an integer or NaN
(`NumeralsAssumption`), the keys Enter and Backspace are no characters
(`KeysAssumption`), infinity is a float, beyond which there is none (`FloatsAssumption`). `PowerAssumption` is a fact of arithmetic that the provers do
not compute.

*Values.* `SameNumber` is the argument of `NoNumberForAnother`: saturating leads out of a
range that leaves out the greatest value (and for an int32 the least), and numbers that
are not negative do not wrap. `Nearest`: what rounding gives is a float, all that
`RangesHold` needs of it, since the range is checked after rounding. `LineFits` is needed because the
command is copied into a buffer of the same size before it is cut into tokens.
`ValuesFit` is the inductive invariant of `TypeCorrect` and `StringsFit`. A string that is
set is a word of the line, so it takes `TokensAreText`: every word that strtok finds
consists of keys of the line, and `CopyFits`: what strcopy leaves, cut at a zero byte or at
the end of the room, is a text of keys. `TokenIsText` finds the end of a word as the least
place of its kind, and `Ranked` the n-th word by counting the starts before it, both
without induction. `ShownBack` then goes through the types: `UnsignedBack` (below
2^(WIDTH-1), where signed and unsigned agree), `SignedBack`, and `FloatBack`: cutting the
last digit moves a float towards zero by less than ten, and rounding what is left by no
more than that, since the float itself is a candidate. If the limits have one digit less
themselves, it stays between them: rounding leaves no range whose limits are floats
(`NearestStays`).

*The terminal.* `Shows(s, l)` is the inductive form of `RowShows`: it also says
that the row consists of keys of one column, and the cursor is in it or
behind it. `Displayed` has it while the line is `plain`, and else only that the screen is
one (`Screens`): a tab or an escape leaves that true (`TabStays`, `WriteStays`), and no more is
needed, since Enter begins a new row. A key (`TypeShows`) and a backspace (`BackspaceShows`) are one
and three writes. Enter writes a text of any length: `EnterShows` rests only on its last
keys, since `CommandOutput` shows that all that a command writes is empty or ends
with the end of a line (`EndsLine`), after which the row is empty. `write` goes through a
text by recursion; `RecursionExists` shows that such a
function exists, by looking at the least place up to which there would be none, and
`WriteUnrolled` gives the state of the terminal after each key. A plain line has no zero
byte, so the command is the line (`PlainCopied`).

### Not proved

Every safety property that a passing run checks is stated by a theorem. Liveness is
out of the prover's reach and left to TLC: `NoStarvation`, `DelayEnds`, `WrittenIsSent`,
`HostMaySendAgain`, `EveryTransferEnds`.

## 5. Plan

1. Done: lists, kernel, API, refinement, preempted calls; COM port with its
   refinement; control transfers; console; the theorems of section 4.
2. Proofs that are left: what `AgingBounded` becomes for other tables of base
   priorities, a bound in terms of their ratios.
3. Models that are left: endpoints 0 and 2 in one module, for the mask that both
   modify (section 6).

## 6. Not modelled, and known limits

* Registers, stacks and the FPU context; what PendSV_Handler stores where.
* A tick between `timebase_init` and `svc 0` in osStart, and osYield or osKillTask
  called before osStart (PendSV would save a context through an unset stack
  pointer).
* `OS_USE_TIME_SLICING` set to 0: `#elif` without a condition in `schedule()` does
  not compile.
* Ticks within one C statement: `PreemptedCalls` has them between statements.
* Starvation that no document rules out: REALTIME tasks that use the processor for
  so long that all other levels saturate, after which the static priority alone
  decides between them; and tasks that end and restart each other, each being
  linked just behind the one that started it. `NoStarvation` is stated for
  applications without either.
* DIEPEMPMSK is read, modified and written by the task and by the interrupt;
  each of `UsbVcp` and `UsbDevice` has its own endpoint's bit only, so a lost update
  between the two endpoints (`usb.c` 186) is not seen.
* The set-up of the core in USB_init and USB_OTG_SetMode is the initial state;
  interrupts that call empty handlers (SOF, suspend, enumeration done) are left out.
* The console and the COM port are not composed: output that finds the buffer full
  is lost, since the console does not look at what its `write` returns.
* How numbers, names and descriptions are spelled; `-0.0`; floats that differ by less
  than the last digit of `%f`; rows longer than the terminal is wide.
* A NaN passes the range check of a float parameter (`console.c` 145): no document
  speaks of it, and `InListedRange` excepts it by name.
* Time base: osTime reads two words under ATOMIC_NOIRQ; the rest of the program
  shares nothing with these two loads, and `Scheduler` has the time as one number.
* Disagreements between code and documents that have no run of their own, and the constants
  with which TLC shows them:
  - `osKillTask` on a task that was never started, or was killed while READY, writes through
    NULL (`scheduler.c` 110), although it "removes task from all of the lists"
    (`scheduler.h` 82): `"killUnlinked"` in the `Calls` of `sched_lists` violates `NeverFaults`.
  - `osStartTask` accepts priority 5 of 5 (`scheduler.c` 171; version 1 compares with `>=`):
    5 in the `Priorities` of `sched_lists` violates `NeverFaults`.
  - Ticks at single points of the window: before osDelay stores DELAYED (217), the task may
    have been woken, and its state is wrong from then on; in the first push to an
    empty level (81), schedule() moves the iterator to NULL, and the task that is started
    is in no queue; after osKillTask has read DELAYED (184), the task is woken and stays in
    its queue. `<<"delay", "set_state">>`, `<<"start", "first_prev">>` or
    `<<"kill", "drop">>` in the `TickPoints` of `preempt_points` violates
    `ImplementsAtomicCalls`.
  - RxDataReceived survives a reset and a repeated SET_CONFIGURATION (`usb.c` 319): bytes
    from in front of the buffer are handed over. `ResetPoints = "any"` in `vcp_stream`
    violates `ReadsWhatWasReceived`.
  - A negative number wraps into the range of a uint32 (`console.c` 112 and 119, "Error: Value
    out of range"): "-13" sets 3 in the 4 bits of `console`, "-4294967295" sets 1 in the code.
    `AcceptedAsTyped` excepts negative numbers for this reason.
  - After a tab or a zero byte is erased, the row is no longer that of the line ("Visual
    backspace", `console.c` 302, erases one column). `ScreenShowsLine` without `plain` is
    violated in `console`.
* Version 1 of the scheduler is excluded from the build by `.cproject` and includes
  a header, `common/time.h`, that is not in the tree. `syscalls.c` and `sysmem.c` are the
  vendor's stubs. `gpio.h` consists of register macros, and start-up code and
  context switch are assembly and register moves without a state of their own.
