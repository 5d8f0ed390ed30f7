-------------------------------- MODULE UsbVcp --------------------------------
(***************************************************************************)
(* The virtual COM port of usb_vcp.c: two ring buffers between a task and   *)
(* endpoint 2. The task writes and reads one statement at a time; each      *)
(* branch of the USB interrupt handler that serves the endpoint is one step *)
(* (nothing preempts the handler), and may come before any statement.       *)
(* One task uses the port (exampleTask1 of main.c).                         *)
(*                                                                         *)
(* Bytes are numbered, so that a byte lost, repeated or overtaken shows.    *)
(***************************************************************************)
EXTENDS Integers, UsbEndpoints, FiniteSets, FiniteSetsExt

CONSTANTS
  VCP_BUF_LEN,    \* slots of a ring buffer; one of them is always free
  Lengths,        \* how many bytes the task writes, or reads, by one call
  NumBytes,       \* bytes that are written are numbered modulo this
  NumRxBytes,     \* and those that are received modulo this
  ResetPoints,    \* "idle": the bus is reset only between transfers; "any"
  ReceptionPoints,\* "harmless": see ReceptionComplete; "any"
  Applications    \* each a set of directions that are in use: "tx", "rx"

ASSUME VcpAssumption ==
  /\ ENDPOINT # 0
  /\ VCP_BUF_LEN \in Nat /\ VCP_BUF_LEN > EP_MAX_PACKET
  /\ Lengths \subseteq Nat \ {0}
  /\ NumBytes \in Nat \ {0} /\ NumRxBytes \in Nat \ {0}
  /\ ResetPoints \in {"idle", "any"} /\ ReceptionPoints \in {"harmless", "any"}
  /\ Applications \subseteq SUBSET {"tx", "rx"}
  /\ NULL \notin Nat \cup {"txTmpBuf", "rxTmpBuf", "_handleDataTransmission", "_handleDataReception"}

VARIABLES
  uses,                                    \* what the application does
  connState,                               \* "DEFAULT" or "CONFIGURED"
  txBuf, txBufHead, txBufTail, txTmpBuf,
  rxBuf, rxBufHead, rxBufTail, rxTmpBuf,
  in, out,                                 \* endpoint 2
  pc,                                      \* the statement the task is at
  len, bytesLeft,                          \* locals of VCP_writeBytes
  readLeft,                                \* local of VCP_readBytes
  nextTx, nextRx,                          \* the next number on either side
  host,                                    \* the packet the host got last
  packet,                                  \* and the packet it sent last
  stored, unread, primed                   \* history, see below

tx == <<txBuf, txBufHead, txBufTail, txTmpBuf>>
rx == <<rxBuf, rxBufHead, rxBufTail, rxTmpBuf>>
task == <<pc, len, bytesLeft, readLeft>>
history == <<packet, stored, unread, primed>>
vars == <<uses, connState, tx, rx, in, out, task, nextTx, nextRx, host, history>>

Byte == 0 .. NumBytes - 1
RxByte == 0 .. NumRxBytes - 1
Slot == 0 .. VCP_BUF_LEN - 1
AfterByte(b) == (b + 1) % NumBytes

\* Mutant: wraps one too late.
WrapLate(i) == IF i > VCP_BUF_LEN THEN 0 ELSE i

\* An index that has reached the end starts again.
Wrap(i) == IF i = VCP_BUF_LEN THEN 0 ELSE i

Count(head, tail) == (head + VCP_BUF_LEN - tail) % VCP_BUF_LEN
Ring(buf, head, tail) ==
  [i \in 1 .. Count(head, tail) |-> buf[(tail + i - 1) % VCP_BUF_LEN]]

VCP_available == Count(rxBufHead, rxBufTail)

Init ==
  /\ uses \in Applications
  /\ connState = "DEFAULT"
  /\ txBuf = [i \in Slot |-> 0] /\ txBufHead = 0 /\ txBufTail = 0
  /\ rxBuf = [i \in Slot |-> 0] /\ rxBufHead = 0 /\ rxBufTail = 0
  /\ txTmpBuf = <<>> /\ rxTmpBuf = [i \in 1 .. EP_MAX_PACKET |-> 0]
  /\ in = IdleIn /\ out = IdleOut
  /\ pc = "idle" /\ len = 0 /\ bytesLeft = 0 /\ readLeft = 0
  /\ nextTx = 0 /\ nextRx = 0 /\ host = NoPacket
  /\ packet = NoPacket /\ stored = 0 /\ unread = <<>> /\ primed = FALSE

----------------------------------------------------------------------------
(* Callbacks of the endpoint.                                              *)

\* Mutant: the transfer is started without a handler.
NoHandler(E) ==
  LET n == Least(Count(txBufHead, txBufTail), EP_MAX_PACKET) IN
  IF n = 0
  THEN in' = E /\ UNCHANGED <<txBufTail, txTmpBuf>>
  ELSE /\ txTmpBuf' = SubSeq(Ring(txBuf, txBufHead, txBufTail), 1, n)
       /\ txBufTail' = (txBufTail + n) % VCP_BUF_LEN
       /\ in' = InitiateTransfer(E, "txTmpBuf", n, NULL)

\* Moves up to a packet from the ring to txTmpBuf and starts its transfer.
\* E is endpoint 2 as the caller has left it.
_handleDataTransmission(E) ==
  LET n == Least(Count(txBufHead, txBufTail), EP_MAX_PACKET) IN
  IF n = 0
  THEN in' = E /\ UNCHANGED <<txBufTail, txTmpBuf>>
  ELSE /\ txTmpBuf' = SubSeq(Ring(txBuf, txBufHead, txBufTail), 1, n)
       /\ txBufTail' = (txBufTail + n) % VCP_BUF_LEN
       /\ in' = InitiateTransfer(E, "txTmpBuf", n, "_handleDataTransmission")

Reception(R) ==
  InitiateReception(R, "rxTmpBuf", EP_MAX_PACKET, "_handleDataReception")

\* Mutant: a full buffer is overwritten.
StoreAll(n) == n

\* How many of n bytes are stored before one finds next = rxBufTail.
Stored(n) ==
  Min({j \in 0 .. n : Wrap(((rxBufHead + j) % VCP_BUF_LEN) + 1) = rxBufTail} \cup {n})

\* Mutant: no further reception if a byte did not fit.
ReceptionStops(bytes) ==
  LET n == Len(bytes)
      k == Stored(n)
  IN /\ rxBuf' = [i \in Slot |->
                    LET j == (i + VCP_BUF_LEN - rxBufHead) % VCP_BUF_LEN
                    IN IF j < k THEN bytes[j + 1] ELSE rxBuf[i]]
     /\ rxBufHead' = (rxBufHead + k) % VCP_BUF_LEN
     /\ out' = IF k = n THEN Reception(ReceptionEnded(out)) ELSE ReceptionEnded(out)

_handleDataReception(bytes) ==
  LET n == Len(bytes)
      k == Stored(n)
  IN /\ rxBuf' = [i \in Slot |->
                    LET j == (i + VCP_BUF_LEN - rxBufHead) % VCP_BUF_LEN
                    IN IF j < k THEN bytes[j + 1] ELSE rxBuf[i]]
     /\ rxBufHead' = (rxBufHead + k) % VCP_BUF_LEN
     /\ out' = Reception(ReceptionEnded(out))

----------------------------------------------------------------------------
(* The USB interrupt handler, as far as it serves endpoint 2.              *)

TxFifoEmpty ==
  /\ in.txfe
  /\ in' = LoadDataIntoTxBuf(in, txTmpBuf)
  /\ UNCHANGED <<uses, connState, tx, rx, out, task, nextTx, nextRx, host, history>>

\* The callback starts another transfer if there is something to send.
TransmissionComplete ==
  /\ in.xfrc
  /\ IF in.handler = NULL \/ txBufHead = txBufTail
     THEN in' = ZlpIfFull(TransferEnded(in)) /\ UNCHANGED <<txBufTail, txTmpBuf>>
     ELSE _handleDataTransmission(TransferEnded(in))
  /\ UNCHANGED <<uses, connState, txBuf, txBufHead, rx, out, task, nextTx, nextRx, host, history>>

RxFifoLevel ==
  /\ out.fifo # NoPacket
  /\ out' = PacketRead(out)
  /\ rxTmpBuf' = [i \in DOMAIN rxTmpBuf |->
                    IF i \in out.off + 1 .. out'.off THEN out.fifo[i - out.off] ELSE rxTmpBuf[i]]
  /\ UNCHANGED <<uses, connState, tx, rxBuf, rxBufHead, rxBufTail, in, task, nextTx, nextRx,
                 host, history>>

\* The slots that are free, as the host's packets were to fill them.
Room == VCP_BUF_LEN - 1 - Len(unread)

\* The history variable unread takes of the packet that the host has sent as
\* much as there is room for. If ReceptionPoints is "harmless", a packet that
\* does not fit is not handled while rxBufTail is past the end of the buffer.
ReceptionComplete ==
  /\ out.xfrc
  /\ ReceptionPoints = "harmless" => rxBufTail # VCP_BUF_LEN \/ out.received <= Room
  /\ _handleDataReception(BytesHandedOver(out, rxTmpBuf))
  /\ unread' = unread \o SubSeq(packet, 1, Least(Len(packet), Room))
  /\ UNCHANGED <<uses, connState, tx, rxBufTail, rxTmpBuf, in, task, nextTx, nextRx, host,
                 packet, stored, primed>>

\* Nothing of endpoint 2 is under way: no transfer, none about to start, no
\* packet half received.
BetweenTransfers == ~txBusy(in) /\ pc # "start" /\ out.received = 0

\* SET_CONFIGURATION 1, perhaps not for the first time: ConfigFinishedHandler
\* sets SNAK on both directions, and starts the reception. (A packet that has
\* arrived before a request is read before it.)
ConfigFinishedHandler ==
  /\ out.fifo = NoPacket
  /\ connState = "CONFIGURED" /\ ResetPoints = "idle" => BetweenTransfers
  /\ connState' = "CONFIGURED"
  /\ in' = [in EXCEPT !.armed = FALSE]
  /\ out' = Reception(out)
  /\ UNCHANGED <<uses, tx, rx, task, nextTx, nextRx, host, history>>

\* SET_CONFIGURATION 0 leaves the endpoint as it is. (ADDRESS
\* and DEFAULT are one state here: the port only looks for CONFIGURED.)
Unconfigure ==
  /\ connState = "CONFIGURED" /\ out.fifo = NoPacket
  /\ ResetPoints = "idle" => BetweenTransfers
  /\ connState' = "DEFAULT"
  /\ primed' = FALSE
  /\ UNCHANGED <<uses, tx, rx, in, out, task, nextTx, nextRx, host, packet, stored, unread>>

BusReset ==
  /\ connState = "CONFIGURED"
  /\ ResetPoints = "idle" => BetweenTransfers
  /\ connState' = "DEFAULT"
  /\ in' = InAfterReset(in) /\ out' = OutAfterReset(out)
  /\ primed' = FALSE
  /\ UNCHANGED <<uses, tx, rx, task, nextTx, nextRx, host, packet, stored, unread>>

Interrupt == TxFifoEmpty \/ TransmissionComplete \/ RxFifoLevel \/ ReceptionComplete

----------------------------------------------------------------------------
(* VCP_writeBytes.                                                         *)

CallWrite ==
  /\ pc = "idle" /\ "tx" \in uses
  /\ \E n \in Lengths : len' = n /\ bytesLeft' = n
  /\ pc' = "store" /\ stored' = 0
  /\ UNCHANGED <<uses, connState, tx, rx, in, out, readLeft, nextTx, nextRx, host,
                 packet, unread, primed>>

\* Mutant: a full buffer is overwritten.
StoreAnyway ==
  /\ pc = "store"
  /\ bytesLeft' = bytesLeft - 1
  /\ IF bytesLeft = 0
     THEN pc' = "busy" /\ UNCHANGED <<txBuf, nextTx>>
     ELSE /\ txBuf' = [txBuf EXCEPT ![txBufHead] = nextTx]
          /\ nextTx' = AfterByte(nextTx)
          /\ pc' = "publish"
  /\ UNCHANGED <<uses, connState, txBufHead, txBufTail, txTmpBuf, rx, in, out, len, readLeft,
                 nextRx, host, history>>

\* while (bytesLeft--): the counter is decremented even when it was zero, and
\* before the byte is found not to fit.
StoreByte ==
  /\ pc = "store"
  /\ bytesLeft' = bytesLeft - 1
  /\ IF bytesLeft = 0 \/ Wrap(txBufHead + 1) = txBufTail
     THEN pc' = "busy" /\ UNCHANGED <<txBuf, nextTx>>
     ELSE /\ txBuf' = [txBuf EXCEPT ![txBufHead] = nextTx]
          /\ nextTx' = AfterByte(nextTx)
          /\ pc' = "publish"
  /\ UNCHANGED <<uses, connState, txBufHead, txBufTail, txTmpBuf, rx, in, out, len, readLeft,
                 nextRx, host, history>>

PublishByte ==
  /\ pc = "publish"
  /\ txBufHead' = Wrap(txBufHead + 1)
  /\ pc' = "store" /\ stored' = stored + 1
  /\ UNCHANGED <<uses, connState, txBuf, txBufTail, txTmpBuf, rx, in, out, len, bytesLeft,
                 readLeft, nextTx, nextRx, host, packet, unread, primed>>

\* primed: since the last configuration a call has found a transfer under
\* way or has started one.
CheckBusy ==
  /\ pc = "busy"
  /\ pc' = IF txBusy(in) THEN "return" ELSE "conn"
  /\ primed' = (primed \/ txBusy(in))
  /\ UNCHANGED <<uses, connState, tx, rx, in, out, len, bytesLeft, readLeft, nextTx, nextRx,
                 host, packet, stored, unread>>

CheckConfigured ==
  /\ pc = "conn"
  /\ pc' = IF connState = "CONFIGURED" THEN "start" ELSE "return"
  /\ UNCHANGED <<uses, connState, tx, rx, in, out, len, bytesLeft, readLeft, nextTx, nextRx,
                 host, history>>

\* The callback, called by the task. No interrupt touches what it touches
\* while there is no transfer.
StartTransmission ==
  /\ pc = "start"
  /\ _handleDataTransmission(in)
  /\ primed' = TRUE
  /\ pc' = "return"
  /\ UNCHANGED <<uses, connState, txBuf, txBufHead, rx, out, len, bytesLeft, readLeft, nextTx,
                 nextRx, host, packet, stored, unread>>

WriteReturns ==
  /\ pc = "return"
  /\ pc' = "idle"
  /\ len' = 0 /\ bytesLeft' = 0 /\ stored' = 0
  /\ UNCHANGED <<uses, connState, tx, rx, in, out, readLeft, nextTx, nextRx, host,
                 packet, unread, primed>>

----------------------------------------------------------------------------
(* VCP_readAvailable of main.c: VCP_available, then VCP_readBytes.         *)

CallRead ==
  /\ pc = "idle" /\ VCP_available > 0
  /\ \E maxLen \in Lengths : readLeft' = Least(VCP_available, maxLen)
  /\ pc' = "read"
  /\ UNCHANGED <<uses, connState, tx, rx, in, out, len, bytesLeft, nextTx, nextRx, host, history>>

\* VCP_read up to rxBufTail++, which may leave the tail at VCP_BUF_LEN. An
\* empty buffer gives the byte 255 and moves nothing.
ReadByte ==
  /\ pc = "read"
  /\ readLeft' = readLeft - 1
  /\ IF rxBufHead = rxBufTail
     THEN pc' = "wrap" /\ UNCHANGED <<rxBufTail, unread>>
     ELSE /\ rxBufTail' = rxBufTail + 1
          /\ unread' = IF unread = <<>> THEN <<>> ELSE Tail(unread)
          /\ pc' = "wrap"
  /\ UNCHANGED <<uses, connState, tx, rxBuf, rxBufHead, rxTmpBuf, in, out, len, bytesLeft, nextTx,
                 nextRx, host, packet, stored, primed>>

WrapTail ==
  /\ pc = "wrap"
  /\ rxBufTail' = Wrap(rxBufTail)
  /\ pc' = IF readLeft = 0 THEN "idle" ELSE "read"
  /\ UNCHANGED <<uses, connState, tx, rxBuf, rxBufHead, rxTmpBuf, in, out, len, bytesLeft,
                 readLeft, nextTx, nextRx, host, history>>

InCall ==
  \/ StoreByte \/ PublishByte \/ CheckBusy \/ CheckConfigured
  \/ StartTransmission \/ WriteReturns \/ ReadByte \/ WrapTail

----------------------------------------------------------------------------
(* The host.                                                               *)

HostReads ==
  /\ connState = "CONFIGURED" /\ CanSend(in)
  /\ host' = Packet(in)
  /\ in' = Sent(in)
  /\ UNCHANGED <<uses, connState, tx, rx, out, task, nextTx, nextRx, history>>

\* The empty packet after a full one is programmed as no packet at all: the
\* host may get it (usb.c:415) or not.
HostReadsEmpty ==
  /\ connState = "CONFIGURED" /\ in.armed /\ in.count = 0
  /\ in' = Sent(in)
  /\ UNCHANGED <<uses, connState, tx, rx, out, task, nextTx, nextRx, host, history>>

HostSends ==
  /\ connState = "CONFIGURED" /\ "rx" \in uses
  /\ \E n \in 1 .. EP_MAX_PACKET :
       /\ packet' = [i \in 1 .. n |-> (nextRx + i - 1) % NumRxBytes]
       /\ CanReceive(out, packet')
       /\ out' = Arrived(out, packet')
       /\ nextRx' = (nextRx + n) % NumRxBytes
  /\ UNCHANGED <<uses, connState, tx, rx, in, task, nextTx, host, stored, unread, primed>>

----------------------------------------------------------------------------

Next ==
  \/ CallWrite \/ CallRead \/ InCall
  \/ Interrupt \/ ConfigFinishedHandler \/ Unconfigure \/ BusReset
  \/ HostReads \/ HostReadsEmpty \/ HostSends

Spec == Init /\ [][Next]_vars

\* A task that is in a call gets on with it (the scheduler starves nobody),
\* an interrupt that is pending is taken, and a host that has configured the
\* device polls it. Nobody has to call, send, reset or configure.
FairSpec ==
  /\ Spec
  /\ WF_vars(InCall)
  /\ WF_vars(TxFifoEmpty) /\ WF_vars(TransmissionComplete)
  /\ WF_vars(RxFifoLevel) /\ WF_vars(ReceptionComplete)
  /\ WF_vars(HostReads)

----------------------------------------------------------------------------
(* Properties.                                                             *)

TypeOK ==
  /\ connState \in {"DEFAULT", "CONFIGURED"}
  /\ txBuf \in [Slot -> Byte] /\ txBufHead \in Slot /\ txBufTail \in Slot
  /\ rxBuf \in [Slot -> RxByte \cup {NULL}] /\ rxBufHead \in Slot
  /\ rxBufTail \in 0 .. VCP_BUF_LEN
  /\ in.data \in {NULL, "txTmpBuf"} /\ in.handler \in {NULL, "_handleDataTransmission"}
  /\ in.packetsLeft = 0 /\ in.dataLeft = 0
  /\ pc \in {"idle", "store", "publish", "busy", "conn", "start", "return", "read", "wrap"}
  /\ bytesLeft >= -1 /\ readLeft >= 0
  /\ primed \in BOOLEAN

\* What was written and has not reached the host: the transfer under way (in
\* the FIFO, or still in txTmpBuf), then the ring.
TxPending ==
  in.fifo \o SubSeq(txTmpBuf, in.off + 1, in.off + in.left)
          \o Ring(txBuf, txBufHead, txBufTail)

Stream == INSTANCE ByteStream
            WITH Capacity <- VCP_BUF_LEN - 1 + EP_MAX_PACKET, MaxChunk <- EP_MAX_PACKET,
                 queue <- TxPending, taken <- host

\* The bytes that were stored come out at the host once each and in order,
\* whichever of task and interrupt starts the transfers (_handleDataTransmission).
TxIsAStream == Stream!Spec

\* No lost wake-up: with the port in use and no call under way, bytes wait
\* in the ring only while a transfer will end and fetch them (VCP_writeBytes
\* stores first and looks at txBusy afterwards).
NothingStranded ==
  primed /\ pc \in {"idle", "read", "wrap"} /\ txBufHead # txBufTail => txBusy(in)

Waiting(b) == \E i \in DOMAIN TxPending : TxPending[i] = b

\* A byte that is written is sent: not only handed to the endpoint, but given
\* to the host, unless the bus is reset first. (Numbers rotate, so byte 0 is
\* any byte.)
WrittenIsSent ==
  primed /\ connState = "CONFIGURED" /\ Waiting(0)
    ~> connState # "CONFIGURED" \/ ~Waiting(0)

\* "Read multiple bytes over VCP" (usb_vcp.h:77): the task reads the bytes that
\* the host has sent, in order, and never the filler 255; packets are cut only
\* where the buffer is full. While rxBufTail is past the end of the buffer it
\* stands for the slot 0.
ReadsWhatWasReceived ==
  /\ readLeft <= Len(unread)
  /\ Ring(rxBuf, rxBufHead, Wrap(rxBufTail)) = unread

\* A full receive buffer never blocks the host: after every packet the
\* endpoint is made ready for the next (_handleDataReception).
HostMaySendAgain ==
  connState = "CONFIGURED" ~> (out.armed /\ out.count > 0) \/ connState # "CONFIGURED"

\* VCP_writeBytes returns how many bytes it has stored, and 0 if there was no
\* room for any: VCP_write asks for that (usb_vcp.c:249).
ReturnsWhatItStored == pc = "return" => len - bytesLeft = stored
==============================================================================
