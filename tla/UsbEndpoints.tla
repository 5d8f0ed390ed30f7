----------------------------- MODULE UsbEndpoints -----------------------------
(***************************************************************************)
(* The transfers of usb.c: for each endpoint a few variables that say what  *)
(* is being moved, and the registers of the OTG core that they drive.  An   *)
(* operator below is a function of usb.c, or a branch of its interrupt      *)
(* handler, as a map from the endpoint's record to the record it leaves.    *)
(*                                                                         *)
(* An IN endpoint E (device to host):                                      *)
(*   data, off    TxData: the buffer, and how far the pointer has moved    *)
(*   left         TxDataLeft: not yet in the FIFO                          *)
(*   lastSent     TxDataLastSent: length of the last packet loaded         *)
(*   handler      txCompleteHandler                                        *)
(*   packetsLeft, dataLeft   EP0_txPacketsLeft, EP0_txDataLeft             *)
(*   armed, size, count      registers: enabled and not NAKing, bytes and  *)
(*                packets to send                                          *)
(*   txfe         its bit of DIEPEMPMSK                                    *)
(*   fifo, xfrc, stall       bytes loaded, transfer complete, STALL        *)
(* An OUT endpoint R (host to device):                                     *)
(*   data, off, left, received, handler    RxData and its companions       *)
(*   armed, count, fifo, xfrc       as above; fifo is the packet that has   *)
(*                arrived                                                  *)
(*                                                                         *)
(* What the core does is not in this repository; it is modelled from how    *)
(* usb.c drives it.                                                         *)
(***************************************************************************)
EXTENDS Naturals, Sequences

CONSTANTS
  NULL,
  EP_MAX_PACKET,  \* EP_max_packet of every endpoint in use: 64
  WORD,           \* bytes in a word of a FIFO: 4
  FIFO_WORDS,     \* words in the FIFO of an IN endpoint: 64
  ENDPOINT        \* the number of the endpoint; 0 is treated in its own way

ASSUME PacketAssumption ==
  /\ WORD \in Nat \ {0}
  /\ EP_MAX_PACKET \in Nat \ {0} /\ EP_MAX_PACKET % WORD = 0
  /\ FIFO_WORDS \in Nat /\ EP_MAX_PACKET \div WORD <= FIFO_WORDS
  /\ ENDPOINT \in Nat

Least(m, n) == IF m < n THEN m ELSE n
Words(n) == (n + WORD - 1) \div WORD
Packets(n) == (n + EP_MAX_PACKET - 1) \div EP_MAX_PACKET

NoPacket == <<>>

\* Static memory, and a core out of reset.
IdleIn ==
  [data |-> NULL, off |-> 0, left |-> 0, lastSent |-> 0, handler |-> NULL,
   packetsLeft |-> 0, dataLeft |-> 0, armed |-> FALSE, size |-> 0, count |-> 0,
   txfe |-> FALSE, fifo |-> <<>>, xfrc |-> FALSE, stall |-> FALSE]

IdleOut ==
  [data |-> NULL, off |-> 0, left |-> 0, received |-> 0, handler |-> NULL,
   armed |-> FALSE, count |-> 0, fifo |-> NoPacket, xfrc |-> FALSE]

----------------------------------------------------------------------------
(* IN transfers.                                                           *)

\* Mutant: a last packet that is not full is not counted.
WholePackets(E, buf, len, completeHandler) ==
  LET thisPacketLen == Least(len, EP_MAX_PACKET) IN
  [E EXCEPT !.data = buf, !.off = 0, !.handler = completeHandler,
            !.packetsLeft = (len - thisPacketLen) \div EP_MAX_PACKET,
            !.dataLeft = len - thisPacketLen,
            !.left = thisPacketLen, !.size = thisPacketLen,
            !.count = IF ENDPOINT = 0 THEN 1 ELSE Packets(len),
            !.armed = TRUE, !.txfe = TRUE]

\* Mutant: everything in one packet.
OnePacket(E, buf, len, completeHandler) ==
  [E EXCEPT !.data = buf, !.off = 0, !.handler = completeHandler,
            !.packetsLeft = 0, !.dataLeft = 0, !.left = len, !.size = len,
            !.count = 1, !.armed = TRUE, !.txfe = TRUE]

\* Mutant: the endpoint is left to NAK.
NotEnabled(E, buf, len, completeHandler) ==
  [E EXCEPT !.data = buf, !.off = 0, !.handler = completeHandler,
            !.left = len, !.size = len, !.count = 1, !.txfe = TRUE]

\* One packet at a time: what exceeds a packet waits in dataLeft. The code
\* does so for endpoint 0 only, and asks no other for more than a packet.
\* Nothing to send is one packet on endpoint 0 and no packet on another.
InitiateTransfer(E, buf, len, completeHandler) ==
  LET thisPacketLen == Least(len, EP_MAX_PACKET) IN
  [E EXCEPT !.data = buf, !.off = 0, !.handler = completeHandler,
            !.packetsLeft = Packets(len - thisPacketLen),
            !.dataLeft = len - thisPacketLen,
            !.left = thisPacketLen, !.size = thisPacketLen,
            !.count = IF ENDPOINT = 0 THEN 1 ELSE Packets(len),
            !.armed = TRUE, !.txfe = TRUE]

\* DTXFSTS: are there words enough for what is left?
HasRoom(E) == Words(Len(E.fifo)) + Words(E.left) <= FIFO_WORDS

\* TXFE: copies what is left of the packet, or waits for room. mem is what the
\* buffer holds now. The pointer moves by whole words.
LoadDataIntoTxBuf(E, mem) ==
  IF E.left # 0 /\ ~HasRoom(E) THEN E
  ELSE [E EXCEPT !.fifo = @ \o SubSeq(mem, E.off + 1, E.off + E.left),
                 !.off = @ + Words(E.left) * WORD,
                 !.lastSent = IF E.left = 0 THEN @ ELSE E.left,
                 !.left = 0, !.txfe = FALSE]

\* XFRC with packets left: the next one.
NextPacket(E) ==
  LET thisPacketLen == Least(E.dataLeft, EP_MAX_PACKET) IN
  [E EXCEPT !.packetsLeft = @ - 1, !.dataLeft = @ - thisPacketLen,
            !.left = thisPacketLen, !.size = thisPacketLen, !.lastSent = thisPacketLen,
            !.count = 1, !.armed = TRUE, !.txfe = TRUE, !.xfrc = FALSE]

\* XFRC after the last packet, up to the call of the handler ...
TransferEnded(E) ==
  [E EXCEPT !.data = NULL, !.off = 0, !.handler = NULL, !.txfe = FALSE, !.xfrc = FALSE]

\* Mutant: nothing follows a full packet.
NoZlp(E) == E

\* ... and after it: a full packet is followed by an empty one, unless the
\* handler has started another transfer.
ZlpIfFull(E) ==
  IF E.data = NULL /\ E.lastSent = EP_MAX_PACKET
  THEN InitiateTransfer([E EXCEPT !.lastSent = 0], NULL, 0, E.handler)
  ELSE E

txBusy(E) == E.data # NULL

\* The core answers an IN token with the packet it holds. An empty packet
\* raises no XFRC (usb.c:410).
CanSend(E) == E.armed /\ E.count > 0 /\ ~E.stall /\ Len(E.fifo) >= E.size
Packet(E) == SubSeq(E.fifo, 1, E.size)
Sent(E) ==
  [E EXCEPT !.armed = FALSE, !.fifo = SubSeq(@, E.size + 1, Len(@)), !.xfrc = E.size # 0]

----------------------------------------------------------------------------
(* OUT transfers.                                                          *)

InitiateReception(R, buf, len, completeHandler) ==
  [R EXCEPT !.data = buf, !.off = 0, !.left = len, !.handler = completeHandler,
            !.count = Packets(len), !.armed = TRUE]

\* The core takes an empty packet though it was told to take none: else no
\* status stage of a control transfer to the host would ever end.
CanReceive(R, packet) == R.armed /\ (R.count > 0 \/ packet = NoPacket)

\* An empty packet has nothing to be read.
Arrived(R, packet) ==
  [R EXCEPT !.armed = FALSE, !.fifo = packet, !.xfrc = packet = NoPacket]

\* RXFLVL: bytes in excess of those asked for are dropped. The core's entry
\* for the end of the transfer follows the packet's.
PacketRead(R) ==
  LET n == Least(R.left, Len(R.fifo)) IN
  [R EXCEPT !.off = @ + n, !.left = @ - n, !.received = @ + n,
            !.fifo = NoPacket, !.xfrc = TRUE]

\* XFRC: the buffer the handler is given starts RxDataReceived bytes before
\* RxData, wherever that is.
BytesHandedOver(R, mem) ==
  [i \in 1 .. R.received |->
     IF i + R.off > R.received THEN mem[i + R.off - R.received] ELSE NULL]

ReceptionEnded(R) ==
  [R EXCEPT !.data = NULL, !.off = 0, !.received = 0, !.handler = NULL, !.xfrc = FALSE]

----------------------------------------------------------------------------
(* USBRST: FIFOs are flushed, flags and stalls cleared, OUT endpoints NAK.  *)
(* The variables of the transfers are left as they are.                     *)

InAfterReset(E) == [E EXCEPT !.fifo = <<>>, !.xfrc = FALSE, !.stall = FALSE]
OutAfterReset(R) == [R EXCEPT !.fifo = NoPacket, !.xfrc = FALSE, !.armed = FALSE]
==============================================================================
