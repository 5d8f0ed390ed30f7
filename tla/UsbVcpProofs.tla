----------------------------- MODULE UsbVcpProofs -----------------------------
(* Proofs about UsbVcp, for every size of buffer, packet and call.           *)
EXTENDS UsbVcp, SequenceTheorems, WellFoundedInduction, TLAPS

----------------------------------------------------------------------------
(* Arithmetic of a ring.                                                    *)

\* A remainder is a slot, and is taken by at most one subtraction.
LEMMA ModSlot == \A a \in Int : a % VCP_BUF_LEN \in Slot
BY VcpAssumption, PacketAssumption DEF Slot

LEMMA ModSmall == \A a \in Slot : a % VCP_BUF_LEN = a
BY VcpAssumption, PacketAssumption DEF Slot

LEMMA ModOnce == \A a \in VCP_BUF_LEN .. 2 * VCP_BUF_LEN - 1 : a % VCP_BUF_LEN = a - VCP_BUF_LEN
<1> SUFFICES ASSUME NEW a \in VCP_BUF_LEN .. 2 * VCP_BUF_LEN - 1
             PROVE  a % VCP_BUF_LEN = a - VCP_BUF_LEN
  OBVIOUS
<1> QED BY VcpAssumption, PacketAssumption

LEMMA ModTwice ==
  \A a \in 0 .. 2 * VCP_BUF_LEN - 1 :
    a % VCP_BUF_LEN = IF a < VCP_BUF_LEN THEN a ELSE a - VCP_BUF_LEN
<1> SUFFICES ASSUME NEW a \in 0 .. 2 * VCP_BUF_LEN - 1
             PROVE  a % VCP_BUF_LEN = IF a < VCP_BUF_LEN THEN a ELSE a - VCP_BUF_LEN
  OBVIOUS
<1>1. CASE a < VCP_BUF_LEN
  <2>1. a \in Slot BY <1>1, VcpAssumption DEF Slot
  <2> QED BY <1>1, <2>1, ModSmall
<1>2. CASE ~(a < VCP_BUF_LEN)
  <2>1. a \in VCP_BUF_LEN .. 2 * VCP_BUF_LEN - 1 BY <1>2, VcpAssumption
  <2> QED BY <1>2, <2>1, ModOnce
<1> QED BY <1>1, <1>2

LEMMA ModSum ==
  ASSUME NEW a \in Slot, NEW b \in Slot
  PROVE  (a + b) % VCP_BUF_LEN = IF a + b < VCP_BUF_LEN THEN a + b ELSE (a + b) - VCP_BUF_LEN
<1>1. a + b \in 0 .. 2 * VCP_BUF_LEN - 1 BY VcpAssumption, PacketAssumption DEF Slot
<1> QED BY <1>1, ModTwice, Zenon

\* How many bytes are between two indices.
LEMMA CountValue ==
  ASSUME NEW head \in Slot, NEW tail \in Slot
  PROVE  Count(head, tail) = IF head >= tail THEN head - tail ELSE head + VCP_BUF_LEN - tail
<1>1. CASE head >= tail
  <2>1. head + VCP_BUF_LEN - tail \in VCP_BUF_LEN .. 2 * VCP_BUF_LEN - 1
    BY <1>1, VcpAssumption, PacketAssumption DEF Slot
  <2> QED BY <1>1, <2>1, ModOnce, VcpAssumption, PacketAssumption DEF Slot, Count
<1>2. CASE head < tail
  <2>1. head + VCP_BUF_LEN - tail \in Slot
    BY <1>2, VcpAssumption, PacketAssumption DEF Slot
  <2> QED BY <1>2, <2>1, ModSmall, VcpAssumption, PacketAssumption DEF Slot, Count
<1> QED BY <1>1, <1>2, VcpAssumption, PacketAssumption DEF Slot

LEMMA Sizes ==
  /\ EP_MAX_PACKET \in Nat /\ EP_MAX_PACKET > 0 /\ VCP_BUF_LEN \in Nat /\ VCP_BUF_LEN > EP_MAX_PACKET
  /\ WORD \in Nat /\ WORD > 0 /\ NumBytes \in Nat /\ NumBytes > 0 /\ NumRxBytes \in Nat /\ NumRxBytes > 0
BY VcpAssumption, PacketAssumption

\* Nothing takes no packet, a packet takes one.
LEMMA PacketsOf ==
  /\ \A n \in Nat : Packets(n) \in Nat
  /\ Packets(0) = 0
  /\ \A n \in 1 .. EP_MAX_PACKET : Packets(n) = 1
<1>1. \A n \in Nat : n + EP_MAX_PACKET - 1 \in Nat BY Sizes
<1>2. \A a, w \in Nat : w > 0 => a \div w \in Nat OBVIOUS
<1>3. (0 + EP_MAX_PACKET - 1) \div EP_MAX_PACKET = 0 BY Sizes
<1>4. \A n \in 1 .. EP_MAX_PACKET : (n + EP_MAX_PACKET - 1) \div EP_MAX_PACKET = 1
  <2> SUFFICES ASSUME NEW n \in 1 .. EP_MAX_PACKET
               PROVE  (n + EP_MAX_PACKET - 1) \div EP_MAX_PACKET = 1
    OBVIOUS
  <2> QED BY Sizes
<1> QED BY <1>1, <1>2, <1>3, <1>4, Sizes DEF Packets

LEMMA WrapSlot == \A i \in Slot : Wrap(i + 1) \in Slot
BY VcpAssumption, PacketAssumption DEF Slot, Wrap

Candidates(n) ==
  {j \in 0 .. n : Wrap(((rxBufHead + j) % VCP_BUF_LEN) + 1) = rxBufTail} \cup {n}

\* A finite set of numbers has a least one.
LEMMA StoredLeast ==
  ASSUME NEW n \in Nat
  PROVE  Stored(n) \in Candidates(n) /\ \A y \in Candidates(n) : Stored(n) <= y
<1> DEFINE S == Candidates(n)
<1>1. S \subseteq Nat /\ S # {} /\ Stored(n) = Min(S) BY DEF Candidates, Stored
<1> HIDE DEF S
<1>2. PICK x \in S : \A y \in S : <<y, x>> \notin OpToRel(<, Nat)
  BY <1>1, NatLessThanWellFounded, WFMin
<1>3. \A y \in S : x <= y
  <2> SUFFICES ASSUME NEW y \in S PROVE ~(y < x) BY <1>1
  <2>1. y < x => <<y, x>> \in OpToRel(<, Nat)
    <3>1. <<y, x>> \in Nat \X Nat BY <1>1
    <3> QED BY <3>1, Zenon DEF OpToRel
  <2> QED BY <1>2, <2>1
<1>4. Min(S) \in S /\ \A y \in S : Min(S) <= y BY <1>3 DEF Min
<1> QED BY <1>1, <1>4 DEF S

LEMMA StoredRange == \A n \in Nat : Stored(n) \in 0 .. n
BY StoredLeast DEF Candidates

----------------------------------------------------------------------------
(* Types. The invariant is strengthened by what the values depend on: a     *)
(* packet that is still to be loaded is all of txTmpBuf, the bytes that      *)
(* are handed over are in rxTmpBuf, and bytesLeft is never counted down from  *)
(* a negative value.                                                        *)

InRecord ==
  [data : {NULL, "txTmpBuf"}, off : Nat, left : 0 .. EP_MAX_PACKET, lastSent : Nat,
   handler : {NULL, "_handleDataTransmission"}, packetsLeft : {0}, dataLeft : {0},
   armed : BOOLEAN, size : 0 .. EP_MAX_PACKET, count : Nat, txfe : BOOLEAN, fifo : Seq(Byte),
   xfrc : BOOLEAN, stall : {FALSE}]

OutRecord ==
  [data : {NULL, "rxTmpBuf"}, off : Nat, left : Nat, received : Nat,
   handler : {NULL, "_handleDataReception"}, armed : BOOLEAN, count : Nat,
   fifo : Seq(RxByte), xfrc : BOOLEAN]

TxType ==
  /\ txBuf \in [Slot -> Byte] /\ txBufHead \in Slot /\ txBufTail \in Slot
  /\ txTmpBuf \in Seq(Byte)
  /\ in \in InRecord
  /\ in.left # 0 => in.off = 0 /\ in.left = Len(txTmpBuf)
  /\ nextTx \in Byte

RxType ==
  /\ rxBuf \in [Slot -> RxByte \cup {NULL}] /\ rxBufHead \in Slot
  /\ rxBufTail \in 0 .. VCP_BUF_LEN
  /\ pc # "wrap" => rxBufTail \in Slot
  /\ rxTmpBuf \in [1 .. EP_MAX_PACKET -> RxByte]
  /\ out \in OutRecord
  /\ out.off + out.left <= EP_MAX_PACKET
  /\ nextRx \in RxByte

\* bytesLeft is never counted down from a negative value.
Counted == pc \in {"store", "publish"} => bytesLeft >= 0

TaskType ==
  /\ connState \in {"DEFAULT", "CONFIGURED"}
  /\ pc \in {"idle", "store", "publish", "busy", "conn", "start", "return", "read", "wrap"}
  /\ bytesLeft \in Int /\ bytesLeft >= -1
  /\ readLeft \in Nat /\ (pc = "read" => readLeft > 0)
  /\ primed \in BOOLEAN
  /\ Counted

LEMMA InitTypes == Init => TxType /\ RxType /\ TaskType
<1> SUFFICES ASSUME Init PROVE TxType /\ RxType /\ TaskType OBVIOUS
<1>1. 0 \in Slot /\ 0 \in Byte /\ 0 \in RxByte
  BY VcpAssumption, PacketAssumption DEF Slot, Byte, RxByte
<1>2. <<>> \in Seq(Byte) /\ <<>> \in Seq(RxByte) OBVIOUS
<1>3. TxType BY <1>1, <1>2, PacketAssumption DEF Init, TxType, IdleIn, InRecord
<1>4. RxType
  BY <1>1, <1>2, PacketAssumption, VcpAssumption DEF Init, RxType, IdleOut, OutRecord, Slot, NoPacket
<1>5. /\ connState = "DEFAULT" /\ pc = "idle" /\ bytesLeft = 0
      /\ readLeft = 0 /\ primed = FALSE
  BY Zenon DEF Init
<1>6. Counted BY <1>5 DEF Counted
<1>7. bytesLeft >= -1 /\ bytesLeft \in Int /\ readLeft \in Nat
  BY <1>5
<1>8. TaskType BY <1>5, <1>6, <1>7, Zenon DEF TaskType
<1> QED BY <1>3, <1>4, <1>8

\* What the ring holds are bytes.
LEMMA RingType ==
  ASSUME NEW B, NEW buf \in [Slot -> B], NEW head \in Slot, NEW tail \in Slot
  PROVE  /\ Ring(buf, head, tail) \in Seq(B)
         /\ Len(Ring(buf, head, tail)) = Count(head, tail)
         /\ Count(head, tail) \in Slot
<1>1. Count(head, tail) \in Slot
  <2>1. head + VCP_BUF_LEN - tail \in Int BY VcpAssumption DEF Slot
  <2> QED BY <2>1, ModSlot, Zenon DEF Count
<1>2. \A i \in 1 .. Count(head, tail) : (tail + i - 1) % VCP_BUF_LEN \in Slot
  <2> SUFFICES ASSUME NEW i \in 1 .. Count(head, tail)
               PROVE  (tail + i - 1) % VCP_BUF_LEN \in Slot
    OBVIOUS
  <2>1. tail + i - 1 \in Int BY VcpAssumption DEF Slot
  <2> QED BY <2>1, ModSlot
<1>3. Ring(buf, head, tail) \in [1 .. Count(head, tail) -> B] BY <1>1, <1>2 DEF Ring
<1>4. Count(head, tail) \in Nat BY <1>1 DEF Slot
<1> QED BY <1>1, <1>3, <1>4, SeqDef, LenProperties

\* A transfer that is started is of the types of the endpoint.
Started(new, E, data, n, handler) ==
  /\ new \in InRecord
  /\ new.data = data /\ new.handler = handler /\ new.off = 0 /\ new.left = n
  /\ new.size = n /\ new.count = Packets(n) /\ new.armed = TRUE
  /\ new.fifo = E.fifo /\ new.xfrc = E.xfrc

LEMMA InitiateTransferType ==
  ASSUME NEW E \in InRecord, NEW n \in 0 .. EP_MAX_PACKET,
         NEW data \in {NULL, "txTmpBuf"}, NEW handler \in {NULL, "_handleDataTransmission"}
  PROVE  Started(InitiateTransfer(E, data, n, handler), E, data, n, handler)
<1>1. Least(n, EP_MAX_PACKET) = n BY PacketAssumption DEF Least
<1>2. n - n = 0 /\ Packets(0) = 0 /\ Packets(n) \in Nat /\ ENDPOINT # 0
  BY PacketsOf, Sizes, VcpAssumption
<1> DEFINE new == [E EXCEPT !.data = data, !.off = 0, !.handler = handler,
                            !.packetsLeft = 0, !.dataLeft = 0,
                            !.left = n, !.size = n, !.count = Packets(n),
                            !.armed = TRUE, !.txfe = TRUE]
<1>3. InitiateTransfer(E, data, n, handler) = new BY <1>1, <1>2 DEF InitiateTransfer
<1>4. new \in InRecord BY <1>2 DEF InRecord
<1>5. /\ new.data = data /\ new.handler = handler /\ new.off = 0 /\ new.left = n
      /\ new.size = n /\ new.count = Packets(n) /\ new.armed = TRUE /\ new.fifo = E.fifo /\ new.xfrc = E.xfrc
  BY DEF InRecord
<1> QED BY <1>3, <1>4, <1>5, Zenon DEF Started

\* After the callback, or without one: either nothing or an empty packet.
LEMMA ZlpType ==
  ASSUME NEW E \in InRecord
  PROVE  /\ ZlpIfFull(E) \in InRecord
         /\ ZlpIfFull(E).data = E.data /\ ZlpIfFull(E).handler = E.handler
         /\ ZlpIfFull(E).fifo = E.fifo /\ ZlpIfFull(E).xfrc = E.xfrc
         /\ \/ ZlpIfFull(E) = E
            \/ /\ E.data = NULL /\ ZlpIfFull(E).left = 0
               /\ ZlpIfFull(E).size = 0 /\ ZlpIfFull(E).count = 0
<1> DEFINE F == [E EXCEPT !.lastSent = 0]
           zlp == InitiateTransfer(F, NULL, 0, E.handler)
<1>1. F \in InRecord /\ F.fifo = E.fifo /\ F.xfrc = E.xfrc BY DEF InRecord
<1> HIDE DEF F
<1>2. 0 \in 0 .. EP_MAX_PACKET /\ NULL \in {NULL, "txTmpBuf"}
      /\ E.handler \in {NULL, "_handleDataTransmission"}
  BY Sizes DEF InRecord
<1>3. Started(zlp, F, NULL, 0, E.handler) /\ Packets(0) = 0
  BY <1>1, <1>2, InitiateTransferType, PacketsOf
<1>4. \/ ZlpIfFull(E) = E
      \/ E.data = NULL /\ ZlpIfFull(E) = zlp
  BY Zenon DEF ZlpIfFull, F
<1> HIDE DEF zlp
<1> QED BY <1>1, <1>3, <1>4 DEF Started

LEMMA DivNat == \A a, w \in Nat : w > 0 => a \div w \in Nat
OBVIOUS

Loaded(E, mem, new) ==
  /\ new \in InRecord
  /\ new.left = 0
  /\ new.size = E.size /\ new.count = E.count /\ new.data = E.data /\ new.handler = E.handler
  /\ new.fifo = IF E.left = 0 THEN E.fifo ELSE E.fifo \o mem
  /\ new.xfrc = E.xfrc /\ new.armed = E.armed

\* TXFE loads all of the packet, or waits for room.
LEMMA LoadType ==
  ASSUME NEW E \in InRecord, NEW mem \in Seq(Byte),
         E.left # 0 => E.off = 0 /\ E.left = Len(mem)
  PROVE  \/ E.left # 0 /\ LoadDataIntoTxBuf(E, mem) = E
         \/ Loaded(E, mem, LoadDataIntoTxBuf(E, mem))
<1>1. CASE E.left # 0 /\ ~HasRoom(E)
  BY <1>1 DEF LoadDataIntoTxBuf
<1>2. CASE ~(E.left # 0 /\ ~HasRoom(E))
  <2> DEFINE pkt == SubSeq(mem, E.off + 1, E.off + E.left)
             fifo == E.fifo \o pkt
             words == Words(E.left)
             off == E.off + words * WORD
             last == IF E.left = 0 THEN E.lastSent ELSE E.left
             new == [E EXCEPT !.fifo = fifo, !.off = off, !.lastSent = last, !.left = 0,
                              !.txfe = FALSE]
  <2>1. E.left \in Nat /\ E.off \in Nat /\ E.fifo \in Seq(Byte) BY DEF InRecord
  <2>2. pkt = IF E.left = 0 THEN <<>> ELSE mem
    <3>1. CASE E.left = 0 BY <2>1, <3>1, SubSeqEmpty
    <3>2. CASE E.left # 0
      <4>1. pkt = SubSeq(mem, 1, Len(mem)) BY <3>2, <2>1
      <4> QED BY <3>2, <4>1, SubSeqFull
    <3> QED BY <3>1, <3>2
  <2>3. fifo \in Seq(Byte) /\ fifo = IF E.left = 0 THEN E.fifo ELSE E.fifo \o mem
    <3> HIDE DEF pkt
    <3> QED BY <2>1, <2>2, ConcatProperties, ConcatEmptySeq
  <2>4. off \in Nat
    <3>1. E.left + WORD - 1 \in Nat BY <2>1, Sizes
    <3>2. words \in Nat BY <3>1, Sizes, DivNat DEF Words
    <3> HIDE DEF words
    <3>3. words * WORD \in Nat BY <3>2, Sizes
    <3> QED BY <2>1, <3>3
  <2>5. last \in Nat BY DEF InRecord
  <2>6. LoadDataIntoTxBuf(E, mem) = new BY <1>2 DEF LoadDataIntoTxBuf
  <2> HIDE DEF fifo, off, last
  <2>7. new \in InRecord
    <3>1. fifo \in Seq(Byte) BY <2>3
    <3>2. 0 \in 0 .. EP_MAX_PACKET BY Sizes
    <3> QED BY <2>4, <2>5, <3>1, <3>2 DEF InRecord
  <2>8. /\ new.left = 0 /\ new.size = E.size /\ new.count = E.count /\ new.data = E.data
        /\ new.handler = E.handler /\ new.fifo = fifo /\ new.xfrc = E.xfrc /\ new.armed = E.armed
    BY DEF InRecord
  <2> HIDE DEF new
  <2> QED BY <2>3, <2>6, <2>7, <2>8 DEF Loaded
<1> QED BY <1>1, <1>2

LEMMA ResetType ==
  ASSUME NEW E \in InRecord
  PROVE  /\ InAfterReset(E) \in InRecord
         /\ InAfterReset(E).left = E.left /\ InAfterReset(E).off = E.off
         /\ InAfterReset(E).data = E.data /\ InAfterReset(E).fifo = <<>>
         /\ InAfterReset(E).handler = E.handler
<1> DEFINE new == [E EXCEPT !.fifo = <<>>, !.xfrc = FALSE, !.stall = FALSE]
<1>1. <<>> \in Seq(Byte) OBVIOUS
<1>2. new \in InRecord BY <1>1 DEF InRecord
<1>3. new.left = E.left /\ new.off = E.off /\ new.data = E.data /\ new.fifo = <<>>
      /\ new.handler = E.handler
  BY DEF InRecord
<1> QED BY <1>2, <1>3, Zenon DEF InAfterReset

LEMMA TransferEndedType ==
  ASSUME NEW E \in InRecord
  PROVE  /\ TransferEnded(E) \in InRecord
         /\ TransferEnded(E).data = NULL /\ TransferEnded(E).left = E.left
         /\ TransferEnded(E).fifo = E.fifo /\ ~TransferEnded(E).xfrc
         /\ TransferEnded(E).armed = E.armed
<1> DEFINE new == [E EXCEPT !.data = NULL, !.off = 0, !.handler = NULL, !.txfe = FALSE,
                            !.xfrc = FALSE]
<1>1. new \in InRecord BY DEF InRecord
<1>2. new.data = NULL /\ new.left = E.left /\ new.fifo = E.fifo /\ ~new.xfrc /\ new.armed = E.armed
  BY DEF InRecord
<1> QED BY <1>1, <1>2, Zenon DEF TransferEnded

\* Neither the interrupt, nor the task, nor the host leaves the types of the
\* direction to the host.
LEMMA NextTxType == TxType /\ [Next]_vars => TxType'
<1> SUFFICES ASSUME TxType, [Next]_vars PROVE TxType' OBVIOUS
<1> USE Sizes
<1>1. CASE UNCHANGED <<tx, in, nextTx>>
  BY <1>1 DEF TxType, tx
\* The callback, whatever the endpoint it is given.
<1>2. ASSUME NEW E \in InRecord, E.left # 0 => E.off = 0 /\ E.left = Len(txTmpBuf),
             _handleDataTransmission(E)
      PROVE  /\ in' \in InRecord /\ txTmpBuf' \in Seq(Byte) /\ txBufTail' \in Slot
             /\ in'.left # 0 => in'.off = 0 /\ in'.left = Len(txTmpBuf')
  <2> DEFINE ring == Ring(txBuf, txBufHead, txBufTail)
             n == Least(Count(txBufHead, txBufTail), EP_MAX_PACKET)
  <2>1. ring \in Seq(Byte) /\ Len(ring) = Count(txBufHead, txBufTail) /\ Len(ring) \in Slot
    BY RingType DEF TxType
  <2>2. n \in 0 .. EP_MAX_PACKET /\ n <= Len(ring) BY <2>1 DEF Least, Slot
  <2>3. CASE n = 0
    BY <1>2, <2>3 DEF _handleDataTransmission, TxType
  <2>4. CASE n # 0
    <3>1. SubSeq(ring, 1, n) \in Seq(Byte) /\ Len(SubSeq(ring, 1, n)) = n
      BY <2>1, <2>2, SubSeqProperties
    <3>2. /\ txTmpBuf' = SubSeq(ring, 1, n)
          /\ txBufTail' = (txBufTail + n) % VCP_BUF_LEN
          /\ in' = InitiateTransfer(E, "txTmpBuf", n, "_handleDataTransmission")
      BY <1>2, <2>4, Zenon DEF _handleDataTransmission
    <3>3. in' \in InRecord /\ in'.left = n /\ in'.off = 0
      <4> HIDE DEF n
      <4>1. "txTmpBuf" \in {NULL, "txTmpBuf"}
            /\ "_handleDataTransmission" \in {NULL, "_handleDataTransmission"}
        OBVIOUS
      <4>2. Started(in', E, "txTmpBuf", n, "_handleDataTransmission")
        BY <2>2, <3>2, <4>1, InitiateTransferType
      <4> QED BY <4>2 DEF Started
    <3>4. txBufTail' \in Slot
      <4>1. txBufTail + n \in Int BY <2>2 DEF TxType, Slot
      <4> QED BY <3>2, <4>1, ModSlot
    <3> QED BY <3>1, <3>2, <3>3, <3>4
  <2> QED BY <2>3, <2>4
<1>3. ASSUME NEW E \in InRecord, E.left # 0 => E.off = 0 /\ E.left = Len(txTmpBuf)
      PROVE  LET new == ZlpIfFull(E) IN
             new \in InRecord /\ (new.left # 0 => new.off = 0 /\ new.left = Len(txTmpBuf))
  BY <1>3, ZlpType
<1>4. CASE TxFifoEmpty
  <2>1. in' \in InRecord /\ (in'.left = 0 \/ in' = in)
    BY <1>4, LoadType DEF TxFifoEmpty, TxType, Loaded
  <2> QED BY <1>4, <2>1 DEF TxFifoEmpty, TxType, tx
<1>5. CASE TransmissionComplete
  <2>1. TransferEnded(in) \in InRecord BY DEF TransferEnded, TxType, InRecord
  <2>2. LET E == TransferEnded(in) IN E.left # 0 => E.off = 0 /\ E.left = Len(txTmpBuf)
    BY DEF TransferEnded, TxType, InRecord
  <2>3. /\ in' \in InRecord /\ txTmpBuf' \in Seq(Byte) /\ txBufTail' \in Slot
        /\ in'.left # 0 => in'.off = 0 /\ in'.left = Len(txTmpBuf')
    <3> DEFINE E == TransferEnded(in)
    <3> HIDE DEF E
    <3>1. CASE in' = ZlpIfFull(E) /\ UNCHANGED <<txBufTail, txTmpBuf>>
      BY <1>3, <2>1, <2>2, <3>1 DEF E, TxType
    <3>2. CASE _handleDataTransmission(E)
      BY <1>2, <2>1, <2>2, <3>2 DEF E
    <3> QED BY <1>5, <3>1, <3>2, Zenon DEF TransmissionComplete, E
  <2> QED BY <1>5, <2>3, Zenon DEF TransmissionComplete, TxType
<1>6. CASE ConfigFinishedHandler
  BY <1>6 DEF ConfigFinishedHandler, TxType, InRecord, tx
<1>7. CASE BusReset
  <2>1. in' = InAfterReset(in) /\ UNCHANGED <<tx, nextTx>> BY <1>7, Zenon DEF BusReset
  <2>2. in' \in InRecord /\ in'.left = in.left /\ in'.off = in.off
    BY <2>1, ResetType DEF TxType
  <2> QED BY <2>1, <2>2 DEF TxType, tx
<1>8. CASE StoreByte
  <2>1. AfterByte(nextTx) \in Byte BY DEF AfterByte, TxType, Byte
  <2> QED BY <1>8, <2>1 DEF StoreByte, TxType
<1>9. CASE PublishByte
  BY <1>9, WrapSlot DEF PublishByte, TxType
<1>10. CASE StartTransmission
  <2>1. /\ in' \in InRecord /\ txTmpBuf' \in Seq(Byte) /\ txBufTail' \in Slot
        /\ in'.left # 0 => in'.off = 0 /\ in'.left = Len(txTmpBuf')
    BY <1>2, <1>10 DEF StartTransmission, TxType
  <2> QED BY <1>10, <2>1, Zenon DEF StartTransmission, TxType
<1>11. CASE HostReads \/ HostReadsEmpty
  <2>1. SubSeq(in.fifo, in.size + 1, Len(in.fifo)) \in Seq(Byte)
    BY SubSeqProperties, LenProperties, ElementOfSeq DEF TxType, InRecord
  <2> QED BY <1>11, <2>1 DEF HostReads, HostReadsEmpty, Sent, TxType, InRecord, tx
<1>12. CASE \/ CallWrite \/ CallRead \/ CheckBusy \/ CheckConfigured \/ WriteReturns
            \/ ReadByte \/ WrapTail \/ RxFifoLevel \/ ReceptionComplete \/ Unconfigure
            \/ HostSends \/ UNCHANGED vars
  <2>1. UNCHANGED <<tx, in, nextTx>>
    BY <1>12, Zenon DEF CallWrite, CallRead, CheckBusy, CheckConfigured, WriteReturns, ReadByte,
       WrapTail, RxFifoLevel, ReceptionComplete, Unconfigure, HostSends, vars
  <2> QED BY <1>1, <2>1
<1> QED
  BY <1>4, <1>5, <1>6, <1>7, <1>8, <1>9, <1>10, <1>11, <1>12, Zenon DEF Next, InCall, Interrupt

\* The same for the direction from the host.
LEMMA InitiateReceptionType ==
  ASSUME NEW R \in OutRecord
  PROVE  /\ Reception(R) \in OutRecord /\ Reception(R).off = 0
         /\ Reception(R).left = EP_MAX_PACKET
<1>0. Packets(EP_MAX_PACKET) \in Nat BY Sizes, PacketsOf
<1> DEFINE new == [R EXCEPT !.data = "rxTmpBuf", !.off = 0, !.left = EP_MAX_PACKET,
                            !.handler = "_handleDataReception", !.count = Packets(EP_MAX_PACKET),
                            !.armed = TRUE]
<1>1. new \in OutRecord BY <1>0, Sizes DEF OutRecord
<1>2. new.off = 0 /\ new.left = EP_MAX_PACKET BY DEF OutRecord
<1> QED BY <1>1, <1>2, Zenon DEF Reception, InitiateReception

LEMMA ReceptionEndedType ==
  ASSUME NEW R \in OutRecord PROVE ReceptionEnded(R) \in OutRecord
BY DEF ReceptionEnded, OutRecord

LEMMA OutResetType ==
  ASSUME NEW R \in OutRecord
  PROVE  /\ OutAfterReset(R) \in OutRecord
         /\ OutAfterReset(R).off = R.off /\ OutAfterReset(R).left = R.left
<1> DEFINE new == [R EXCEPT !.fifo = NoPacket, !.xfrc = FALSE, !.armed = FALSE]
<1>1. NoPacket \in Seq(RxByte) BY DEF NoPacket
<1>2. new \in OutRecord BY <1>1 DEF OutRecord
<1>3. new.off = R.off /\ new.left = R.left BY DEF OutRecord
<1> QED BY <1>2, <1>3, Zenon DEF OutAfterReset

LEMMA PacketReadType ==
  ASSUME NEW R \in OutRecord
  PROVE  LET new == PacketRead(R) IN
         /\ new \in OutRecord
         /\ new.off + new.left = R.off + R.left
         /\ new.off <= R.off + Len(R.fifo)
<1> DEFINE n == Least(R.left, Len(R.fifo))
           new == [R EXCEPT !.off = R.off + n, !.left = R.left - n, !.received = R.received + n,
                            !.fifo = NoPacket, !.xfrc = TRUE]
<1>1. R.off \in Nat /\ R.left \in Nat /\ R.received \in Nat /\ R.fifo \in Seq(RxByte)
  BY DEF OutRecord
<1>2. Len(R.fifo) \in Nat BY <1>1, LenProperties
<1>3. n \in Nat /\ n <= R.left /\ n <= Len(R.fifo) BY <1>1, <1>2 DEF Least
<1>4. R.off + n \in Nat /\ R.left - n \in Nat /\ R.received + n \in Nat BY <1>1, <1>3
<1>5. NoPacket \in Seq(RxByte) BY DEF NoPacket
<1>6. PacketRead(R) = new BY DEF PacketRead
<1>7. new.off = R.off + n /\ new.left = R.left - n
  <2> HIDE DEF n
  <2> QED BY DEF OutRecord
<1>8. new \in OutRecord
  <2> HIDE DEF n
  <2> QED BY <1>4, <1>5 DEF OutRecord
<1> HIDE DEF new, n
<1> QED BY <1>1, <1>3, <1>6, <1>7, <1>8

LEMMA HandedOverType ==
  ASSUME RxType
  PROVE  BytesHandedOver(out, rxTmpBuf) \in Seq(RxByte \cup {NULL})
<1> DEFINE bytes == BytesHandedOver(out, rxTmpBuf)
<1>1. out.received \in Nat /\ out.off \in Nat /\ out.left \in Nat
      /\ out.off + out.left <= EP_MAX_PACKET
  BY DEF RxType, OutRecord
<1>2. \A i \in 1 .. out.received : i + out.off > out.received =>
         rxTmpBuf[i + out.off - out.received] \in RxByte
  BY <1>1, Sizes DEF RxType
<1>3. bytes \in [1 .. out.received -> RxByte \cup {NULL}] BY <1>2 DEF BytesHandedOver
<1> QED BY <1>1, <1>3, SeqDef

LEMMA NextRxType == RxType /\ [Next]_vars => RxType'
<1> SUFFICES ASSUME RxType, [Next]_vars PROVE RxType' OBVIOUS
<1>1. CASE UNCHANGED <<rx, out, nextRx>> /\ (pc' # "wrap" => pc # "wrap")
  BY <1>1 DEF RxType, rx
<1>2. CASE RxFifoLevel
  <2>1. out \in OutRecord /\ out' = PacketRead(out) /\ out.off + out.left <= EP_MAX_PACKET
    BY <1>2, Zenon DEF RxFifoLevel, RxType
  <2>2. out' \in OutRecord /\ out'.off + out'.left = out.off + out.left
        /\ out'.off <= out.off + Len(out.fifo)
    BY <2>1, PacketReadType
  <2>3. rxTmpBuf' \in [1 .. EP_MAX_PACKET -> RxByte]
    <3>1. out.off \in Nat /\ out.fifo \in Seq(RxByte) /\ out'.off \in Nat
      BY <2>1, <2>2 DEF OutRecord
    <3>2. \A i \in out.off + 1 .. out'.off : out.fifo[i - out.off] \in RxByte
      <4> SUFFICES ASSUME NEW i \in out.off + 1 .. out'.off PROVE out.fifo[i - out.off] \in RxByte
        OBVIOUS
      <4>1. i - out.off \in 1 .. Len(out.fifo) BY <2>2, <3>1, LenProperties
      <4> QED BY <3>1, <4>1, ElementOfSeq
    <3>3. rxTmpBuf' = [i \in 1 .. EP_MAX_PACKET |->
             IF i \in out.off + 1 .. out'.off THEN out.fifo[i - out.off] ELSE rxTmpBuf[i]]
      BY <1>2 DEF RxFifoLevel, RxType
    <3>4. rxTmpBuf \in [1 .. EP_MAX_PACKET -> RxByte] BY DEF RxType
    <3> QED BY <3>2, <3>3, <3>4
  <2>4. UNCHANGED <<rxBuf, rxBufHead, rxBufTail, pc, nextRx>>
    BY <1>2, Zenon DEF RxFifoLevel, task
  <2> QED BY <2>1, <2>2, <2>3, <2>4 DEF RxType
<1>3. CASE ReceptionComplete
  <2> DEFINE bytes == BytesHandedOver(out, rxTmpBuf)
             n == Len(bytes)
             k == Stored(n)
  <2>1. out.received \in Nat /\ out.off \in Nat /\ out.left \in Nat /\ out \in OutRecord
        /\ out.off + out.left <= EP_MAX_PACKET
    BY DEF RxType, OutRecord
  <2>2. bytes \in Seq(RxByte \cup {NULL}) BY HandedOverType
  <2>3. n \in Nat /\ k \in 0 .. n BY <2>2, StoredRange, LenProperties
  <2> HIDE DEF bytes, n, k
  <2>4. /\ rxBuf' = [i \in Slot |->
                       LET j == (i + VCP_BUF_LEN - rxBufHead) % VCP_BUF_LEN
                       IN IF j < k THEN bytes[j + 1] ELSE rxBuf[i]]
        /\ rxBufHead' = (rxBufHead + k) % VCP_BUF_LEN
        /\ out' = Reception(ReceptionEnded(out))
        /\ UNCHANGED <<rxBufTail, rxTmpBuf, nextRx, pc>>
    BY <1>3 DEF ReceptionComplete, _handleDataReception, bytes, n, k, task
  <2>5. rxBuf' \in [Slot -> RxByte \cup {NULL}]
    <3>1. ASSUME NEW i \in Slot, NEW j, j = (i + VCP_BUF_LEN - rxBufHead) % VCP_BUF_LEN, j < k
          PROVE  bytes[j + 1] \in RxByte \cup {NULL}
      <4>1. i + VCP_BUF_LEN - rxBufHead \in Int BY Sizes DEF RxType, Slot
      <4>2. j \in Slot BY <3>1, <4>1, ModSlot
      <4>3. j + 1 \in 1 .. Len(bytes) BY <2>3, <3>1, <4>2 DEF Slot, n
      <4> QED BY <2>2, <4>3, ElementOfSeq
    <3>2. rxBuf \in [Slot -> RxByte \cup {NULL}] BY DEF RxType
    <3> QED BY <2>4, <3>1, <3>2
  <2>6. rxBufHead' \in Slot
    <3>1. rxBufHead + k \in Int BY <2>3 DEF RxType, Slot
    <3> QED BY <2>4, <3>1, ModSlot
  <2>7. out' \in OutRecord /\ out'.off = 0 /\ out'.left = EP_MAX_PACKET
    BY <2>1, <2>4, ReceptionEndedType, InitiateReceptionType
  <2> QED BY <2>4, <2>5, <2>6, <2>7, Sizes DEF RxType
<1>4. CASE ConfigFinishedHandler
  <2>1. out' = Reception(out) /\ UNCHANGED <<rx, nextRx, pc>>
    BY <1>4, Zenon DEF ConfigFinishedHandler, task
  <2>2. out' \in OutRecord /\ out'.off = 0 /\ out'.left = EP_MAX_PACKET
    BY <2>1, InitiateReceptionType DEF RxType
  <2> QED BY <2>1, <2>2, Sizes DEF RxType, rx
<1>5. CASE BusReset
  <2>1. out' = OutAfterReset(out) /\ UNCHANGED <<rx, nextRx, pc>> BY <1>5, Zenon DEF BusReset, task
  <2>2. out' \in OutRecord /\ out'.off = out.off /\ out'.left = out.left
    BY <2>1, OutResetType DEF RxType
  <2> QED BY <2>1, <2>2, Sizes DEF RxType, rx
<1>6. CASE ReadByte
  <2>1. rxBufTail' \in 0 .. VCP_BUF_LEN /\ pc' = "wrap" /\ UNCHANGED <<rxBuf, rxBufHead, rxTmpBuf, out, nextRx>>
    BY <1>6, Sizes DEF ReadByte, RxType, Slot
  <2> QED BY <2>1 DEF RxType
<1>7. CASE WrapTail
  <2>1. rxBufTail' \in Slot /\ UNCHANGED <<rxBuf, rxBufHead, rxTmpBuf, out, nextRx>>
    BY <1>7, Sizes DEF WrapTail, Wrap, RxType, Slot
  <2> QED BY <2>1, Sizes DEF RxType, Slot
<1>8. CASE HostSends
  <2> DEFINE pkt == packet'
  <2>1. PICK n \in 1 .. EP_MAX_PACKET :
          /\ pkt = [i \in 1 .. n |-> (nextRx + i - 1) % NumRxBytes]
          /\ out' = Arrived(out, pkt)
          /\ nextRx' = (nextRx + n) % NumRxBytes
    BY <1>8, Zenon DEF HostSends
  <2>2. \A a \in Int : a % NumRxBytes \in RxByte BY Sizes DEF RxByte
  <2>3. \A i \in 1 .. n : nextRx + i - 1 \in Int BY DEF RxType, RxByte
  <2>4. pkt \in [1 .. n -> RxByte] BY <2>1, <2>2, <2>3
  <2>5. pkt \in Seq(RxByte) BY <2>4, SeqDef
  <2>6. nextRx' \in RxByte
    <3>1. nextRx + n \in Int BY DEF RxType, RxByte
    <3> QED BY <2>1, <2>2, <3>1
  <2> HIDE DEF pkt
  <2>7. out' \in OutRecord /\ out'.off = out.off /\ out'.left = out.left
    <3>1. out' = Arrived(out, pkt) BY <2>1
    <3>2. out' = [out EXCEPT !.armed = FALSE, !.fifo = pkt, !.xfrc = (pkt = NoPacket)]
      BY <3>1 DEF Arrived
    <3>3. (pkt = NoPacket) \in BOOLEAN OBVIOUS
    <3> QED BY <2>5, <3>2, <3>3 DEF OutRecord, RxType
  <2> QED BY <1>8, <2>6, <2>7, Zenon DEF HostSends, RxType, rx, task
<1>9. CASE \/ CallWrite \/ CallRead \/ CheckBusy \/ CheckConfigured \/ WriteReturns
           \/ StoreByte \/ PublishByte \/ StartTransmission
           \/ TxFifoEmpty \/ TransmissionComplete \/ Unconfigure \/ HostReads
           \/ HostReadsEmpty \/ UNCHANGED vars
  <2>1. UNCHANGED <<rx, out, nextRx>> /\ (UNCHANGED pc \/ pc # "wrap")
    BY <1>9 DEF CallWrite, CallRead, CheckBusy, CheckConfigured, WriteReturns, StoreByte,
       PublishByte, StartTransmission, TxFifoEmpty, TransmissionComplete, Unconfigure, HostReads,
       HostReadsEmpty, vars, task
  <2> QED BY <1>1, <2>1
<1> QED
  BY <1>2, <1>3, <1>4, <1>5, <1>6, <1>7, <1>8, <1>9, Zenon DEF Next, InCall, Interrupt

\* The calls of the task.
LEMMA NextTaskType == RxType /\ TaskType /\ [Next]_vars => TaskType'
<1> SUFFICES ASSUME RxType, TaskType, [Next]_vars PROVE TaskType' OBVIOUS
<1>1. CASE UNCHANGED task /\ connState' \in {"DEFAULT", "CONFIGURED"} /\ primed' \in BOOLEAN
  BY <1>1 DEF TaskType, Counted, task
<1>2. CASE UNCHANGED <<connState, primed>> /\ Counted'
           /\ pc' \in {"idle", "store", "publish", "busy", "conn", "start", "return", "read", "wrap"}
           /\ bytesLeft' \in Int /\ bytesLeft' >= -1
           /\ readLeft' \in Nat /\ (pc' = "read" => readLeft' > 0)
  BY <1>2, Zenon DEF TaskType
<1>3. CASE CallWrite
  BY <1>2, <1>3, VcpAssumption DEF CallWrite, TaskType, Counted
<1>4. CASE StoreByte
  BY <1>2, <1>4 DEF StoreByte, TaskType, Counted, history
<1>5. CASE PublishByte
  BY <1>2, <1>5 DEF PublishByte, TaskType, Counted
<1>6. CASE CheckBusy
  <2>1. primed' \in BOOLEAN /\ UNCHANGED connState
    BY <1>6, Zenon DEF CheckBusy, TaskType, txBusy
  <2>2. /\ pc = "busy" /\ pc' \in {"return", "conn"}
        /\ UNCHANGED <<bytesLeft, readLeft>>
    BY <1>6 DEF CheckBusy
  <2>3. Counted' BY <2>2 DEF TaskType, Counted
  <2> QED BY <2>1, <2>2, <2>3 DEF TaskType
<1>7. CASE CheckConfigured
  BY <1>2, <1>7 DEF CheckConfigured, TaskType, Counted, history
<1>8. CASE StartTransmission
  <2>1. /\ pc = "start" /\ pc' = "return" /\ primed' = TRUE
        /\ UNCHANGED <<connState, bytesLeft, readLeft>>
    BY <1>8, Zenon DEF StartTransmission
  <2>2. Counted' BY <2>1 DEF TaskType, Counted
  <2> QED BY <2>1, <2>2 DEF TaskType
<1>9. CASE WriteReturns
  BY <1>2, <1>9 DEF WriteReturns, TaskType, Counted
<1>10. CASE CallRead
  <2>1. PICK maxLen \in Lengths : readLeft' = Least(VCP_available, maxLen)
    BY <1>10, Zenon DEF CallRead
  <2>2. VCP_available \in Nat /\ VCP_available > 0 /\ maxLen \in Nat /\ maxLen > 0
    <3>1. rxBufHead + VCP_BUF_LEN - rxBufTail \in Int BY Sizes DEF RxType, Slot
    <3>2. VCP_available \in Slot BY <3>1, ModSlot DEF VCP_available, Count
    <3>3. maxLen \in Nat \ {0} BY <2>1, VcpAssumption, Zenon
    <3> QED BY <1>10, <3>2, <3>3 DEF CallRead, Slot
  <2>3. readLeft' \in Nat /\ readLeft' > 0 BY <2>1, <2>2 DEF Least
  <2>4. pc' = "read" /\ UNCHANGED <<connState, bytesLeft, primed>>
    BY <1>10, Zenon DEF CallRead, history
  <2>5. Counted' BY <2>4 DEF Counted
  <2> QED BY <2>3, <2>4, <2>5 DEF TaskType
<1>11. CASE ReadByte
  BY <1>2, <1>11 DEF ReadByte, TaskType, Counted
<1>12. CASE WrapTail
  <2>1. /\ pc' \in {"idle", "read"} /\ (pc' = "read" => readLeft # 0)
        /\ UNCHANGED <<connState, bytesLeft, readLeft, primed>>
    BY <1>12 DEF WrapTail, history
  <2>2. Counted' BY <2>1 DEF Counted
  <2> QED BY <2>1, <2>2 DEF TaskType
<1>13. CASE ReceptionComplete
  BY <1>1, <1>13, Zenon DEF ReceptionComplete, TaskType
<1>14. CASE ConfigFinishedHandler \/ Unconfigure \/ BusReset
  <2>1. /\ connState' \in {"DEFAULT", "CONFIGURED"} /\ primed' \in BOOLEAN
        /\ UNCHANGED task
    BY <1>14 DEF ConfigFinishedHandler, Unconfigure, BusReset, TaskType, history
  <2> QED BY <1>1, <2>1 DEF TaskType
<1>15. CASE TxFifoEmpty \/ TransmissionComplete \/ RxFifoLevel \/ HostReads \/ HostReadsEmpty
            \/ HostSends \/ UNCHANGED vars
  <2>1. UNCHANGED <<task, connState, primed>>
    BY <1>15, Zenon DEF TxFifoEmpty, TransmissionComplete, RxFifoLevel, HostReads, HostReadsEmpty,
       HostSends, vars, history
  <2> QED BY <1>1, <2>1 DEF TaskType
<1> QED
  BY <1>3, <1>4, <1>5, <1>6, <1>7, <1>8, <1>9, <1>10, <1>11, <1>12, <1>13, <1>14, <1>15, Zenon
  DEF Next, InCall, Interrupt

\* Every variable keeps its type: in particular the indices stay in their
\* buffers, although rxBufTail is one past the end for a statement.
THEOREM TypesCorrect == Spec => []TypeOK
<1> DEFINE Types == TxType /\ RxType /\ TaskType
<1>1. Init => Types BY InitTypes
<1>2. Types /\ [Next]_vars => Types' BY NextTxType, NextRxType, NextTaskType
<1>3. Types => TypeOK
  <2> SUFFICES ASSUME Types PROVE TypeOK OBVIOUS
  <2>1. /\ in.data \in {NULL, "txTmpBuf"} /\ in.handler \in {NULL, "_handleDataTransmission"}
        /\ in.packetsLeft = 0 /\ in.dataLeft = 0
    BY DEF TxType, InRecord
  <2>2. readLeft >= 0 BY DEF TaskType
  <2> QED BY <2>1, <2>2, Zenon DEF TypeOK, TxType, RxType, TaskType
<1> QED BY <1>1, <1>2, <1>3, PTL DEF Spec

----------------------------------------------------------------------------
(* No byte is left behind, if the bus is reset only between transfers.      *)

\* A transfer has a handler, nothing but the transfer has one, and there is a
\* transfer only while the device is configured: so its end fetches what is
\* in the ring.
Wakes ==
  /\ in.data = NULL <=> in.handler = NULL
  /\ txBusy(in) \/ pc = "start" \/ primed => connState = "CONFIGURED"
  /\ primed /\ pc \in {"idle", "read", "wrap", "return"} /\ txBufHead # txBufTail => txBusy(in)

\* The callback starts a transfer if there is something to send.
LEMMA CallbackStarts ==
  ASSUME TxType, NEW E \in InRecord, _handleDataTransmission(E)
  PROVE  \/ /\ txBufHead # txBufTail
            /\ in'.data = "txTmpBuf" /\ in'.handler = "_handleDataTransmission"
         \/ /\ txBufHead = txBufTail /\ in' = E /\ UNCHANGED <<txBufTail, txTmpBuf>>
<1> DEFINE n == Least(Count(txBufHead, txBufTail), EP_MAX_PACKET)
<1>1. Count(txBufHead, txBufTail) \in Slot
      /\ (Count(txBufHead, txBufTail) = 0 <=> txBufHead = txBufTail)
  <2>1. txBufHead \in Slot /\ txBufTail \in Slot BY DEF TxType
  <2> QED BY <2>1, CountValue, Sizes DEF Slot
<1>2. n \in 0 .. EP_MAX_PACKET /\ (n = 0 <=> txBufHead = txBufTail)
  BY <1>1, Sizes DEF Least, Slot
<1>3. CASE n = 0
  BY <1>2, <1>3, Zenon DEF _handleDataTransmission
<1>4. CASE n # 0
  <2>1. in' = InitiateTransfer(E, "txTmpBuf", n, "_handleDataTransmission")
    BY <1>4, Zenon DEF _handleDataTransmission
  <2> HIDE DEF n
  <2>2. "txTmpBuf" \in {NULL, "txTmpBuf"}
        /\ "_handleDataTransmission" \in {NULL, "_handleDataTransmission"}
    OBVIOUS
  <2>3. Started(in', E, "txTmpBuf", n, "_handleDataTransmission")
    BY <1>2, <2>1, <2>2, InitiateTransferType
  <2> QED BY <1>2, <1>4, <2>3 DEF Started
<1> QED BY <1>3, <1>4

LEMMA NextWakes ==
  ASSUME ResetPoints = "idle"
  PROVE  TxType /\ Wakes /\ [Next]_vars => Wakes'
<1> SUFFICES ASSUME TxType, Wakes, [Next]_vars PROVE Wakes' OBVIOUS
<1>1. NULL # "txTmpBuf" /\ NULL # "_handleDataTransmission"
  BY VcpAssumption
<1>2. ASSUME in'.data = in.data, in'.handler = in.handler, UNCHANGED <<txBufHead, txBufTail>>,
             UNCHANGED <<connState, pc, primed>> \/ (connState' = "CONFIGURED" /\ UNCHANGED <<pc, primed>>)
      PROVE  Wakes'
  BY <1>2 DEF Wakes, txBusy
<1>3. CASE TxFifoEmpty
  <2>1. in'.data = in.data /\ in'.handler = in.handler
    BY <1>3, LoadType DEF TxFifoEmpty, TxType, Loaded
  <2> QED BY <1>2, <1>3, <2>1, Zenon DEF TxFifoEmpty, tx, task, history
<1>4. CASE TransmissionComplete
  <2> DEFINE E == TransferEnded(in)
  <2>1. E \in InRecord /\ E.data = NULL /\ E.handler = NULL BY DEF TransferEnded, TxType, InRecord
  <2>2. UNCHANGED <<connState, pc, primed, txBufHead>>
    BY <1>4, Zenon DEF TransmissionComplete, task, history
  <2>3. CASE (in.handler = NULL \/ txBufHead = txBufTail) /\ in' = ZlpIfFull(E)
             /\ UNCHANGED <<txBufTail, txTmpBuf>>
    <3>1. in'.data = NULL /\ in'.handler = NULL
      BY <2>1, <2>3, ZlpType
    <3> QED BY <2>2, <2>3, <3>1 DEF Wakes, txBusy
  <2>4. CASE in.handler # NULL /\ _handleDataTransmission(E)
    <3>1. \/ in'.data = "txTmpBuf" /\ in'.handler = "_handleDataTransmission"
          \/ txBufHead = txBufTail /\ in' = E /\ UNCHANGED txBufTail
      BY <2>1, <2>4, CallbackStarts
    <3> HIDE DEF E
    <3> QED BY <1>1, <2>1, <2>2, <2>4, <3>1 DEF Wakes, txBusy
  <2> QED BY <1>4, <2>3, <2>4, Zenon DEF TransmissionComplete
<1>5. CASE ConfigFinishedHandler
  <2>1. in'.data = in.data /\ in'.handler = in.handler
    BY <1>5 DEF ConfigFinishedHandler, TxType, InRecord
  <2> QED BY <1>2, <1>5, <2>1, Zenon DEF ConfigFinishedHandler, tx, task, history
<1>6. CASE Unconfigure \/ BusReset
  <2>1. in'.data = in.data /\ in'.handler = in.handler
    BY <1>6, ResetType DEF Unconfigure, BusReset, TxType
  <2>2. ~txBusy(in) /\ pc # "start" /\ primed' = FALSE /\ UNCHANGED <<pc, txBufHead, txBufTail>>
    BY <1>6, Zenon DEF Unconfigure, BusReset, BetweenTransfers, tx, task
  <2> QED BY <2>1, <2>2 DEF Wakes, txBusy
<1>7. CASE CheckBusy
  <2>1. /\ pc = "busy" /\ UNCHANGED <<connState, in, txBufHead, txBufTail>>
        /\ pc' = IF txBusy(in) THEN "return" ELSE "conn"
        /\ primed' = (primed \/ txBusy(in))
    BY <1>7, Zenon DEF CheckBusy, tx
  <2> QED BY <2>1 DEF Wakes, txBusy
<1>8. CASE CheckConfigured
  BY <1>8 DEF CheckConfigured, Wakes, txBusy, tx, history
<1>9. CASE StartTransmission
  <2>1. \/ in'.data = "txTmpBuf" /\ in'.handler = "_handleDataTransmission"
        \/ txBufHead = txBufTail /\ in' = in /\ UNCHANGED txBufTail
    BY <1>9, CallbackStarts DEF StartTransmission, TxType
  <2>2. pc = "start" /\ primed' = TRUE /\ pc' = "return" /\ UNCHANGED <<connState, txBufHead>>
    BY <1>9, Zenon DEF StartTransmission
  <2> QED BY <1>1, <2>1, <2>2 DEF Wakes, txBusy
<1>10. CASE HostReads \/ HostReadsEmpty
  <2>1. in'.data = in.data /\ in'.handler = in.handler
    BY <1>10 DEF HostReads, HostReadsEmpty, Sent, TxType, InRecord
  <2> QED BY <1>2, <1>10, <2>1, Zenon DEF HostReads, HostReadsEmpty, tx, task, history
<1>11. CASE CallWrite \/ StoreByte \/ PublishByte
  BY <1>11 DEF CallWrite, StoreByte, PublishByte, Wakes, txBusy, tx, history
<1>12. CASE WriteReturns \/ CallRead \/ ReadByte \/ WrapTail
  BY <1>12 DEF WriteReturns, CallRead, ReadByte, WrapTail, Wakes, txBusy, tx, history
<1>13. CASE RxFifoLevel \/ ReceptionComplete \/ HostSends \/ UNCHANGED vars
  BY <1>2, <1>13, Zenon DEF RxFifoLevel, ReceptionComplete, HostSends, vars, tx, task, history
<1> QED
  BY <1>3, <1>4, <1>5, <1>6, <1>7, <1>8, <1>9, <1>10, <1>11, <1>12, <1>13, Zenon
  DEF Next, InCall, Interrupt

\* No lost wake-up, for every size and however the statements of the task and
\* the interrupt interleave, as long as the bus is reset only between
\* transfers.
THEOREM NoneStranded ==
  ASSUME ResetPoints = "idle"
  PROVE  Spec => []NothingStranded
<1>1. Init => TxType /\ Wakes
  BY InitTypes DEF Init, Wakes, IdleIn, txBusy
<1>2. TxType /\ Wakes /\ [Next]_vars => (TxType /\ Wakes)' BY NextTxType, NextWakes
<1>3. Wakes => NothingStranded BY DEF Wakes, NothingStranded
<1> QED BY <1>1, <1>2, <1>3, PTL DEF Spec

----------------------------------------------------------------------------
(* The direction to the host implements ByteStream. First, what the         *)
(* operations on the indices do to the bytes in the ring.                   *)

\* The slot of the i-th byte.
At(tail, i) == IF tail + i - 1 < VCP_BUF_LEN THEN tail + i - 1 ELSE (tail + i - 1) - VCP_BUF_LEN

Bytes(B, buf, head, tail) ==
  /\ Ring(buf, head, tail) \in Seq(B)
  /\ Len(Ring(buf, head, tail)) = Count(head, tail)
  /\ Count(head, tail) \in Slot
  /\ \A i \in 1 .. Count(head, tail) :
       Ring(buf, head, tail)[i] = buf[At(tail, i)] /\ At(tail, i) \in Slot

LEMMA RingElement ==
  ASSUME NEW B, NEW buf \in [Slot -> B], NEW head \in Slot, NEW tail \in Slot
  PROVE  Bytes(B, buf, head, tail)
<1>1. /\ Ring(buf, head, tail) \in Seq(B)
      /\ Len(Ring(buf, head, tail)) = Count(head, tail)
      /\ Count(head, tail) \in Slot
  BY RingType, Zenon
<1>2. ASSUME NEW i \in 1 .. Count(head, tail)
      PROVE  (tail + i - 1) % VCP_BUF_LEN = At(tail, i) /\ At(tail, i) \in Slot
  <2>1. tail + i - 1 \in 0 .. 2 * VCP_BUF_LEN - 1 BY <1>1, Sizes DEF Slot
  <2>2. (tail + i - 1) % VCP_BUF_LEN = At(tail, i) BY <2>1, ModTwice, Zenon DEF At
  <2>3. At(tail, i) \in Slot BY <2>1, Sizes DEF Slot, At
  <2> QED BY <2>2, <2>3
<1>3. \A i \in 1 .. Count(head, tail) : Ring(buf, head, tail)[i] = buf[(tail + i - 1) % VCP_BUF_LEN]
  BY DEF Ring
<1> QED BY <1>1, <1>2, <1>3, Zenon DEF Bytes

\* The slot at the head is not in the ring: a byte is stored unseen.
LEMMA RingStore ==
  ASSUME NEW B, NEW buf \in [Slot -> B], NEW head \in Slot, NEW tail \in Slot, NEW b \in B
  PROVE  Ring([buf EXCEPT ![head] = b], head, tail) = Ring(buf, head, tail)
<1> DEFINE new == [buf EXCEPT ![head] = b]
<1>1. new \in [Slot -> B] OBVIOUS
<1> HIDE DEF new
<1>2. Bytes(B, buf, head, tail) /\ Bytes(B, new, head, tail) BY <1>1, RingElement
<1>3. \A i \in 1 .. Count(head, tail) : At(tail, i) # head
  <2>1. Count(head, tail) = IF head >= tail THEN head - tail ELSE head + VCP_BUF_LEN - tail
    BY CountValue
  <2> QED BY <2>1, Sizes DEF At, Slot
<1>4. \A i \in 1 .. Count(head, tail) : Ring(new, head, tail)[i] = Ring(buf, head, tail)[i]
  <2> SUFFICES ASSUME NEW i \in 1 .. Count(head, tail)
               PROVE  Ring(new, head, tail)[i] = Ring(buf, head, tail)[i]
    OBVIOUS
  <2>1. At(tail, i) \in Slot /\ At(tail, i) # head BY <1>2, <1>3 DEF Bytes
  <2>2. new[At(tail, i)] = buf[At(tail, i)] BY <2>1 DEF new
  <2> QED BY <1>2, <2>2 DEF Bytes
<1>5. Ring(new, head, tail) = Ring(buf, head, tail)
  BY <1>2, <1>4, SeqEqual DEF Bytes
<1> QED BY <1>5 DEF new

\* A ring that is not full is longer by a byte when the head moves.
LEMMA RingPublish ==
  ASSUME NEW B, NEW buf \in [Slot -> B], NEW head \in Slot, NEW tail \in Slot,
         Count(head, tail) <= VCP_BUF_LEN - 2
  PROVE  /\ Count(Wrap(head + 1), tail) = Count(head, tail) + 1
         /\ Ring(buf, Wrap(head + 1), tail) = Append(Ring(buf, head, tail), buf[head])
<1> DEFINE n == Count(head, tail)
<1>1. Bytes(B, buf, head, tail) /\ Wrap(head + 1) \in Slot /\ n \in Slot
  <2>1. Bytes(B, buf, head, tail) BY RingElement
  <2> QED BY <2>1, WrapSlot DEF Bytes
<1>2. n = IF head >= tail THEN head - tail ELSE head + VCP_BUF_LEN - tail BY CountValue
<1>3. Count(Wrap(head + 1), tail) = n + 1
  <2>1. CASE head + 1 = VCP_BUF_LEN
    <3>1. Wrap(head + 1) = 0 BY <2>1 DEF Wrap
    <3>2. tail > 0 BY <1>2, <2>1, Sizes DEF Slot
    <3>3. Count(0, tail) = VCP_BUF_LEN - tail
      BY <1>1, <3>1, <3>2, CountValue, Sizes DEF Slot
    <3> QED BY <1>2, <2>1, <3>1, <3>3, Sizes DEF Slot
  <2>2. CASE head + 1 # VCP_BUF_LEN
    <3>1. Wrap(head + 1) = head + 1 BY <2>2 DEF Wrap
    <3>2. head + 1 # tail BY <1>2, Sizes DEF Slot
    <3>3. Count(Wrap(head + 1), tail)
            = IF Wrap(head + 1) >= tail THEN Wrap(head + 1) - tail
              ELSE Wrap(head + 1) + VCP_BUF_LEN - tail
      BY <1>1, CountValue
    <3> HIDE DEF n
    <3> QED BY <1>2, <3>1, <3>2, <3>3, Sizes DEF Slot
  <2> QED BY <2>1, <2>2
<1>4. At(tail, n + 1) = head BY <1>1, <1>2, Sizes DEF At, Slot
<1> DEFINE old == Ring(buf, head, tail)
           new == Ring(buf, Wrap(head + 1), tail)
<1>5. old \in Seq(B) /\ Len(old) = n /\ \A i \in 1 .. n : old[i] = buf[At(tail, i)]
  BY <1>1 DEF Bytes
<1>6. new \in Seq(B) /\ Len(new) = n + 1 /\ \A i \in 1 .. n + 1 : new[i] = buf[At(tail, i)]
  <2>1. Bytes(B, buf, Wrap(head + 1), tail) BY <1>1, RingElement
  <2> QED BY <1>3, <2>1 DEF Bytes
<1>7. buf[head] \in B OBVIOUS
<1> HIDE DEF n, old, new
<1>8. new = Append(old, buf[head])
  <2>1. n \in Nat BY <1>1 DEF Slot
  <2>2. Append(old, buf[head]) \in Seq(B) /\ Len(Append(old, buf[head])) = n + 1
        /\ (\A i \in 1 .. n : Append(old, buf[head])[i] = old[i])
        /\ Append(old, buf[head])[n + 1] = buf[head]
    BY <1>5, <1>7, AppendProperties
  <2>3. \A i \in 1 .. n + 1 : new[i] = Append(old, buf[head])[i]
    BY <1>4, <1>5, <1>6, <2>1, <2>2
  <2> QED BY <1>6, <2>2, <2>3, SeqEqual
<1> QED BY <1>3, <1>8 DEF n, old, new

\* When the tail moves, the bytes it moves over are gone.
Moved(buf, head, tail, n) ==
  LET next == (tail + n) % VCP_BUF_LEN IN
  /\ next \in Slot
  /\ Count(head, next) = Count(head, tail) - n
  /\ Ring(buf, head, next) = SubSeq(Ring(buf, head, tail), n + 1, Count(head, tail))

LEMMA RingTake ==
  ASSUME NEW B, NEW buf \in [Slot -> B], NEW head \in Slot, NEW tail \in Slot,
         NEW n \in 0 .. Count(head, tail)
  PROVE  Moved(buf, head, tail, n)
<1> DEFINE next == (tail + n) % VCP_BUF_LEN
           c == Count(head, tail)
           old == Ring(buf, head, tail)
           new == Ring(buf, head, next)
           rest == SubSeq(old, n + 1, c)
<1>0. Bytes(B, buf, head, tail) BY RingElement
<1>1. c \in Slot /\ n \in Nat /\ n <= c
  <2>1. c \in Slot BY <1>0 DEF Bytes
  <2> QED BY <2>1 DEF Slot
<1>2. c = IF head >= tail THEN head - tail ELSE head + VCP_BUF_LEN - tail BY CountValue
<1>3. next = IF tail + n < VCP_BUF_LEN THEN tail + n ELSE (tail + n) - VCP_BUF_LEN
  <2>1. n \in Slot BY <1>1, Sizes DEF Slot
  <2> QED BY <2>1, ModSum, Zenon
<1> HIDE DEF next, c
<1>4. next \in Slot BY <1>1, <1>3, Sizes DEF Slot
<1>5. Count(head, next) = c - n
  <2>1. Count(head, next) = IF head >= next THEN head - next ELSE head + VCP_BUF_LEN - next
    BY <1>4, CountValue
  <2> QED BY <1>1, <1>2, <1>3, <2>1, Sizes DEF Slot
<1>6. old \in Seq(B) /\ Len(old) = c /\ \A i \in 1 .. c : old[i] = buf[At(tail, i)]
  BY <1>0 DEF Bytes, c
<1>7. new \in Seq(B) /\ Len(new) = c - n /\ \A i \in 1 .. c - n : new[i] = buf[At(next, i)]
  <2>1. Bytes(B, buf, head, next) BY <1>4, RingElement
  <2> QED BY <1>5, <2>1 DEF Bytes
<1> HIDE DEF old, new
<1>8. rest \in Seq(B) /\ Len(rest) = c - n /\ \A i \in 1 .. c - n : rest[i] = old[n + i]
  <2>1. c \in Nat BY <1>1 DEF Slot
  <2>2. \A i \in n + 1 .. c : old[i] \in B BY <1>1, <1>6, <2>1, ElementOfSeq
  <2>3. /\ rest \in Seq(B)
        /\ Len(rest) = IF n + 1 <= c THEN c - (n + 1) + 1 ELSE 0
        /\ \A i \in 1 .. c - (n + 1) + 1 : rest[i] = old[n + 1 + i - 1]
    <3> HIDE DEF rest
    <3>1. n + 1 \in Int /\ c \in Int BY <1>1, <2>1
    <3> QED BY <2>2, <3>1, SubSeqProperties DEF rest
  <2> HIDE DEF rest
  <2> QED BY <1>1, <2>1, <2>3
<1>9. \A i \in 1 .. c - n : At(next, i) = At(tail, n + i)
  BY <1>1, <1>3, Sizes DEF At, Slot
<1>10. \A i \in 1 .. c - n : new[i] = rest[i]
  <2> SUFFICES ASSUME NEW i \in 1 .. c - n PROVE new[i] = rest[i] OBVIOUS
  <2>1. n + i \in 1 .. c BY <1>1 DEF Slot
  <2> HIDE DEF rest
  <2> QED BY <1>6, <1>7, <1>8, <1>9, <2>1
<1> HIDE DEF rest
<1>11. new = rest BY <1>7, <1>8, <1>10, SeqEqual
<1> QED BY <1>4, <1>5, <1>11 DEF Moved, next, c, old, new, rest

\* Without a transfer the endpoint holds nothing. A transfer is to be loaded,
\* or loaded, or has been sent.
Shape(E) ==
  /\ E.data = NULL => /\ E.left = 0 /\ E.fifo = <<>> /\ ~E.xfrc
                     /\ (E.armed => E.size = 0 /\ E.count = 0)
  /\ E.data # NULL => E.count # 0
  /\ E.data # NULL =>
       \/ E.left # 0 /\ E.fifo = <<>> /\ ~E.xfrc /\ E.size = E.left
       \/ E.left = 0 /\ E.fifo # <<>> /\ ~E.xfrc /\ E.size = Len(E.fifo)
       \/ E.left = 0 /\ E.fifo = <<>> /\ E.xfrc /\ ~E.armed

\* The callback is called only without a transfer, and a byte is stored only
\* if there is room for it.
InPlace ==
  /\ Shape(in)
  /\ pc \in {"conn", "start"} => in.data = NULL
  /\ pc = "publish" => Count(txBufHead, txBufTail) <= VCP_BUF_LEN - 2

\* What has left the ring and not reached the host.
Chunk(E, mem) == IF E.left = 0 THEN E.fifo ELSE mem

LEMMA ChunkIsPending ==
  ASSUME NEW E \in InRecord, Shape(E), NEW mem \in Seq(Byte),
         E.left # 0 => E.off = 0 /\ E.left = Len(mem)
  PROVE  /\ E.fifo \o SubSeq(mem, E.off + 1, E.off + E.left) = Chunk(E, mem)
         /\ Chunk(E, mem) \in Seq(Byte)
         /\ Len(Chunk(E, mem)) <= EP_MAX_PACKET
<1>1. E.left \in 0 .. EP_MAX_PACKET /\ E.off \in Nat /\ E.fifo \in Seq(Byte)
      /\ E.size \in 0 .. EP_MAX_PACKET
  BY DEF InRecord
<1> DEFINE pkt == SubSeq(mem, E.off + 1, E.off + E.left)
<1>2. CASE E.left = 0
  <2>1. pkt = <<>> BY <1>1, <1>2, SubSeqEmpty
  <2>2. E.fifo = <<>> \/ E.size = Len(E.fifo) BY <1>2 DEF Shape
  <2>3. Len(E.fifo) <= EP_MAX_PACKET
    <3>1. CASE E.fifo = <<>>
      <4>1. Len(E.fifo) = 0 BY <3>1
      <4> QED BY <4>1, Sizes
    <3>2. CASE E.size = Len(E.fifo) BY <1>1, <3>2
    <3> QED BY <2>2, <3>1, <3>2
  <2> HIDE DEF pkt
  <2>4. E.fifo \o pkt = E.fifo BY <1>1, <2>1, ConcatEmptySeq
  <2> QED BY <1>1, <1>2, <2>3, <2>4 DEF Chunk, pkt
<1>3. CASE E.left # 0
  <2>1. pkt = SubSeq(mem, 1, Len(mem))
    <3>1. E.off + 1 = 1 /\ E.off + E.left = Len(mem) BY <1>1, <1>3
    <3> QED BY <3>1, Zenon
  <2>2. pkt = mem BY <2>1, SubSeqFull
  <2>3. E.fifo = <<>> BY <1>3 DEF Shape
  <2>4. Len(mem) <= EP_MAX_PACKET BY <1>1, <1>3
  <2> HIDE DEF pkt
  <2>5. E.fifo \o pkt = mem BY <2>2, <2>3, ConcatEmptySeq
  <2> QED BY <1>3, <2>4, <2>5 DEF Chunk, pkt
<1> QED BY <1>2, <1>3

\* The callback moves bytes from the ring to the endpoint.
LEMMA CallbackMoves ==
  ASSUME TxType, NEW E \in InRecord, Shape(E), E.data = NULL, _handleDataTransmission(E)
  PROVE  /\ Shape(in') /\ txBufTail' \in Slot
         /\ Count(txBufHead, txBufTail') <= Count(txBufHead, txBufTail)
         /\ Chunk(in', txTmpBuf') \o Ring(txBuf, txBufHead, txBufTail')
              = Ring(txBuf, txBufHead, txBufTail)
<1> DEFINE c == Count(txBufHead, txBufTail)
           n == Least(c, EP_MAX_PACKET)
           ring == Ring(txBuf, txBufHead, txBufTail)
<1>1. ring \in Seq(Byte) /\ Len(ring) = c /\ c \in Slot
  BY RingType DEF TxType
<1> HIDE DEF c, ring
<1>2. n \in 0 .. EP_MAX_PACKET /\ n \in 0 .. c /\ c \in Nat BY <1>1, Sizes DEF Least, Slot
<1>3. E.left = 0 /\ E.fifo = <<>> /\ ~E.xfrc BY DEF Shape
<1>4. CASE n = 0
  <2>1. in' = E /\ UNCHANGED <<txBufTail, txTmpBuf>>
    BY <1>4, Zenon DEF _handleDataTransmission, c
  <2>2. Chunk(in', txTmpBuf') = <<>> BY <1>3, <2>1 DEF Chunk
  <2>3. <<>> \o ring = ring BY <1>1, ConcatEmptySeq
  <2> QED BY <1>2, <2>1, <2>2, <2>3 DEF TxType, c, ring
<1>5. CASE n # 0
  <2>1. /\ txTmpBuf' = SubSeq(ring, 1, n)
        /\ txBufTail' = (txBufTail + n) % VCP_BUF_LEN
        /\ in' = InitiateTransfer(E, "txTmpBuf", n, "_handleDataTransmission")
    BY <1>5, Zenon DEF _handleDataTransmission, c, ring
  <2> HIDE DEF n
  <2>2. "txTmpBuf" \in {NULL, "txTmpBuf"}
        /\ "_handleDataTransmission" \in {NULL, "_handleDataTransmission"}
    OBVIOUS
  <2>3. Started(in', E, "txTmpBuf", n, "_handleDataTransmission")
    BY <1>2, <2>1, <2>2, InitiateTransferType
  <2>4. "txTmpBuf" # NULL BY VcpAssumption
  <2>5. /\ in'.data # NULL /\ in'.left = n /\ in'.size = n /\ in'.fifo = <<>> /\ ~in'.xfrc
        /\ in'.count # 0
    <3>1. n \in 1 .. EP_MAX_PACKET BY <1>2, <1>5, Sizes
    <3>2. Packets(n) = 1 BY <3>1, PacketsOf
    <3> QED BY <1>3, <2>3, <2>4, <3>2 DEF Started
  <2>6. Shape(in') BY <1>5, <2>5 DEF Shape
  <2>7. /\ txBufTail' \in Slot
        /\ Count(txBufHead, txBufTail') = c - n
        /\ Ring(txBuf, txBufHead, txBufTail') = SubSeq(ring, n + 1, c)
    <3>1. Moved(txBuf, txBufHead, txBufTail, n)
      BY <1>2, RingTake DEF TxType, c
    <3> QED BY <2>1, <3>1 DEF Moved, c, ring
  <2>8. Chunk(in', txTmpBuf') = SubSeq(ring, 1, n) BY <1>5, <2>1, <2>5 DEF Chunk
  <2>9. SubSeq(ring, 1, n) \o SubSeq(ring, n + 1, c) = SubSeq(ring, 1, c)
    <3>1. /\ ring \in Seq(Byte) /\ 1 \in 1 .. Len(ring) + 1 /\ n \in 1 - 1 .. Len(ring)
          /\ c \in n .. Len(ring)
      BY <1>1, <1>2
    <3> QED BY <3>1, ConcatAdjacentSubSeq, Zenon
  <2>10. SubSeq(ring, 1, c) = ring BY <1>1, SubSeqFull
  <2>11. c - n <= c BY <1>2
  <2> QED BY <2>6, <2>7, <2>8, <2>9, <2>10, <2>11 DEF c, ring
<1> QED BY <1>4, <1>5

\* A packet that can be sent is all of a transfer.
LEMMA SendsAll ==
  ASSUME NEW E \in InRecord, Shape(E), E.armed, E.count > 0, Len(E.fifo) >= E.size
  PROVE  E.data # NULL /\ E.left = 0 /\ E.fifo # <<>> /\ E.size = Len(E.fifo)
<1>1. E.count # 0 OBVIOUS
<1>2. E.data # NULL BY <1>1 DEF Shape
<1>3. E.left \in Nat /\ (E.fifo = <<>> => Len(E.fifo) = 0) BY DEF InRecord
<1>4. ~(E.left # 0 /\ E.fifo = <<>> /\ E.size = E.left)
  <2> SUFFICES ASSUME E.left # 0, E.fifo = <<>>, E.size = E.left PROVE FALSE OBVIOUS
  <2> QED BY <1>3
<1> QED BY <1>2, <1>4 DEF Shape

LEMMA NextInPlace ==
  ASSUME ResetPoints = "idle"
  PROVE  TxType /\ Wakes /\ InPlace /\ [Next]_vars => InPlace'
<1> SUFFICES ASSUME TxType, Wakes, InPlace, [Next]_vars PROVE InPlace' OBVIOUS
<1>1. ASSUME Shape(in'), UNCHANGED <<pc, txBufHead, txBufTail>>, in'.data = in.data
      PROVE  InPlace'
  BY <1>1 DEF InPlace
<1>2. CASE TxFifoEmpty
  <2>0. in' = in \/ Loaded(in, txTmpBuf, in')
    BY <1>2, LoadType DEF TxFifoEmpty, TxType
  <2>a. CASE in' = in
    <3>1. Shape(in') BY <2>a DEF InPlace
    <3> QED BY <1>1, <1>2, <2>a, <3>1, Zenon DEF TxFifoEmpty, tx, task
  <2>b. CASE Loaded(in, txTmpBuf, in')
    <3>1. /\ in'.left = 0 /\ in'.size = in.size /\ in'.data = in.data
          /\ in'.fifo = IF in.left = 0 THEN in.fifo ELSE in.fifo \o txTmpBuf
      BY <2>b DEF Loaded
    <3>2. in'.xfrc = in.xfrc /\ in'.armed = in.armed /\ in'.count = in.count
      BY <2>b DEF Loaded
    <3>3. ASSUME in.left = 0 PROVE Shape(in')
      BY <3>1, <3>2, <3>3 DEF InPlace, Shape
    <3>4. ASSUME in.left # 0 PROVE Shape(in')
      <4>1. in.data # NULL /\ in.fifo = <<>> /\ ~in.xfrc /\ in.size = in.left /\ in.count # 0
            /\ txTmpBuf \in Seq(Byte) /\ in.left = Len(txTmpBuf)
        BY <3>4 DEF InPlace, Shape, TxType
      <4>2. in'.fifo = txTmpBuf BY <3>1, <3>4, <4>1, ConcatEmptySeq
      <4>3. txTmpBuf # <<>> BY <3>4, <4>1
      <4> QED BY <3>1, <3>2, <4>1, <4>2, <4>3 DEF Shape
    <3>5. Shape(in') BY <3>3, <3>4
    <3> QED BY <1>1, <1>2, <2>b, <3>5, Zenon DEF TxFifoEmpty, tx, task, Loaded
  <2> QED BY <2>0, <2>a, <2>b
<1>3. CASE TransmissionComplete
  <2> DEFINE E == TransferEnded(in)
  <2>1. /\ in.xfrc /\ UNCHANGED <<pc, txBufHead>>
    BY <1>3, Zenon DEF TransmissionComplete, task
  <2>2. in.data # NULL /\ in.left = 0 /\ in.fifo = <<>> /\ ~in.armed
    BY <2>1 DEF InPlace, Shape
  <2>3. /\ E \in InRecord /\ E.data = NULL /\ E.left = 0 /\ E.fifo = <<>> /\ ~E.xfrc /\ ~E.armed
    <3>1. in \in InRecord BY DEF TxType
    <3> QED BY <2>2, <3>1, TransferEndedType, Zenon
  <2> HIDE DEF E
  <2>4. Shape(E) BY <2>3 DEF Shape
  <2>5. CASE in' = ZlpIfFull(E) /\ UNCHANGED <<txBufTail, txTmpBuf>>
    <3>1. /\ in' \in InRecord /\ in'.data = NULL /\ in'.fifo = <<>> /\ in'.xfrc = E.xfrc
          /\ in' = E \/ (in'.left = 0 /\ in'.size = 0 /\ in'.count = 0)
      BY <2>3, <2>5, ZlpType
    <3>2. Shape(in') BY <2>3, <2>4, <3>1 DEF Shape
    <3> QED BY <2>1, <2>2, <2>5, <3>1, <3>2 DEF InPlace
  <2>6. CASE _handleDataTransmission(E)
    <3>1. /\ Shape(in') /\ txBufTail' \in Slot
          /\ Count(txBufHead, txBufTail') <= Count(txBufHead, txBufTail)
      BY <2>3, <2>4, <2>6, CallbackMoves
    <3>2. Count(txBufHead, txBufTail) \in Nat /\ Count(txBufHead, txBufTail') \in Nat
      <4>1. Count(txBufHead, txBufTail) \in Slot /\ Count(txBufHead, txBufTail') \in Slot
        BY <3>1, RingType DEF TxType
      <4> QED BY <4>1 DEF Slot
    <3> QED BY <2>1, <2>2, <3>1, <3>2, Sizes DEF InPlace
  <2> QED BY <1>3, <2>5, <2>6, Zenon DEF TransmissionComplete, E
<1>4. CASE ConfigFinishedHandler
  <2>1. in' = [in EXCEPT !.armed = FALSE] /\ UNCHANGED <<pc, txBufHead, txBufTail>>
    BY <1>4, Zenon DEF ConfigFinishedHandler, tx, task
  <2>2. /\ in'.armed = FALSE /\ in'.data = in.data /\ in'.left = in.left /\ in'.fifo = in.fifo
        /\ in'.xfrc = in.xfrc /\ in'.size = in.size /\ in'.count = in.count
    BY <2>1 DEF TxType, InRecord
  <2>3. Shape(in') BY <2>2 DEF InPlace, Shape
  <2> QED BY <1>1, <2>1, <2>2, <2>3
<1>5. CASE BusReset
  <2>1. in' = InAfterReset(in) /\ in.data = NULL /\ UNCHANGED <<pc, txBufHead, txBufTail>>
    BY <1>5, Zenon DEF BusReset, BetweenTransfers, txBusy, tx, task
  <2>2. /\ in'.armed = in.armed /\ in'.size = in.size /\ in'.count = in.count /\ in'.xfrc = FALSE
    BY <2>1 DEF InAfterReset, TxType, InRecord
  <2>3. in'.data = in.data /\ in'.left = in.left /\ in'.fifo = <<>>
    BY <2>1, ResetType DEF TxType
  <2>4. Shape(in') BY <2>1, <2>2, <2>3 DEF InPlace, Shape
  <2> QED BY <1>1, <2>1, <2>3, <2>4
<1>6. CASE StoreByte
  <2>1. /\ pc = "store" /\ UNCHANGED <<in, txBufHead, txBufTail>> /\ pc' \in {"busy", "publish"}
        /\ pc' = "publish" => Wrap(txBufHead + 1) # txBufTail
    BY <1>6 DEF StoreByte
  <2>2. /\ Count(txBufHead, txBufTail)
             = IF txBufHead >= txBufTail THEN txBufHead - txBufTail
               ELSE txBufHead + VCP_BUF_LEN - txBufTail
        /\ txBufHead \in Slot /\ txBufTail \in Slot
    BY CountValue DEF TxType
  <2>3. Wrap(txBufHead + 1) # txBufTail => Count(txBufHead, txBufTail) <= VCP_BUF_LEN - 2
    BY <2>2, Sizes DEF Wrap, Slot
  <2> QED BY <2>1, <2>3 DEF InPlace
<1>7. CASE CheckBusy
  <2>1. UNCHANGED <<in, txBufHead, txBufTail>> /\ (pc' = "conn" => in.data = NULL)
        /\ pc' \in {"return", "conn"}
    BY <1>7 DEF CheckBusy, txBusy, tx
  <2> QED BY <2>1 DEF InPlace
<1>8. CASE CheckConfigured
  BY <1>8 DEF CheckConfigured, InPlace, tx
<1>9. CASE StartTransmission
  <2>1. in.data = NULL /\ in \in InRecord /\ Shape(in) /\ _handleDataTransmission(in) /\ pc' = "return"
    BY <1>9 DEF StartTransmission, InPlace, TxType
  <2>2. Shape(in') BY <2>1, CallbackMoves
  <2> QED BY <2>1, <2>2 DEF InPlace
<1>10. CASE HostReads
  <2>1. CanSend(in) /\ in' = Sent(in) /\ UNCHANGED <<pc, txBufHead, txBufTail>>
    BY <1>10, Zenon DEF HostReads, tx, task
  <2>2. /\ in'.data = in.data /\ in'.left = in.left /\ in'.count = in.count /\ in'.armed = FALSE
        /\ in'.fifo = SubSeq(in.fifo, in.size + 1, Len(in.fifo)) /\ in'.xfrc = (in.size # 0)
    BY <2>1 DEF Sent, TxType, InRecord
  <2>3. in.armed /\ Len(in.fifo) >= in.size /\ in.count > 0 BY <2>1 DEF CanSend
  <2>4. in.fifo \in Seq(Byte) /\ in.size \in Nat /\ Len(in.fifo) \in Nat
    BY DEF TxType, InRecord
  <2>5. in.data # NULL /\ in.left = 0 /\ in.fifo # <<>> /\ in.size = Len(in.fifo)
    BY <2>3, SendsAll DEF InPlace, TxType
  <2>6. in.size # 0 BY <2>4, <2>5, EmptySeq
  <2>7. in'.fifo = <<>> BY <2>2, <2>4, <2>5, SubSeqEmpty
  <2>8. in.count # 0 BY <2>3
  <2>9. Shape(in') BY <2>2, <2>5, <2>6, <2>7, <2>8 DEF Shape
  <2> QED BY <1>1, <2>1, <2>2, <2>9
<1>13. CASE HostReadsEmpty
  <2>1. in.armed /\ in.count = 0 /\ in' = Sent(in) /\ UNCHANGED <<pc, txBufHead, txBufTail>>
    BY <1>13, Zenon DEF HostReadsEmpty, tx, task
  <2>2. in.data = NULL /\ in.size = 0 /\ in.fifo = <<>> /\ in.left = 0
    BY <2>1 DEF InPlace, Shape
  <2>3. /\ in'.data = in.data /\ in'.left = in.left /\ in'.armed = FALSE
        /\ in'.fifo = SubSeq(in.fifo, in.size + 1, Len(in.fifo)) /\ in'.xfrc = (in.size # 0)
    BY <2>1 DEF Sent, TxType, InRecord
  <2>4. in'.fifo = <<>>
    <3>1. in'.fifo = SubSeq(<<>>, 1, 0) BY <2>2, <2>3
    <3> QED BY <3>1
  <2>5. Shape(in') BY <2>2, <2>3, <2>4 DEF Shape
  <2> QED BY <1>1, <2>1, <2>3, <2>5
<1>11. CASE CallWrite \/ PublishByte \/ WriteReturns \/ CallRead \/ ReadByte \/ WrapTail
  <2>1. UNCHANGED in /\ pc' \in {"store", "idle", "read", "wrap"}
    BY <1>11 DEF CallWrite, PublishByte, WriteReturns, CallRead, ReadByte, WrapTail
  <2> QED BY <2>1 DEF InPlace
<1>12. CASE RxFifoLevel \/ ReceptionComplete \/ Unconfigure \/ HostSends \/ UNCHANGED vars
  <2>1. UNCHANGED <<in, pc, txBufHead, txBufTail>>
    BY <1>12, Zenon DEF RxFifoLevel, ReceptionComplete, Unconfigure, HostSends, vars, tx, task
  <2> QED BY <2>1 DEF InPlace
<1> QED
  BY <1>2, <1>3, <1>4, <1>5, <1>6, <1>7, <1>8, <1>9, <1>10, <1>11, <1>12, <1>13, Zenon
  DEF Next, InCall, Interrupt

\* What is pending is what has left the ring, and the ring.
PendingIsSplit ==
  LET chunk == Chunk(in, txTmpBuf)
      ring  == Ring(txBuf, txBufHead, txBufTail)
  IN /\ TxPending = chunk \o ring
     /\ chunk \in Seq(Byte) /\ Len(chunk) <= EP_MAX_PACKET
     /\ ring \in Seq(Byte) /\ Len(ring) = Count(txBufHead, txBufTail)

LEMMA PendingSplit == TxType /\ InPlace => PendingIsSplit
<1> SUFFICES ASSUME TxType, InPlace PROVE PendingIsSplit OBVIOUS
<1>1. /\ in.fifo \o SubSeq(txTmpBuf, in.off + 1, in.off + in.left) = Chunk(in, txTmpBuf)
      /\ Chunk(in, txTmpBuf) \in Seq(Byte)
      /\ Len(Chunk(in, txTmpBuf)) <= EP_MAX_PACKET
  BY ChunkIsPending DEF TxType, InPlace
<1>2. /\ Ring(txBuf, txBufHead, txBufTail) \in Seq(Byte)
      /\ Len(Ring(txBuf, txBufHead, txBufTail)) = Count(txBufHead, txBufTail)
  BY RingType DEF TxType
<1>3. TxPending = (in.fifo \o SubSeq(txTmpBuf, in.off + 1, in.off + in.left))
                    \o Ring(txBuf, txBufHead, txBufTail)
  BY Zenon DEF TxPending
<1> QED BY <1>1, <1>2, <1>3 DEF PendingIsSplit

Splits(s, t) ==
  LET u == s \o t
      n == Len(s)
  IN /\ Len(u) = n + Len(t) /\ Len(t) \in Nat
     /\ SubSeq(u, 1, n) = s
     /\ SubSeq(u, n + 1, Len(u)) = t

LEMMA SplitConcat ==
  ASSUME NEW S, NEW s \in Seq(S), NEW t \in Seq(S), Len(s) > 0
  PROVE  Splits(s, t)
<1> DEFINE u == s \o t
           n == Len(s)
<1>1. Len(s) \in Nat /\ Len(t) \in Nat /\ Len(u) = n + Len(t) /\ u \in Seq(S)
  BY ConcatProperties, LenProperties
<1>2. SubSeq(u, 1, n) = s
  <2>1. 1 \in 1 .. Len(s) /\ n \in 1 .. Len(s) BY <1>1
  <2>2. SubSeq(u, 1, n) = SubSeq(s, 1, n) BY <2>1, SubSeqOfConcat1
  <2> QED BY <2>2, SubSeqFull
<1>3. SubSeq(u, n + 1, Len(u)) = t
  <2>1. CASE t = <<>>
    <3>1. Len(u) < n + 1 BY <1>1, <2>1
    <3> QED BY <1>1, <2>1, <3>1, SubSeqEmpty
  <2>2. CASE t # <<>>
    <3>1. Len(t) > 0 BY <2>2, EmptySeq
    <3>2. n + 1 \in Len(s) + 1 .. Len(s) + Len(t) /\ Len(u) \in Len(s) + 1 .. Len(s) + Len(t)
      BY <1>1, <3>1
    <3>3. SubSeq(u, n + 1, Len(u)) = SubSeq(t, n + 1 - Len(s), Len(u) - Len(s))
      BY <3>2, SubSeqOfConcat2
    <3>4. n + 1 - Len(s) = 1 /\ Len(u) - Len(s) = Len(t) BY <1>1
    <3> QED BY <3>3, <3>4, SubSeqFull
  <2> QED BY <2>1, <2>2
<1> QED BY <1>1, <1>2, <1>3, Zenon DEF Splits

\* Every step puts a byte, takes a chunk or is none of the stream's business.
LEMMA StepOfStream ==
  ASSUME ResetPoints = "idle", TxType, TxType', Wakes, InPlace, InPlace', [Next]_vars
  PROVE  [Stream!Put \/ Stream!Take]_<<TxPending, host>>
<1> DEFINE chunk == Chunk(in, txTmpBuf)
           ring == Ring(txBuf, txBufHead, txBufTail)
           Stutters == TxPending' = TxPending /\ host' = host
<1>1. /\ TxPending = chunk \o ring
      /\ chunk \in Seq(Byte) /\ Len(chunk) <= EP_MAX_PACKET
      /\ ring \in Seq(Byte) /\ Len(ring) = Count(txBufHead, txBufTail)
  BY PendingSplit DEF PendingIsSplit
<1>2. TxPending' = chunk' \o ring'
  <2>1. (TxType /\ InPlace => PendingIsSplit)' BY PendingSplit, PTL
  <2>2. PendingIsSplit' BY <2>1
  <2> QED BY <2>2, Zenon DEF PendingIsSplit
<1>3. CASE UNCHANGED <<tx, host>> /\ Chunk(in', txTmpBuf) = Chunk(in, txTmpBuf)
  <2>1. Stutters BY <1>1, <1>2, <1>3 DEF tx
  <2> QED BY <2>1
\* The callback, with nothing left at the endpoint.
<1>4. ASSUME NEW E \in InRecord, Shape(E), E.data = NULL, _handleDataTransmission(E),
             chunk = <<>>, UNCHANGED <<txBuf, txBufHead, host>>
      PROVE  Stutters
  <2>1. Chunk(in', txTmpBuf') \o Ring(txBuf, txBufHead, txBufTail') = ring
    BY <1>4, CallbackMoves
  <2>2. TxPending' = ring BY <1>2, <1>4, <2>1
  <2>3. <<>> \o ring = ring BY <1>1, ConcatEmptySeq
  <2> HIDE DEF chunk, ring
  <2> QED BY <1>1, <1>4, <2>2, <2>3
<1>5. CASE TxFifoEmpty
  <2>1. \/ in' = in
        \/ /\ in'.left = 0
           /\ in'.fifo = IF in.left = 0 THEN in.fifo ELSE in.fifo \o txTmpBuf
    BY <1>5, LoadType DEF TxFifoEmpty, TxType, Loaded
  <2>2. in.left # 0 => in.fifo = <<>> BY DEF InPlace, Shape
  <2>3. <<>> \o txTmpBuf = txTmpBuf BY ConcatEmptySeq DEF TxType
  <2>4. Chunk(in', txTmpBuf) = Chunk(in, txTmpBuf) BY <2>1, <2>2, <2>3 DEF Chunk
  <2> QED BY <1>3, <1>5, <2>4, Zenon DEF TxFifoEmpty
<1>6. CASE TransmissionComplete
  <2> DEFINE E == TransferEnded(in)
  <2>1. in.xfrc /\ UNCHANGED <<txBuf, txBufHead, host>>
    BY <1>6, Zenon DEF TransmissionComplete
  <2>2. in.data # NULL /\ in.left = 0 /\ in.fifo = <<>> /\ ~in.armed
    BY <2>1 DEF InPlace, Shape
  <2>3. /\ E \in InRecord /\ E.data = NULL /\ E.left = 0 /\ E.fifo = <<>> /\ ~E.xfrc /\ ~E.armed
    <3>1. in \in InRecord BY DEF TxType
    <3> QED BY <2>2, <3>1, TransferEndedType, Zenon
  <2> HIDE DEF E
  <2>4. Shape(E) BY <2>3 DEF Shape
  <2>5. chunk = <<>> BY <2>2 DEF Chunk
  <2>6. CASE in' = ZlpIfFull(E) /\ UNCHANGED <<txBufTail, txTmpBuf>>
    <3>0. /\ ZlpIfFull(E).fifo = E.fifo
          /\ ZlpIfFull(E) = E \/ ZlpIfFull(E).left = 0
      BY <2>3, ZlpType, Zenon
    <3>1. in'.fifo = <<>> /\ in'.left = 0 BY <2>3, <2>6, <3>0
    <3>2. Chunk(in', txTmpBuf) = Chunk(in, txTmpBuf) BY <2>2, <3>1 DEF Chunk
    <3> QED BY <1>3, <2>1, <2>6, <3>2 DEF tx
  <2>7. CASE _handleDataTransmission(E)
    BY <1>4, <2>1, <2>3, <2>4, <2>5, <2>7
  <2> QED BY <1>6, <2>6, <2>7, Zenon DEF TransmissionComplete, E
<1>7. CASE ConfigFinishedHandler
  <2>1. in'.left = in.left /\ in'.fifo = in.fifo
    BY <1>7 DEF ConfigFinishedHandler, TxType, InRecord
  <2>2. Chunk(in', txTmpBuf) = Chunk(in, txTmpBuf) BY <2>1 DEF Chunk
  <2> QED BY <1>3, <1>7, <2>2, Zenon DEF ConfigFinishedHandler
<1>8. CASE BusReset
  <2>1. in' = InAfterReset(in) /\ in.data = NULL /\ UNCHANGED <<tx, host>>
    BY <1>8, Zenon DEF BusReset, BetweenTransfers, txBusy
  <2>2. in'.left = in.left /\ in'.fifo = <<>> BY <2>1, ResetType DEF TxType
  <2>3. in.fifo = <<>> /\ in.left = 0 BY <2>1 DEF InPlace, Shape
  <2>4. Chunk(in', txTmpBuf) = Chunk(in, txTmpBuf) BY <2>2, <2>3 DEF Chunk
  <2> QED BY <1>3, <2>1, <2>4
<1>9. CASE StoreByte
  <2>1. UNCHANGED <<txBufHead, txBufTail, txTmpBuf, in, host>>
        /\ (txBuf' = txBuf \/ txBuf' = [txBuf EXCEPT ![txBufHead] = nextTx])
    BY <1>9 DEF StoreByte
  <2>2. ring' = ring BY <2>1, RingStore DEF TxType
  <2>3. chunk' = chunk BY <2>1
  <2>4. Stutters BY <1>1, <1>2, <2>1, <2>2, <2>3
  <2> QED BY <2>4
<1>10. CASE PublishByte
  <2>1. /\ pc = "publish" /\ txBufHead' = Wrap(txBufHead + 1)
        /\ UNCHANGED <<txBuf, txBufTail, txTmpBuf, in, host>>
    BY <1>10, Zenon DEF PublishByte
  <2>2. Count(txBufHead, txBufTail) <= VCP_BUF_LEN - 2 BY <2>1 DEF InPlace
  <2> DEFINE b == txBuf[txBufHead]
  <2>3. ring' = Append(ring, b) BY <2>1, <2>2, RingPublish DEF TxType
  <2>4. b \in Byte BY DEF TxType
  <2>5. TxPending' = chunk \o Append(ring, b) BY <1>2, <2>1, <2>3
  <2>6. chunk \o Append(ring, b) = Append(chunk \o ring, b)
    <3> HIDE DEF chunk, ring, b
    <3>1. Append(ring, b) = ring \o <<b>> BY <1>1, <2>4, AppendIsConcat
    <3>2. <<b>> \in Seq(Byte) /\ chunk \o ring \in Seq(Byte) BY <1>1, <2>4
    <3>3. Append(chunk \o ring, b) = (chunk \o ring) \o <<b>> BY <2>4, <3>2, AppendIsConcat
    <3>4. (chunk \o ring) \o <<b>> = chunk \o (ring \o <<b>>) BY <1>1, <3>2, ConcatAssociative
    <3> QED BY <3>1, <3>3, <3>4
  <2>7. Len(TxPending) < VCP_BUF_LEN - 1 + EP_MAX_PACKET
    <3>1. Len(TxPending) = Len(chunk) + Len(ring) /\ Len(chunk) \in Nat /\ Len(ring) \in Nat
      <4> HIDE DEF chunk, ring
      <4> QED BY <1>1, ConcatProperties, LenProperties
    <3> HIDE DEF chunk, ring
    <3> QED BY <1>1, <2>2, <3>1, Sizes
  <2>8. Stream!Put
    <3> HIDE DEF chunk, ring, b
    <3> QED BY <1>1, <2>1, <2>4, <2>5, <2>6, <2>7 DEF Stream!Put
  <2> QED BY <2>8
<1>11. CASE StartTransmission
  <2>1. in.data = NULL /\ in \in InRecord /\ Shape(in) /\ _handleDataTransmission(in)
        /\ UNCHANGED <<txBuf, txBufHead, host>>
    BY <1>11 DEF StartTransmission, InPlace, TxType
  <2>2. chunk = <<>> BY <2>1 DEF Shape, Chunk
  <2> QED BY <1>4, <2>1, <2>2
<1>12. CASE HostReads
  <2>1. /\ CanSend(in) /\ in' = Sent(in) /\ host' = Packet(in) /\ UNCHANGED tx
    BY <1>12, Zenon DEF HostReads
  <2>2. /\ in'.left = in.left /\ in'.fifo = SubSeq(in.fifo, in.size + 1, Len(in.fifo))
    BY <2>1 DEF Sent, TxType, InRecord
  <2>3. in.armed /\ Len(in.fifo) >= in.size /\ in.count > 0 BY <2>1 DEF CanSend
  <2>4. in.fifo \in Seq(Byte) /\ in.size \in 0 .. EP_MAX_PACKET /\ Len(in.fifo) \in Nat
    BY DEF TxType, InRecord
  <2>5. in.left = 0 /\ in.fifo # <<>> /\ in.size = Len(in.fifo)
    BY <2>3, SendsAll DEF InPlace, TxType
  <2>6. in.size # 0 BY <2>4, <2>5, EmptySeq
  <2>7. in'.fifo = <<>> BY <2>2, <2>4, <2>5, SubSeqEmpty
  <2>8. chunk = in.fifo /\ chunk' = <<>> BY <2>2, <2>5, <2>7 DEF Chunk
  <2>9. ring' = ring BY <2>1 DEF tx
  <2>10. host' = chunk
    <3>1. host' = SubSeq(in.fifo, 1, Len(in.fifo)) BY <2>1, <2>5 DEF Packet
    <3> QED BY <2>4, <2>8, <3>1, SubSeqFull
  <2> DEFINE n == in.size
  <2>11. n \in 1 .. EP_MAX_PACKET /\ n = Len(chunk) BY <2>4, <2>5, <2>6, <2>8
  <2> HIDE DEF chunk, ring, n
  <2>12. TxPending' = ring
    <3>1. <<>> \o ring = ring BY <1>1, ConcatEmptySeq
    <3> QED BY <1>2, <2>8, <2>9, <3>1
  <2>13. /\ Len(TxPending) = n + Len(ring) /\ Len(ring) \in Nat
         /\ SubSeq(TxPending, 1, n) = chunk
         /\ SubSeq(TxPending, n + 1, Len(TxPending)) = ring
    <3>1. Len(chunk) > 0 BY <2>11
    <3>2. Splits(chunk, ring) BY <1>1, <3>1, SplitConcat
    <3> QED BY <1>1, <2>11, <3>2 DEF Splits
  <2>14. n <= Len(TxPending) BY <2>11, <2>13
  <2>15. Stream!Take BY <2>10, <2>11, <2>12, <2>13, <2>14 DEF Stream!Take
  <2> QED BY <2>15
<1>14. CASE HostReadsEmpty
  <2>1. in.armed /\ in.count = 0 /\ in' = Sent(in) /\ UNCHANGED <<tx, host>>
    BY <1>14, Zenon DEF HostReadsEmpty
  <2>2. in.size = 0 /\ in.fifo = <<>> /\ in.left = 0
    BY <2>1 DEF InPlace, Shape
  <2>3. in'.left = in.left /\ in'.fifo = SubSeq(in.fifo, in.size + 1, Len(in.fifo))
    BY <2>1 DEF Sent, TxType, InRecord
  <2>4. in'.fifo = <<>>
    <3>1. in'.fifo = SubSeq(<<>>, 1, 0) BY <2>2, <2>3
    <3> QED BY <3>1
  <2>5. Chunk(in', txTmpBuf) = Chunk(in, txTmpBuf) BY <2>2, <2>3, <2>4 DEF Chunk
  <2> QED BY <1>3, <2>1, <2>5
<1>13. CASE \/ CallWrite \/ WriteReturns \/ CallRead \/ ReadByte \/ WrapTail \/ CheckBusy
            \/ CheckConfigured \/ RxFifoLevel \/ ReceptionComplete \/ Unconfigure \/ HostSends
            \/ UNCHANGED vars
  <2>1. UNCHANGED <<tx, in, host>>
    BY <1>13, Zenon DEF CallWrite, WriteReturns, CallRead, ReadByte, WrapTail, CheckBusy,
       CheckConfigured, RxFifoLevel, ReceptionComplete, Unconfigure, HostSends, vars
  <2>2. in' = in BY <2>1
  <2> QED BY <1>3, <2>1, <2>2, Zenon
<1> QED
  BY <1>5, <1>6, <1>7, <1>8, <1>9, <1>10, <1>11, <1>12, <1>13, <1>14, Zenon
  DEF Next, InCall, Interrupt

\* The direction to the host is a stream: what the task has stored reaches
\* the host once each and in order, for every size of the buffer and of the
\* packets, as long as the bus is reset only between transfers.
THEOREM TransmissionIsAStream ==
  ASSUME ResetPoints = "idle"
  PROVE  Spec => TxIsAStream
<1> DEFINE Inv == TxType /\ Wakes /\ InPlace
<1>1. Init => Inv
  <2> SUFFICES ASSUME Init PROVE Inv OBVIOUS
  <2>1. TxType BY InitTypes
  <2>2. Wakes BY DEF Init, Wakes, IdleIn, txBusy
  <2>3. InPlace BY DEF Init, InPlace, Shape, IdleIn
  <2> QED BY <2>1, <2>2, <2>3
<1>2. Inv /\ [Next]_vars => Inv' BY NextTxType, NextWakes, NextInPlace
<1>3. Init => Stream!Init
  <2> SUFFICES ASSUME Init PROVE Stream!Init OBVIOUS
  <2>1. TxType /\ InPlace BY <1>1
  <2>2. TxPending = Chunk(in, txTmpBuf) \o Ring(txBuf, txBufHead, txBufTail)
        /\ Ring(txBuf, txBufHead, txBufTail) \in Seq(Byte)
        /\ Len(Ring(txBuf, txBufHead, txBufTail)) = Count(txBufHead, txBufTail)
    BY <2>1, PendingSplit DEF PendingIsSplit
  <2>3. Chunk(in, txTmpBuf) = <<>> /\ txBufHead = txBufTail BY DEF Init, IdleIn, Chunk
  <2>4. Count(txBufHead, txBufTail) = 0
    BY <2>1, <2>3, CountValue DEF TxType, Slot
  <2>5. Ring(txBuf, txBufHead, txBufTail) = <<>> BY <2>2, <2>4, EmptySeq
  <2>6. TxPending = <<>> BY <2>2, <2>3, <2>5
  <2> QED BY <2>6 DEF Stream!Init, Init, NoPacket
<1>4. Inv /\ Inv' /\ [Next]_vars => [Stream!Put \/ Stream!Take]_<<TxPending, host>>
  BY StepOfStream
<1> QED BY <1>1, <1>2, <1>3, <1>4, PTL DEF Spec, TxIsAStream, Stream!Spec

----------------------------------------------------------------------------
(* The direction from the host.                                             *)

\* Bytes that are stored behind the head follow those in the ring.
Filled(buf, head, tail, bytes, k) ==
  LET new  == [i \in Slot |->
                 LET j == (i + VCP_BUF_LEN - head) % VCP_BUF_LEN
                 IN IF j < k THEN bytes[j + 1] ELSE buf[i]]
      next == (head + k) % VCP_BUF_LEN
  IN /\ next \in Slot
     /\ Ring(new, next, tail) = Ring(buf, head, tail) \o SubSeq(bytes, 1, k)

LEMMA RingFill ==
  ASSUME NEW B, NEW buf \in [Slot -> B], NEW head \in Slot, NEW tail \in Slot,
         NEW bytes \in Seq(B), NEW k \in 0 .. Len(bytes),
         k <= VCP_BUF_LEN - 1 - Count(head, tail)
  PROVE  Filled(buf, head, tail, bytes, k)
<1> DEFINE c == Count(head, tail)
           old == Ring(buf, head, tail)
           new == [i \in Slot |-> IF Count(i, head) < k THEN bytes[Count(i, head) + 1] ELSE buf[i]]
           next == (head + k) % VCP_BUF_LEN
           filled == Ring(new, next, tail)
           pkt == SubSeq(bytes, 1, k)
<1>1. Bytes(B, buf, head, tail) BY RingElement
<1>2. /\ old \in Seq(B) /\ Len(old) = c /\ c \in Slot
      /\ \A i \in 1 .. c : old[i] = buf[At(tail, i)] /\ At(tail, i) \in Slot
  BY <1>1 DEF Bytes
<1>3. c = IF head >= tail THEN head - tail ELSE head + VCP_BUF_LEN - tail BY CountValue
<1>4. c \in Nat /\ k \in Nat /\ c + k <= VCP_BUF_LEN - 1 BY <1>2, Sizes DEF Slot
<1> HIDE DEF c
<1>5. next = IF head + k < VCP_BUF_LEN THEN head + k ELSE (head + k) - VCP_BUF_LEN
  <2>1. k \in Slot BY <1>2, <1>4, Sizes DEF Slot
  <2> QED BY <2>1, ModSum, Zenon
<1> HIDE DEF next
<1>6. next \in Slot BY <1>4, <1>5, Sizes DEF Slot
<1>7. Count(next, tail) = c + k
  <2>1. Count(next, tail) = IF next >= tail THEN next - tail ELSE next + VCP_BUF_LEN - tail
    BY <1>6, CountValue
  <2> QED BY <1>3, <1>4, <1>5, <2>1, Sizes DEF Slot
<1>8. new \in [Slot -> B]
  <2>1. ASSUME NEW i \in Slot, Count(i, head) < k PROVE bytes[Count(i, head) + 1] \in B
    <3>1. Count(i, head) = IF i >= head THEN i - head ELSE i + VCP_BUF_LEN - head BY CountValue
    <3>2. Count(i, head) + 1 \in 1 .. Len(bytes) BY <1>4, <2>1, <3>1, Sizes DEF Slot
    <3> QED BY <3>2, ElementOfSeq
  <2> QED BY <2>1
<1>9. \A i \in Slot : new[i] = IF Count(i, head) < k THEN bytes[Count(i, head) + 1] ELSE buf[i]
  OBVIOUS
<1> HIDE DEF new
<1>10. /\ filled \in Seq(B) /\ Len(filled) = c + k
       /\ \A i \in 1 .. c + k : filled[i] = new[At(tail, i)] /\ At(tail, i) \in Slot
  <2>1. Bytes(B, new, next, tail) BY <1>6, <1>8, RingElement
  <2> QED BY <1>7, <2>1 DEF Bytes
<1>11. /\ pkt \in Seq(B) /\ Len(pkt) = k
       /\ \A i \in 1 .. k : pkt[i] = bytes[i]
  <2>1. \A i \in 1 .. k : bytes[i] \in B BY <1>4, ElementOfSeq
  <2>2. /\ pkt \in Seq(B) /\ Len(pkt) = IF 1 <= k THEN k - 1 + 1 ELSE 0
        /\ \A i \in 1 .. k - 1 + 1 : pkt[i] = bytes[1 + i - 1]
    <3> HIDE DEF pkt
    <3>1. 1 \in Int /\ k \in Int BY <1>4
    <3> QED BY <2>1, <3>1, SubSeqProperties DEF pkt
  <2> HIDE DEF pkt
  <2> QED BY <1>4, <2>2
<1> HIDE DEF old, filled, pkt
<1>12. /\ old \o pkt \in Seq(B) /\ Len(old \o pkt) = c + k
       /\ \A i \in 1 .. c + k : (old \o pkt)[i] = IF i <= c THEN old[i] ELSE pkt[i - c]
  <2>1. old \in Seq(B) /\ pkt \in Seq(B) /\ Len(old) = c /\ Len(pkt) = k BY <1>2, <1>11
  <2>2. /\ old \o pkt \in Seq(B) /\ Len(old \o pkt) = Len(old) + Len(pkt)
        /\ \A i \in 1 .. Len(old) + Len(pkt) :
             (old \o pkt)[i] = IF i <= Len(old) THEN old[i] ELSE pkt[i - Len(old)]
    BY <2>1, ConcatProperties
  <2> QED BY <2>1, <2>2
<1>13. ASSUME NEW i \in 1 .. c + k PROVE filled[i] = (old \o pkt)[i]
  <2>1. At(tail, i) \in Slot /\ filled[i] = new[At(tail, i)] BY <1>10
  <2>2. Count(At(tail, i), head)
          = IF At(tail, i) >= head THEN At(tail, i) - head ELSE At(tail, i) + VCP_BUF_LEN - head
    BY <2>1, CountValue
  <2>3. CASE i <= c
    <3>1. Count(At(tail, i), head) >= k BY <1>3, <1>4, <2>2, <2>3, Sizes DEF At, Slot
    <3>2. Count(At(tail, i), head) \in Slot BY <2>1, RingType, Zenon
    <3>3. filled[i] = buf[At(tail, i)] BY <1>4, <1>9, <2>1, <3>1, <3>2 DEF Slot
    <3>4. i \in 1 .. c BY <2>3
    <3> QED BY <1>2, <1>12, <2>3, <3>3, <3>4
  <2>4. CASE i > c
    <3>1. Count(At(tail, i), head) = i - c - 1 BY <1>3, <1>4, <2>2, <2>4, Sizes DEF At, Slot
    <3>2. i - c - 1 < k /\ i - c - 1 + 1 = i - c /\ i - c \in 1 .. k BY <1>4, <2>4
    <3>3. filled[i] = bytes[i - c] BY <1>9, <2>1, <3>1, <3>2
    <3>4. pkt[i - c] = bytes[i - c] BY <1>11, <3>2
    <3> QED BY <1>4, <1>12, <2>4, <3>3, <3>4
  <2>5. i \in Int /\ c \in Int BY <1>4
  <2>6. i <= c \/ i > c BY <2>5
  <2> QED BY <2>3, <2>4, <2>6
<1>14. filled = old \o pkt BY <1>10, <1>12, <1>13, SeqEqual
<1> QED BY <1>6, <1>14 DEF Filled, new, next, filled, old, pkt, Count

\* The next slot is the tail only where the buffer is full.
LEMMA FullAt ==
  ASSUME NEW head \in Slot, NEW tail \in Slot, NEW j \in Slot
  PROVE  Wrap(((head + j) % VCP_BUF_LEN) + 1) = tail <=> j = VCP_BUF_LEN - 1 - Count(head, tail)
<1> DEFINE p == (head + j) % VCP_BUF_LEN
           c == Count(head, tail)
<1>1. c = IF head >= tail THEN head - tail ELSE head + VCP_BUF_LEN - tail BY CountValue
<1>2. p = IF head + j < VCP_BUF_LEN THEN head + j ELSE (head + j) - VCP_BUF_LEN
  BY ModSum, Zenon
<1> HIDE DEF p, c
<1>3. Wrap(p + 1) = tail <=> j = VCP_BUF_LEN - 1 - c
  BY <1>1, <1>2, Sizes DEF Wrap, Slot
<1> QED BY <1>3 DEF p, c

\* A packet is cut where the buffer is full, and nowhere else; while the tail
\* is past the end, nowhere at all.
LEMMA StoredValue ==
  ASSUME NEW n \in Nat, RxType
  PROVE  Stored(n) = IF rxBufTail \in Slot
                     THEN Least(n, VCP_BUF_LEN - 1 - Count(rxBufHead, rxBufTail))
                     ELSE n
<1>1. rxBufHead \in Slot /\ rxBufTail \in 0 .. VCP_BUF_LEN BY DEF RxType
<1>2. /\ Stored(n) \in 0 .. n
      /\ Stored(n) \in Candidates(n) /\ \A y \in Candidates(n) : Stored(n) <= y
  BY StoredLeast, StoredRange
<1> DEFINE k == Stored(n)
           room == VCP_BUF_LEN - 1 - Count(rxBufHead, rxBufTail)
<1>3. k = n \/ Wrap(((rxBufHead + k) % VCP_BUF_LEN) + 1) = rxBufTail
  BY <1>2 DEF Candidates
<1> HIDE DEF k
<1>4. CASE rxBufTail \in Slot
  <2>1. Count(rxBufHead, rxBufTail) \in Slot BY <1>1, <1>4, RingType DEF RxType
  <2>2. room \in Slot BY <2>1, Sizes DEF Slot
  <2>3. Wrap(((rxBufHead + room) % VCP_BUF_LEN) + 1) = rxBufTail
    <3> HIDE DEF room
    <3>1. room = VCP_BUF_LEN - 1 - Count(rxBufHead, rxBufTail) BY DEF room
    <3> QED BY <1>1, <1>4, <2>2, <3>1, FullAt
  <2> HIDE DEF room
  <2>4. k \in 0 .. n BY <1>2 DEF k
  <2>5. room <= n => k <= room
    <3> HAVE room <= n
    <3>1. room \in 0 .. n BY <2>2 DEF Slot
    <3>2. room \in Candidates(n) BY <2>3, <3>1 DEF Candidates
    <3> QED BY <1>2, <3>2 DEF k
  <2>6. k \in Slot BY <2>2, <2>4, <2>5, Sizes DEF Slot
  <2>7. k = n \/ k = room BY <1>1, <1>3, <1>4, <2>6, FullAt DEF room
  <2>8. k = Least(n, room) BY <2>2, <2>4, <2>5, <2>7 DEF Least, Slot
  <2> QED BY <1>4, <2>8 DEF k, room
<1>5. CASE rxBufTail \notin Slot
  <2>1. rxBufTail = VCP_BUF_LEN BY <1>1, <1>5, Sizes DEF Slot
  <2>2. rxBufHead + k \in Int BY <1>1, <1>2 DEF k, Slot
  <2>3. Wrap(((rxBufHead + k) % VCP_BUF_LEN) + 1) \in Slot
    <3>1. (rxBufHead + k) % VCP_BUF_LEN \in Slot BY <2>2, ModSlot
    <3> QED BY <3>1, WrapSlot
  <2> QED BY <1>3, <1>5, <2>3 DEF k
<1> QED BY <1>4, <1>5

\* A packet of the host is in the FIFO, or has been read to the start of
\* rxTmpBuf, or the endpoint has nothing of it, and only in the last case
\* another can come.
Arriving ==
  /\ packet \in Seq(RxByte) /\ Len(packet) <= EP_MAX_PACKET
  /\ out.fifo # NoPacket \/ out.xfrc => connState = "CONFIGURED" /\ packet # NoPacket
  /\ out.armed => out.fifo = NoPacket /\ ~out.xfrc
  /\ out.armed \/ out.fifo # NoPacket => out.off = 0 /\ out.left = EP_MAX_PACKET
  /\ out.fifo # NoPacket => out.fifo = packet /\ ~out.xfrc
  /\ ~out.xfrc => out.received = 0
  /\ out.xfrc => /\ out.received = Len(packet) /\ out.off = Len(packet)
                 /\ \A i \in 1 .. Len(packet) : rxTmpBuf[i] = packet[i]

\* With a reception armed and nothing there, whatever it was before.
LEMMA ReceptionArrives ==
  ASSUME NEW R \in OutRecord
  PROVE  LET new == Reception(R) IN
         /\ new.off = 0 /\ new.left = EP_MAX_PACKET /\ new.fifo = R.fifo
         /\ new.xfrc = R.xfrc /\ new.received = R.received
BY DEF Reception, InitiateReception, OutRecord

LEMMA NextArriving ==
  ASSUME ResetPoints = "idle"
  PROVE  RxType /\ RxType' /\ Arriving /\ [Next]_vars => Arriving'
<1> SUFFICES ASSUME RxType, RxType', Arriving, [Next]_vars PROVE Arriving' OBVIOUS
<1>0. out \in OutRecord /\ Len(packet) \in Nat BY LenProperties DEF RxType, Arriving
<1>1. CASE UNCHANGED <<packet, out, connState, rxTmpBuf>>
  BY <1>1 DEF Arriving
<1>2. CASE RxFifoLevel
  <2>1. out.fifo # NoPacket /\ out' = PacketRead(out) /\ UNCHANGED <<packet, connState>>
    BY <1>2, Zenon DEF RxFifoLevel, history
  <2>2. /\ out.fifo = packet /\ ~out.xfrc /\ ~out.armed /\ out.received = 0 /\ out.off = 0
        /\ out.left = EP_MAX_PACKET /\ connState = "CONFIGURED" /\ packet # NoPacket
    BY <2>1 DEF Arriving
  <2>3. Least(out.left, Len(out.fifo)) = Len(packet)
    BY <1>0, <2>2, Sizes DEF Least, Arriving
  <2>4. /\ out'.off = Len(packet) /\ out'.received = Len(packet) /\ out'.fifo = NoPacket
        /\ out'.xfrc = TRUE /\ out'.armed = FALSE
    <3> DEFINE n == Least(out.left, Len(out.fifo))
    <3>1. out' = [out EXCEPT !.off = out.off + n, !.left = out.left - n,
                             !.received = out.received + n, !.fifo = NoPacket, !.xfrc = TRUE]
      BY <2>1 DEF PacketRead
    <3>2. out.off + n = Len(packet) /\ out.received + n = Len(packet) BY <1>0, <2>2, <2>3
    <3> HIDE DEF n
    <3> QED BY <1>0, <2>2, <3>1, <3>2 DEF OutRecord
  <2>5. \A i \in 1 .. Len(packet) : rxTmpBuf'[i] = packet[i]
    <3> SUFFICES ASSUME NEW i \in 1 .. Len(packet) PROVE rxTmpBuf'[i] = packet[i] OBVIOUS
    <3>1. i \in 1 .. EP_MAX_PACKET BY <1>0, Sizes DEF Arriving
    <3>2. rxTmpBuf' = [k \in 1 .. EP_MAX_PACKET |->
             IF k \in out.off + 1 .. out'.off THEN out.fifo[k - out.off] ELSE rxTmpBuf[k]]
      BY <1>2 DEF RxFifoLevel, RxType
    <3>3. i \in out.off + 1 .. out'.off /\ i - out.off = i BY <1>0, <2>2, <2>4
    <3> QED BY <2>2, <3>1, <3>2, <3>3
  <2> QED BY <2>1, <2>2, <2>4, <2>5 DEF Arriving
<1>3. CASE ReceptionComplete
  <2>1. out.xfrc /\ out' = Reception(ReceptionEnded(out)) /\ UNCHANGED <<packet, connState>>
    BY <1>3, Zenon DEF ReceptionComplete, _handleDataReception
  <2>2. out.fifo = NoPacket BY <2>1 DEF Arriving
  <2>3. /\ ReceptionEnded(out) \in OutRecord /\ ReceptionEnded(out).fifo = NoPacket
        /\ ReceptionEnded(out).received = 0 /\ ReceptionEnded(out).xfrc = FALSE
    BY <1>0, <2>2 DEF ReceptionEnded, OutRecord
  <2>4. /\ out'.off = 0 /\ out'.left = EP_MAX_PACKET /\ out'.fifo = NoPacket
        /\ out'.received = 0 /\ out'.xfrc = FALSE
    BY <2>1, <2>3, ReceptionArrives
  <2> QED BY <2>1, <2>4 DEF Arriving
<1>4. CASE ConfigFinishedHandler
  <2>1. /\ out.fifo = NoPacket /\ out' = Reception(out) /\ UNCHANGED packet
        /\ connState = "CONFIGURED" => out.received = 0
    BY <1>4, Zenon DEF ConfigFinishedHandler, BetweenTransfers, history
  <2>2. ~out.xfrc
    <3>1. out.xfrc => out.received = Len(packet) /\ packet # <<>> /\ connState = "CONFIGURED"
      BY DEF Arriving, NoPacket
    <3>2. packet # <<>> => Len(packet) # 0 BY EmptySeq DEF Arriving
    <3> QED BY <2>1, <3>1, <3>2
  <2>3. out.received = 0 BY <2>2 DEF Arriving
  <2>4. /\ out'.off = 0 /\ out'.left = EP_MAX_PACKET /\ out'.fifo = NoPacket
        /\ out'.received = 0 /\ ~out'.xfrc
    BY <1>0, <2>1, <2>2, <2>3, ReceptionArrives
  <2> QED BY <2>1, <2>4 DEF Arriving
<1>5. CASE Unconfigure
  <2>1. out.fifo = NoPacket /\ out.received = 0 /\ UNCHANGED <<packet, out, rxTmpBuf>>
    BY <1>5, Zenon DEF Unconfigure, BetweenTransfers, rx
  <2>2. ~out.xfrc
    <3>1. out.xfrc => out.received = Len(packet) /\ packet # <<>> BY DEF Arriving, NoPacket
    <3>2. packet # <<>> => Len(packet) # 0 BY EmptySeq DEF Arriving
    <3> QED BY <2>1, <3>1, <3>2
  <2> QED BY <2>1, <2>2 DEF Arriving
<1>6. CASE BusReset
  <2>1. out.received = 0 /\ out' = OutAfterReset(out) /\ UNCHANGED <<packet, rxTmpBuf>>
    BY <1>6, Zenon DEF BusReset, BetweenTransfers, rx
  <2>2. /\ out'.received = 0 /\ out'.fifo = NoPacket /\ out'.xfrc = FALSE /\ out'.armed = FALSE
    BY <1>0, <2>1 DEF OutAfterReset, OutRecord
  <2> QED BY <2>1, <2>2 DEF Arriving
<1>7. CASE HostSends
  <2>1. PICK n \in 1 .. EP_MAX_PACKET :
          /\ packet' = [i \in 1 .. n |-> (nextRx + i - 1) % NumRxBytes]
          /\ CanReceive(out, packet') /\ out' = Arrived(out, packet')
    BY <1>7, Zenon DEF HostSends
  <2>2. connState = "CONFIGURED" /\ UNCHANGED <<connState, rxTmpBuf>>
    BY <1>7, Zenon DEF HostSends, rx
  <2>3. packet' \in Seq(RxByte) /\ Len(packet') = n
    <3>1. \A a \in Int : a % NumRxBytes \in RxByte BY Sizes DEF RxByte
    <3>2. \A i \in 1 .. n : nextRx + i - 1 \in Int BY DEF RxType, RxByte
    <3>3. packet' \in [1 .. n -> RxByte] BY <2>1, <3>1, <3>2
    <3>4. packet' \in Seq(RxByte) BY <3>3, SeqDef
    <3> QED BY <3>3, <3>4, LenProperties
  <2>4. n <= EP_MAX_PACKET /\ n # 0 /\ n \in Nat BY Sizes
  <2>5. packet' # NoPacket BY <2>3, <2>4 DEF NoPacket
  <2>6. out.armed /\ out.received = 0 /\ out.off = 0 /\ out.left = EP_MAX_PACKET
    BY <2>1 DEF CanReceive, Arriving
  <2>7. /\ out'.fifo = packet' /\ out'.xfrc = FALSE /\ out'.armed = FALSE
        /\ out'.received = out.received /\ out'.off = out.off /\ out'.left = out.left
    BY <1>0, <2>1, <2>5 DEF Arrived, OutRecord
  <2> QED BY <2>2, <2>3, <2>4, <2>5, <2>6, <2>7 DEF Arriving
<1>8. CASE \/ CallWrite \/ CallRead \/ InCall \/ TxFifoEmpty \/ TransmissionComplete
           \/ HostReads \/ HostReadsEmpty \/ UNCHANGED vars
  <2>1. UNCHANGED <<packet, out, connState, rxTmpBuf>>
    BY <1>8, Zenon DEF CallWrite, CallRead, InCall, CheckBusy, CheckConfigured, WriteReturns,
       StoreByte, PublishByte, StartTransmission, ReadByte, WrapTail, TxFifoEmpty,
       TransmissionComplete, HostReads, HostReadsEmpty, vars, rx, history
  <2> QED BY <1>1, <2>1
<1> QED
  BY <1>2, <1>3, <1>4, <1>5, <1>6, <1>7, <1>8, Zenon DEF Next, Interrupt

\* The callback is handed the packet that the host has sent.
LEMMA HandedOver ==
  ASSUME RxType, Arriving, out.xfrc
  PROVE  BytesHandedOver(out, rxTmpBuf) = packet /\ out.received = Len(packet)
<1>1. out.received = Len(packet) /\ out.off = Len(packet)
      /\ \A i \in 1 .. Len(packet) : rxTmpBuf[i] = packet[i]
  BY DEF Arriving
<1>2. packet \in Seq(RxByte) /\ Len(packet) \in Nat BY LenProperties DEF Arriving
<1> DEFINE m == Len(packet)
           bytes == [i \in 1 .. m |-> packet[i]]
<1>3. BytesHandedOver(out, rxTmpBuf) = bytes
  <2>1. \A i \in 1 .. m : i + m > m /\ i + m - m = i BY <1>2
  <2> HIDE DEF m
  <2>2. BytesHandedOver(out, rxTmpBuf)
          = [i \in 1 .. m |-> IF i + m > m THEN rxTmpBuf[i + m - m] ELSE NULL]
    BY <1>1 DEF BytesHandedOver, m
  <2>3. \A i \in 1 .. m : rxTmpBuf[i] = packet[i] BY <1>1 DEF m
  <2> QED BY <2>1, <2>2, <2>3
<1>4. packet = bytes
  <2>1. packet \in [1 .. m -> RxByte] BY <1>2, LenProperties
  <2> QED BY <2>1
<1> QED BY <1>1, <1>3, <1>4

\* What the host has sent and there was room for is what is between the
\* indices, once the tail is wrapped, and the bytes that the call is still to
\* read are there.
RxInPlace ==
  /\ unread \in Seq(RxByte \cup {NULL})
  /\ readLeft <= Len(unread)
  /\ Ring(rxBuf, rxBufHead, Wrap(rxBufTail)) = unread

LEMMA WrapType ==
  ASSUME RxType
  PROVE  /\ Wrap(rxBufTail) \in Slot
         /\ rxBufTail \in Slot => Wrap(rxBufTail) = rxBufTail
         /\ rxBufTail \notin Slot => rxBufTail = VCP_BUF_LEN
BY Sizes DEF RxType, Wrap, Slot

LEMMA RxRing ==
  ASSUME RxType
  PROVE  Bytes(RxByte \cup {NULL}, rxBuf, rxBufHead, Wrap(rxBufTail))
<1>1. Wrap(rxBufTail) \in Slot BY WrapType
<1>2. rxBuf \in [Slot -> RxByte \cup {NULL}] /\ rxBufHead \in Slot BY DEF RxType
<1> QED BY <1>1, <1>2, RingElement

LEMMA ReceivedInPlace ==
  ASSUME ReceptionPoints = "harmless"
  PROVE  RxType /\ TaskType /\ Arriving /\ RxInPlace /\ ReceptionComplete => RxInPlace'
<1> SUFFICES ASSUME RxType, TaskType, Arriving, RxInPlace, ReceptionComplete
             PROVE  RxInPlace'
  OBVIOUS
<1> DEFINE B == RxByte \cup {NULL}
           bytes == BytesHandedOver(out, rxTmpBuf)
           n == Len(bytes)
           k == Stored(n)
           room == VCP_BUF_LEN - 1 - Len(unread)
           tail == Wrap(rxBufTail)
<1>1. bytes \in Seq(B) /\ n \in Nat BY HandedOverType, LenProperties
<1>2. /\ rxBuf' = [i \in Slot |->
                     LET j == (i + VCP_BUF_LEN - rxBufHead) % VCP_BUF_LEN
                     IN IF j < k THEN bytes[j + 1] ELSE rxBuf[i]]
      /\ rxBufHead' = (rxBufHead + k) % VCP_BUF_LEN
      /\ unread' = unread \o SubSeq(bytes, 1, Least(n, room))
      /\ UNCHANGED <<rxBufTail, readLeft>>
  <2>1. /\ out.xfrc /\ unread' = unread \o SubSeq(packet, 1, Least(Len(packet), Room))
        /\ UNCHANGED <<rxBufTail, readLeft>>
    BY Zenon DEF ReceptionComplete, task
  <2>2. packet = bytes BY <2>1, HandedOver
  <2>3. room = Room BY DEF Room
  <2>4. _handleDataReception(bytes) BY Zenon DEF ReceptionComplete
  <2> HIDE DEF bytes, room
  <2> QED BY <2>1, <2>2, <2>3, <2>4, Zenon DEF _handleDataReception
<1>3. Bytes(B, rxBuf, rxBufHead, tail) /\ tail \in Slot BY RxRing, WrapType
<1>4. ~(rxBufTail = VCP_BUF_LEN /\ n > room)
  <2>1. out.xfrc /\ (rxBufTail # VCP_BUF_LEN \/ out.received <= room)
    BY DEF ReceptionComplete, Room
  <2>2. out.received = n BY <2>1, HandedOver
  <2>3. Len(unread) \in Nat BY LenProperties DEF RxInPlace
  <2>4. room \in Int BY <2>3, Sizes
  <2> HIDE DEF room, n
  <2> QED BY <1>1, <2>1, <2>2, <2>4
<1> HIDE DEF bytes, n, k
<1>5. /\ Ring(rxBuf, rxBufHead, tail) = unread /\ readLeft <= Len(unread)
      /\ Len(unread) = Count(rxBufHead, tail) /\ Count(rxBufHead, tail) \in Slot
  BY <1>3, <1>4 DEF RxInPlace, Bytes
<1>6. room \in Slot BY <1>5, Sizes DEF Slot
<1>7. k = IF rxBufTail \in Slot
          THEN Least(n, VCP_BUF_LEN - 1 - Count(rxBufHead, rxBufTail)) ELSE n
  BY <1>1, StoredValue DEF k
<1>8. k = Least(n, room)
  <2>1. CASE rxBufTail \in Slot
    <3>1. tail = rxBufTail BY <2>1, WrapType
    <3> HIDE DEF tail
    <3> QED BY <1>5, <1>7, <2>1, <3>1
  <2>2. CASE rxBufTail \notin Slot
    <3>1. rxBufTail = VCP_BUF_LEN BY <2>2, WrapType
    <3>2. ~(n > room) BY <1>4, <3>1
    <3>3. n <= room BY <1>1, <1>6, <3>2 DEF Slot
    <3> HIDE DEF room
    <3> QED BY <1>1, <1>6, <1>7, <2>2, <3>3 DEF Least, Slot
  <2> QED BY <2>1, <2>2
<1>9. k \in 0 .. n /\ k <= room
  <2> HIDE DEF room
  <2> QED BY <1>1, <1>6, <1>8, Sizes DEF Least, Slot
<1>10. Filled(rxBuf, rxBufHead, tail, bytes, k)
  <2>1. k \in 0 .. Len(bytes) /\ k <= VCP_BUF_LEN - 1 - Count(rxBufHead, tail)
    BY <1>5, <1>9 DEF n
  <2>2. rxBuf \in [Slot -> B] /\ rxBufHead \in Slot BY DEF RxType
  <2> HIDE DEF tail, B
  <2> QED BY <1>1, <1>3, <2>1, <2>2, RingFill
<1>11. Ring(rxBuf', rxBufHead', tail) = unread \o SubSeq(bytes, 1, k)
  BY <1>2, <1>5, <1>10, Zenon DEF Filled
<1>12. unread' = unread \o SubSeq(bytes, 1, k) BY <1>2, <1>8
<1>13. /\ SubSeq(bytes, 1, k) \in Seq(B) /\ unread \in Seq(B)
  <2>1. unread \in Seq(B) BY DEF RxInPlace
  <2>2. \A i \in 1 .. k : bytes[i] \in B BY <1>1, <1>9, ElementOfSeq DEF n
  <2>3. 1 \in Int /\ k \in Int BY <1>1, <1>9
  <2> HIDE DEF B
  <2> QED BY <2>1, <2>2, <2>3, SubSeqProperties
<1>14. unread' \in Seq(B) /\ Len(unread') >= Len(unread)
  <2> HIDE DEF B
  <2>1. /\ unread \o SubSeq(bytes, 1, k) \in Seq(B)
        /\ Len(unread \o SubSeq(bytes, 1, k)) = Len(unread) + Len(SubSeq(bytes, 1, k))
    BY <1>13, ConcatProperties
  <2>2. Len(SubSeq(bytes, 1, k)) \in Nat /\ Len(unread) \in Nat BY <1>13, LenProperties
  <2> QED BY <1>12, <2>1, <2>2
<1>15. readLeft' <= Len(unread')
  BY <1>2, <1>5, <1>14, LenProperties DEF TaskType, RxInPlace
<1>16. Wrap(rxBufTail') = tail BY <1>2
<1> QED BY <1>11, <1>12, <1>14, <1>15, <1>16 DEF RxInPlace

\* The task: the ring loses its first byte when the tail moves, wherever it is
\* wrapped.
LEMMA NextRxInPlace ==
  ASSUME ReceptionPoints = "harmless"
  PROVE  RxType /\ TaskType /\ Arriving /\ RxInPlace /\ [Next]_vars => RxInPlace'
<1> SUFFICES ASSUME RxType, TaskType, Arriving, RxInPlace, [Next]_vars PROVE RxInPlace' OBVIOUS
<1> DEFINE B == RxByte \cup {NULL}
           tail == Wrap(rxBufTail)
<1>1. CASE UNCHANGED <<unread, readLeft, rxBuf, rxBufHead, rxBufTail>>
  BY <1>1 DEF RxInPlace, Ring, Count, Wrap
<1>2. Bytes(B, rxBuf, rxBufHead, tail) /\ tail \in Slot /\ unread \in Seq(B) /\ Len(unread) \in Nat
  BY RxRing, WrapType, LenProperties DEF RxInPlace
<1>3. /\ Ring(rxBuf, rxBufHead, tail) = unread /\ readLeft <= Len(unread)
      /\ Len(unread) = Count(rxBufHead, tail)
  BY <1>2 DEF RxInPlace, Bytes
<1>4. CASE ReceptionComplete BY <1>4, ReceivedInPlace
<1>5. CASE CallRead
  <2>1. PICK maxLen \in Lengths : readLeft' = Least(Count(rxBufHead, rxBufTail), maxLen)
    BY <1>5, Zenon DEF CallRead, VCP_available
  <2>2. UNCHANGED <<unread, rxBuf, rxBufHead, rxBufTail>> /\ pc = "idle"
    BY <1>5 DEF CallRead, rx, history
  <2>3. rxBufTail \in Slot BY <2>2 DEF RxType
  <2>4. tail = rxBufTail BY <2>3, WrapType
  <2>5. maxLen \in Nat BY VcpAssumption
  <2>6. readLeft' <= Len(unread)
    <3>1. Len(unread) = Count(rxBufHead, rxBufTail) BY <1>3, <2>4
    <3> QED BY <1>2, <2>1, <2>5, <3>1 DEF Least
  <2> QED BY <2>2, <2>6 DEF RxInPlace, Ring, Count, Wrap
<1>6. CASE ReadByte
  <2>1. /\ pc = "read" /\ readLeft' = readLeft - 1
        /\ UNCHANGED <<rxBuf, rxBufHead>>
        /\ rxBufHead # rxBufTail => rxBufTail' = rxBufTail + 1
        /\ rxBufHead # rxBufTail => unread' = IF unread = <<>> THEN <<>> ELSE Tail(unread)
        /\ rxBufHead = rxBufTail => UNCHANGED <<rxBufTail, unread>>
    BY <1>6 DEF ReadByte
  <2>2. rxBufTail \in Slot /\ tail = rxBufTail /\ readLeft \in Nat /\ readLeft > 0
    <3>1. rxBufTail \in Slot BY <2>1 DEF RxType
    <3> QED BY <2>1, <3>1, WrapType DEF TaskType
  <2>3. unread' \in Seq(B)
    <3>1. unread # <<>> => Tail(unread) \in Seq(B) BY <1>2, HeadTailProperties
    <3>2. <<>> \in Seq(B) OBVIOUS
    <3> QED BY <1>2, <2>1, <3>1, <3>2
  <2>4. Len(unread) = Count(rxBufHead, rxBufTail) /\ Len(unread) >= readLeft
        /\ Ring(rxBuf, rxBufHead, rxBufTail) = unread
    BY <1>2, <1>3, <2>2
  <2>5. rxBufHead # rxBufTail
    <3>1. Count(rxBufHead, rxBufTail) # 0 BY <1>2, <2>2, <2>4
    <3>2. rxBufHead \in Slot BY DEF RxType
    <3> QED BY <2>2, <3>1, <3>2, CountValue DEF Slot
  <2>6. unread # <<>> /\ unread' = Tail(unread)
    BY <1>2, <2>1, <2>2, <2>4, <2>5, EmptySeq
  <2>7. Wrap(rxBufTail') = (rxBufTail + 1) % VCP_BUF_LEN
    <3>1. 1 \in Slot BY Sizes DEF Slot
    <3>2. (rxBufTail + 1) % VCP_BUF_LEN
            = IF rxBufTail + 1 < VCP_BUF_LEN THEN rxBufTail + 1 ELSE (rxBufTail + 1) - VCP_BUF_LEN
      BY <2>2, <3>1, ModSum, Zenon
    <3>3. rxBufTail' = rxBufTail + 1 BY <2>1, <2>5
    <3> QED BY <2>2, <3>2, <3>3, Sizes DEF Wrap, Slot
  <2>8. Moved(rxBuf, rxBufHead, rxBufTail, 1)
    <3>1. 1 \in 0 .. Count(rxBufHead, rxBufTail) BY <1>2, <2>2, <2>4
    <3>2. rxBuf \in [Slot -> B] /\ rxBufHead \in Slot BY DEF RxType
    <3> HIDE DEF B
    <3> QED BY <2>2, <3>1, <3>2, RingTake
  <2>9. Ring(rxBuf, rxBufHead, Wrap(rxBufTail')) = SubSeq(unread, 2, Len(unread))
    <3>1. Ring(rxBuf, rxBufHead, (rxBufTail + 1) % VCP_BUF_LEN)
            = SubSeq(Ring(rxBuf, rxBufHead, rxBufTail), 1 + 1, Count(rxBufHead, rxBufTail))
      BY <2>8, Zenon DEF Moved
    <3>2. 1 + 1 = 2 OBVIOUS
    <3> QED BY <2>4, <2>7, <3>1, <3>2, Zenon
  <2>10. Tail(unread) = SubSeq(unread, 2, Len(unread)) /\ Len(Tail(unread)) = Len(unread) - 1
    BY <1>2, <2>6, TailIsSubSeq, HeadTailProperties
  <2>11. readLeft' <= Len(unread') BY <1>2, <2>1, <2>2, <2>4, <2>6, <2>10
  <2>12. Ring(rxBuf', rxBufHead', Wrap(rxBufTail')) = unread'
    BY <2>1, <2>6, <2>9, <2>10
  <2> QED BY <2>3, <2>11, <2>12 DEF RxInPlace
<1>7. CASE WrapTail
  <2>1. /\ rxBufTail' = tail /\ UNCHANGED <<rxBuf, rxBufHead, readLeft>>
        /\ UNCHANGED unread
    BY <1>7 DEF WrapTail, history
  <2>2. Wrap(rxBufTail') = tail BY <1>2, <2>1, Sizes DEF Wrap, Slot
  <2>3. Ring(rxBuf', rxBufHead', Wrap(rxBufTail')) = Ring(rxBuf, rxBufHead, tail)
    BY <2>1, <2>2
  <2> QED BY <1>2, <1>3, <2>1, <2>3 DEF RxInPlace
<1>8. CASE \/ CallWrite \/ StoreByte \/ PublishByte \/ CheckBusy \/ CheckConfigured
           \/ StartTransmission \/ WriteReturns \/ TxFifoEmpty \/ TransmissionComplete
           \/ RxFifoLevel \/ ConfigFinishedHandler \/ Unconfigure \/ BusReset
           \/ HostReads \/ HostReadsEmpty \/ HostSends \/ UNCHANGED vars
  <2>1. UNCHANGED <<unread, readLeft, rxBuf, rxBufHead, rxBufTail>>
    BY <1>8 DEF CallWrite, StoreByte, PublishByte, CheckBusy, CheckConfigured,
       StartTransmission, WriteReturns, TxFifoEmpty, TransmissionComplete, RxFifoLevel,
       ConfigFinishedHandler, Unconfigure, BusReset, HostReads, HostReadsEmpty, HostSends, vars, rx,
       task, history
  <2> QED BY <1>1, <2>1
<1> QED
  BY <1>4, <1>5, <1>6, <1>7, <1>8, Zenon DEF Next, InCall, Interrupt

\* The task reads what the host has sent, in order and without a gap except
\* where the buffer was full, for every size of buffer, packet and call: if the
\* bus is reset, or a configuration set again, only between transfers, and if
\* no packet longer than the room left is handled while VCP_read has moved
\* rxBufTail to the end of the buffer and not yet wrapped it.
THEOREM ReceptionInOrder ==
  ASSUME ResetPoints = "idle", ReceptionPoints = "harmless"
  PROVE  Spec => []ReadsWhatWasReceived
<1> DEFINE Inv == RxType /\ TaskType /\ Arriving /\ RxInPlace
<1>1. Init => Inv
  <2> SUFFICES ASSUME Init PROVE Arriving /\ RxInPlace BY InitTypes
  <2>1. /\ unread = <<>> /\ readLeft = 0 /\ rxBufHead = 0 /\ rxBufTail = 0
    BY Zenon DEF Init
  <2>2. 0 \in Slot /\ Wrap(0) = 0 BY Sizes DEF Slot, Wrap
  <2>3. Count(0, 0) = 0 BY <2>2, CountValue, Sizes
  <2>4. Bytes(RxByte \cup {NULL}, rxBuf, rxBufHead, Wrap(rxBufTail)) BY InitTypes, RxRing
  <2>5. Ring(rxBuf, rxBufHead, Wrap(rxBufTail)) = <<>>
    BY <2>1, <2>2, <2>3, <2>4, EmptySeq DEF Bytes
  <2>6. <<>> \in Seq(RxByte \cup {NULL}) /\ Len(<<>>) = 0 OBVIOUS
  <2>7. RxInPlace BY <2>1, <2>5, <2>6 DEF RxInPlace
  <2>8. Arriving BY <2>6, Sizes DEF Init, Arriving, IdleOut, NoPacket
  <2> QED BY <2>7, <2>8
<1>2. Inv /\ [Next]_vars => Inv' BY NextRxType, NextTaskType, NextArriving, NextRxInPlace
<1>3. Inv => ReadsWhatWasReceived BY DEF RxInPlace, ReadsWhatWasReceived
<1> QED BY <1>1, <1>2, <1>3, PTL DEF Spec
==============================================================================
