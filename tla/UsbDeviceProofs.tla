---------------------------- MODULE UsbDeviceProofs ----------------------------
(* Proofs about UsbDevice, for every table of descriptors, size of packet and *)
(* choice of requests.                                                       *)
EXTENDS UsbDevice, SequenceTheorems, TLAPS

----------------------------------------------------------------------------
(* Requests.                                                                *)

LEMMA Sizes ==
  /\ EP_MAX_PACKET \in Nat /\ EP_MAX_PACKET > 0 /\ WORD \in Nat /\ WORD > 0
  /\ LINE_CODING_LEN \in Nat /\ LINE_CODING_LEN > 0
BY PacketAssumption, DeviceAssumption

\* What a request for each operation holds.
RequestFields(req) ==
  /\ req.bRequest = "SET_ADDRESS" => req.value \in Addresses /\ req.wLength = 0
  /\ req.bRequest = "GET_DESCRIPTOR" => req.wLength \in WLengths
  /\ req.bRequest = "GET_CONFIG" => req.wLength = 1
  /\ req.bRequest = "SET_CONFIG" => req.value \in 0 .. 2 /\ req.wLength = 0
  /\ req.bRequest = "SET_LINE_CODING" =>
       req.value \in LineCodings /\ req.wLength = LINE_CODING_LEN
  /\ req.bRequest = "GET_LINE_CODING" => req.wLength = LINE_CODING_LEN
  /\ req.bRequest = "SET_CONTROL_LINE_STATE" => req.value \in LineStates /\ req.wLength = 0

Operations ==
  {"SET_ADDRESS", "GET_DESCRIPTOR", "GET_CONFIG", "SET_CONFIG", "SET_LINE_CODING",
   "GET_LINE_CODING", "SET_CONTROL_LINE_STATE"}

LEMMA RequestIs ==
  ASSUME NEW req \in Requests
  PROVE  req.bRequest \in Operations /\ RequestFields(req)
<1> DEFINE SetAddress == {Request("SET_ADDRESS", "", a, 0) : a \in Addresses}
           SetConfig == {Request("SET_CONFIG", "", c, 0) : c \in 0 .. 2}
           SetLineCoding == {Request("SET_LINE_CODING", "", v, LINE_CODING_LEN) :
                               v \in LineCodings}
           SetLineState == {Request("SET_CONTROL_LINE_STATE", "", v, 0) : v \in LineStates}
<1>1. Requests = SetAddress \cup DescriptorRequests \cup {Request("GET_CONFIG", "", 0, 1)}
                 \cup SetConfig \cup SetLineCoding
                 \cup {Request("GET_LINE_CODING", "", 0, LINE_CODING_LEN)} \cup SetLineState
  BY Zenon DEF Requests
<1>2. CASE req \in SetAddress
  <2>1. PICK a \in Addresses : req = Request("SET_ADDRESS", "", a, 0) BY <1>2
  <2> QED BY <2>1 DEF Request, Operations, RequestFields
<1>3. CASE req \in DescriptorRequests
  <2>1. PICK t \in Descriptors, n \in WLengths : req = Request("GET_DESCRIPTOR", t[1], t[2], n)
    BY <1>3 DEF DescriptorRequests
  <2> QED BY <2>1 DEF Request, Operations, RequestFields
<1>4. CASE req \in SetConfig
  <2>1. PICK c \in 0 .. 2 : req = Request("SET_CONFIG", "", c, 0) BY <1>4
  <2> QED BY <2>1 DEF Request, Operations, RequestFields
<1>5. CASE req \in SetLineCoding
  <2>1. PICK v \in LineCodings : req = Request("SET_LINE_CODING", "", v, LINE_CODING_LEN) BY <1>5
  <2> QED BY <2>1 DEF Request, Operations, RequestFields
<1>6. CASE req \in SetLineState
  <2>1. PICK v \in LineStates : req = Request("SET_CONTROL_LINE_STATE", "", v, 0) BY <1>6
  <2> QED BY <2>1 DEF Request, Operations, RequestFields
<1>7. CASE req = Request("GET_CONFIG", "", 0, 1)
  BY <1>7 DEF Request, Operations, RequestFields
<1>8. CASE req = Request("GET_LINE_CODING", "", 0, LINE_CODING_LEN)
  BY <1>8 DEF Request, Operations, RequestFields
<1> HIDE DEF SetAddress, SetConfig, SetLineCoding, SetLineState
<1> QED BY <1>1, <1>2, <1>3, <1>4, <1>5, <1>6, <1>7, <1>8

\* The buffers, and what a request makes of them.
LEMMA Distinct ==
  /\ lineCoding # confNum /\ NULL # lineCoding /\ NULL # confNum
  /\ \A t \in DOMAIN DescLen : t # NULL /\ t # lineCoding /\ t # confNum
  /\ NULL \notin Requests /\ NULL # "StateStageIn" /\ NULL # "StateStageOut"
<1>1. lineCoding # confNum BY DEF lineCoding, confNum
<1> QED BY <1>1, NullAssumption

----------------------------------------------------------------------------
(* Types. What the FIFO of the IN endpoint holds is left open.               *)

InData == DOMAIN DescLen \cup {NULL, lineCoding, confNum}

InRecord(fifos) ==
  [data : InData, off : Nat, left : 0 .. EP_MAX_PACKET, lastSent : Nat,
   handler : {NULL, "StateStageOut"}, packetsLeft : Nat, dataLeft : Nat,
   armed : BOOLEAN, size : 0 .. EP_MAX_PACKET, count : Nat, txfe : BOOLEAN, fifo : fifos,
   xfrc : BOOLEAN, stall : BOOLEAN]

OutRecord ==
  [data : {NULL, lineCoding}, off : Nat, left : Nat, received : Nat,
   handler : {NULL, "StateStageIn"}, armed : BOOLEAN, count : Nat, fifo : Seq(LineCodings),
   xfrc : BOOLEAN]

IsIN(E) == E \in InRecord({E.fifo})

IsDevice(dev) ==
  /\ dev \in [connState : {"DEFAULT", "ADDRESS", "CONFIGURED"}, address : Addresses \cup {0},
              lastRequest : Requests \cup {NULL}, confNum : {0, 1},
              lineCoding : [1 .. LINE_CODING_LEN -> LineCodings],
              controlLineState : LineStates, in : {dev.in}, out : OutRecord,
              setup : Requests \cup {NULL}, stup : BOOLEAN, usbrst : BOOLEAN]
  /\ IsIN(dev.in)
  /\ dev.stup => dev.lastRequest \in Requests

Stages == {"idle", "dataIn", "dataOut", "statusIn", "statusOut"}

IsHost(host) ==
  /\ host \in [stage : Stages, req : Requests \cup {NULL}, got : {host.got}, stalled : BOOLEAN,
               address : {host.address}, config : {host.config}, codings : {host.codings},
               lineState : {host.lineState}]
  /\ host.stage # "idle" => host.req \in Requests
  /\ host.stage = "dataOut" => host.req.bRequest = "SET_LINE_CODING"

TypeInv == IsDevice(d) /\ IsHost(h) /\ branch \in {"none", "out", "in", "reset"}

LEMMA InitType == Init => TypeInv
<1> SUFFICES ASSUME Init PROVE TypeInv OBVIOUS
<1>1. PICK v \in LineCodings, s \in LineStates :
        /\ d = [connState |-> "DEFAULT", address |-> 0, lastRequest |-> NULL,
                confNum |-> 0, lineCoding |-> Coding(v), controlLineState |-> s,
                in |-> IdleIn, out |-> IdleOut,
                setup |-> NULL, stup |-> FALSE, usbrst |-> FALSE]
        /\ h = IdleHost({v}, s)
  BY DEF Init
<1>2. IsIN(IdleIn) BY Sizes DEF IsIN, IdleIn, InRecord, InData
<1>3. IdleOut \in OutRecord BY DEF IdleOut, OutRecord, NoPacket
<1>4. Coding(v) \in [1 .. LINE_CODING_LEN -> LineCodings] BY DEF Coding
<1>5. IsDevice(d) BY <1>1, <1>2, <1>3, <1>4 DEF IsDevice
<1>6. IsHost(h) BY <1>1 DEF IdleHost, IsHost, Stages
<1> QED BY <1>5, <1>6 DEF Init, TypeInv

----------------------------------------------------------------------------
(* What each function of usb.c makes of the record of an endpoint.           *)

LEMMA DivNat == \A a, w \in Nat : w > 0 => a \div w \in Nat
OBVIOUS

LEMMA LeastPacket ==
  ASSUME NEW len \in Nat
  PROVE  /\ Least(len, EP_MAX_PACKET) \in 0 .. EP_MAX_PACKET
         /\ len - Least(len, EP_MAX_PACKET) \in Nat
         /\ Least(len, EP_MAX_PACKET) = EP_MAX_PACKET \/ len - Least(len, EP_MAX_PACKET) = 0
BY Sizes DEF Least

\* The number of packets that n bytes take.
LEMMA PacketsNat == \A n \in Nat : Packets(n) \in Nat
<1> SUFFICES ASSUME NEW n \in Nat PROVE Packets(n) \in Nat OBVIOUS
<1>1. n + EP_MAX_PACKET - 1 \in Nat BY Sizes
<1> QED BY <1>1, DivNat, Sizes DEF Packets

TransferOf(new, E, buf, len, handler) ==
  LET n == Least(len, EP_MAX_PACKET) IN
  /\ IsIN(new)
  /\ new.data = buf /\ new.off = 0 /\ new.handler = handler
  /\ new.packetsLeft = Packets(len - n) /\ new.dataLeft = len - n
  /\ new.left = n /\ new.size = n /\ new.armed /\ new.txfe
  /\ new.lastSent = E.lastSent /\ new.fifo = E.fifo /\ new.xfrc = E.xfrc /\ new.stall = E.stall

LEMMA TransferStarts ==
  ASSUME NEW E, IsIN(E), NEW buf \in InData, NEW len \in Nat,
         NEW handler \in {NULL, "StateStageOut"}
  PROVE  TransferOf(InitiateTransfer(E, buf, len, handler), E, buf, len, handler)
<1> DEFINE n == Least(len, EP_MAX_PACKET)
           rest == len - n
           packets == Packets(rest)
           new == [E EXCEPT !.data = buf, !.off = 0, !.handler = handler,
                            !.packetsLeft = packets, !.dataLeft = rest,
                            !.left = n, !.size = n, !.count = 1, !.armed = TRUE, !.txfe = TRUE]
<1>1. InitiateTransfer(E, buf, len, handler) = new BY DeviceAssumption DEF InitiateTransfer
<1>2. n \in 0 .. EP_MAX_PACKET /\ rest \in Nat BY LeastPacket
<1>3. packets \in Nat BY <1>2, PacketsNat
<1> HIDE DEF n, rest, packets
<1>4. /\ new.data = buf /\ new.off = 0 /\ new.handler = handler
      /\ new.packetsLeft = packets /\ new.dataLeft = rest
      /\ new.left = n /\ new.size = n /\ new.armed = TRUE /\ new.txfe = TRUE
      /\ new.lastSent = E.lastSent /\ new.fifo = E.fifo /\ new.xfrc = E.xfrc
      /\ new.stall = E.stall
  BY DEF IsIN, InRecord
<1>5. new \in InRecord({E.fifo}) BY <1>2, <1>3 DEF IsIN, InRecord
<1> HIDE DEF new
<1>6. TransferOf(new, E, buf, len, handler)
  BY <1>4, <1>5, Zenon DEF TransferOf, n, rest, packets, IsIN
<1> QED BY <1>1, <1>6

\* TXFE.
Loaded(new, E, mem) ==
  /\ IsIN(new)
  /\ new.fifo = E.fifo \o SubSeq(mem, E.off + 1, E.off + E.left)
  /\ new.off = E.off + Words(E.left) * WORD
  /\ new.lastSent = (IF E.left = 0 THEN E.lastSent ELSE E.left)
  /\ new.left = 0 /\ ~new.txfe
  /\ new.data = E.data /\ new.handler = E.handler /\ new.packetsLeft = E.packetsLeft
  /\ new.dataLeft = E.dataLeft /\ new.armed = E.armed /\ new.size = E.size
  /\ new.xfrc = E.xfrc /\ new.stall = E.stall

LEMMA PacketLoads ==
  ASSUME NEW E, IsIN(E), NEW mem
  PROVE  IF E.left # 0 /\ ~HasRoom(E) THEN LoadDataIntoTxBuf(E, mem) = E
         ELSE Loaded(LoadDataIntoTxBuf(E, mem), E, mem)
<1> DEFINE words == Words(E.left)
           off == E.off + words * WORD
           last == IF E.left = 0 THEN E.lastSent ELSE E.left
           fifo == E.fifo \o SubSeq(mem, E.off + 1, E.off + E.left)
           new == [E EXCEPT !.fifo = fifo, !.off = off, !.lastSent = last, !.left = 0,
                            !.txfe = FALSE]
<1>1. LoadDataIntoTxBuf(E, mem) = IF E.left # 0 /\ ~HasRoom(E) THEN E ELSE new
  BY Zenon DEF LoadDataIntoTxBuf
<1>2. E.left \in Nat /\ E.off \in Nat /\ E.lastSent \in Nat BY Sizes DEF IsIN, InRecord
<1>3. off \in Nat
  <2>1. E.left + WORD - 1 \in Nat BY <1>2, Sizes
  <2>2. words \in Nat BY <2>1, Sizes, DivNat DEF Words
  <2> HIDE DEF words
  <2>3. words * WORD \in Nat BY <2>2, Sizes
  <2> QED BY <1>2, <2>3
<1>4. last \in Nat BY <1>2
<1> HIDE DEF off, last, fifo
<1>5. /\ new.fifo = fifo /\ new.off = off /\ new.lastSent = last /\ new.left = 0
      /\ new.txfe = FALSE /\ new.data = E.data /\ new.handler = E.handler
      /\ new.packetsLeft = E.packetsLeft /\ new.dataLeft = E.dataLeft
      /\ new.armed = E.armed /\ new.size = E.size /\ new.xfrc = E.xfrc /\ new.stall = E.stall
  BY DEF IsIN, InRecord
<1>6. new \in InRecord({fifo})
  <2>1. 0 \in 0 .. EP_MAX_PACKET BY Sizes
  <2> QED BY <1>3, <1>4, <2>1 DEF IsIN, InRecord
<1> HIDE DEF new
<1>7. Loaded(new, E, mem) BY <1>5, <1>6, Zenon DEF Loaded, off, last, fifo, IsIN
<1> QED BY <1>1, <1>7

\* XFRC with packets left.
Continued(new, E) ==
  LET n == Least(E.dataLeft, EP_MAX_PACKET) IN
  /\ IsIN(new)
  /\ new.packetsLeft = E.packetsLeft - 1 /\ new.dataLeft = E.dataLeft - n
  /\ new.left = n /\ new.size = n /\ new.lastSent = n
  /\ new.armed /\ new.txfe /\ ~new.xfrc
  /\ new.data = E.data /\ new.off = E.off /\ new.handler = E.handler
  /\ new.fifo = E.fifo /\ new.stall = E.stall

LEMMA PacketFollows ==
  ASSUME NEW E, IsIN(E), E.packetsLeft > 0
  PROVE  Continued(NextPacket(E), E)
<1> DEFINE n == Least(E.dataLeft, EP_MAX_PACKET)
           rest == E.dataLeft - n
           packets == E.packetsLeft - 1
           new == [E EXCEPT !.packetsLeft = packets, !.dataLeft = rest,
                            !.left = n, !.size = n, !.lastSent = n,
                            !.count = 1, !.armed = TRUE, !.txfe = TRUE, !.xfrc = FALSE]
<1>1. NextPacket(E) = new BY DEF NextPacket
<1>2. E.dataLeft \in Nat /\ E.packetsLeft \in Nat BY DEF IsIN, InRecord
<1>3. n \in 0 .. EP_MAX_PACKET /\ rest \in Nat BY <1>2, LeastPacket
<1>8. packets \in Nat BY <1>2
<1>4. n \in Nat BY <1>3, Sizes
<1> HIDE DEF n, rest, packets
<1>5. /\ new.packetsLeft = packets /\ new.dataLeft = rest
      /\ new.left = n /\ new.size = n /\ new.lastSent = n
      /\ new.armed = TRUE /\ new.txfe = TRUE /\ new.xfrc = FALSE
      /\ new.data = E.data /\ new.off = E.off /\ new.handler = E.handler
      /\ new.fifo = E.fifo /\ new.stall = E.stall
  BY DEF IsIN, InRecord
<1>6. new \in InRecord({E.fifo}) BY <1>3, <1>4, <1>8 DEF IsIN, InRecord
<1> HIDE DEF new
<1>7. Continued(new, E) BY <1>5, <1>6, Zenon DEF Continued, n, rest, packets, IsIN
<1> QED BY <1>1, <1>7

\* XFRC after the last packet, and the packet that may follow.
Ended(new, E) ==
  /\ IsIN(new)
  /\ new.data = NULL /\ new.handler = NULL /\ ~new.txfe /\ ~new.xfrc
  /\ new.left = E.left /\ new.lastSent = E.lastSent /\ new.fifo = E.fifo
  /\ new.armed = E.armed /\ new.stall = E.stall

LEMMA TransferEnds ==
  ASSUME NEW E, IsIN(E) PROVE Ended(TransferEnded(E), E)
<1> DEFINE new == [E EXCEPT !.data = NULL, !.off = 0, !.handler = NULL, !.txfe = FALSE,
                            !.xfrc = FALSE]
<1>1. /\ new.data = NULL /\ new.handler = NULL /\ new.txfe = FALSE /\ new.xfrc = FALSE
      /\ new.left = E.left /\ new.lastSent = E.lastSent /\ new.fifo = E.fifo
      /\ new.armed = E.armed /\ new.stall = E.stall
  BY DEF IsIN, InRecord
<1>2. new \in InRecord({E.fifo}) BY DEF IsIN, InRecord, InData
<1>3. TransferEnded(E) = new BY DEF TransferEnded
<1> HIDE DEF new
<1> QED BY <1>1, <1>2, <1>3, Zenon DEF Ended, IsIN

LEMMA ZlpFollows ==
  ASSUME NEW E, IsIN(E), E.data = NULL, E.handler = NULL
  PROVE  LET new == ZlpIfFull(E) IN
         \/ new = E /\ E.lastSent # EP_MAX_PACKET
         \/ /\ IsIN(new) /\ new.armed /\ new.size = 0 /\ new.left = 0
            /\ new.fifo = E.fifo /\ new.xfrc = E.xfrc /\ new.stall = E.stall
<1>1. CASE E.lastSent # EP_MAX_PACKET
  BY <1>1, Zenon DEF ZlpIfFull
<1>2. CASE E.lastSent = EP_MAX_PACKET
  <2> DEFINE F == [E EXCEPT !.lastSent = 0]
             new == InitiateTransfer(F, NULL, 0, E.handler)
  <2>1. IsIN(F) /\ F.fifo = E.fifo /\ F.xfrc = E.xfrc /\ F.stall = E.stall
    BY DEF IsIN, InRecord
  <2>2. ZlpIfFull(E) = new BY <1>2, Zenon DEF ZlpIfFull
  <2> HIDE DEF F
  <2>3. NULL \in InData /\ 0 \in Nat /\ E.handler \in {NULL, "StateStageOut"} BY DEF InData
  <2>4. TransferOf(new, F, NULL, 0, E.handler) BY <2>1, <2>3, TransferStarts
  <2>5. Least(0, EP_MAX_PACKET) = 0 BY Sizes DEF Least
  <2> HIDE DEF new
  <2> QED BY <2>1, <2>2, <2>4, <2>5 DEF TransferOf
<1> QED BY <1>1, <1>2

\* The host has read a packet.
Read(new, E) ==
  /\ IsIN(new)
  /\ ~new.armed /\ new.fifo = SubSeq(E.fifo, E.size + 1, Len(E.fifo))
  /\ new.xfrc = (E.size # 0)
  /\ new.data = E.data /\ new.off = E.off /\ new.left = E.left /\ new.lastSent = E.lastSent
  /\ new.handler = E.handler /\ new.packetsLeft = E.packetsLeft /\ new.dataLeft = E.dataLeft
  /\ new.size = E.size /\ new.txfe = E.txfe /\ new.stall = E.stall

LEMMA PacketIsSent ==
  ASSUME NEW E, IsIN(E) PROVE Read(Sent(E), E)
<1> DEFINE fifo == SubSeq(E.fifo, E.size + 1, Len(E.fifo))
           xfrc == E.size # 0
           new == [E EXCEPT !.armed = FALSE, !.fifo = fifo, !.xfrc = xfrc]
<1>1. Sent(E) = new BY DEF Sent
<1>2. xfrc \in BOOLEAN OBVIOUS
<1> HIDE DEF fifo, xfrc
<1>3. /\ new.armed = FALSE /\ new.fifo = fifo /\ new.xfrc = xfrc
      /\ new.data = E.data /\ new.off = E.off /\ new.left = E.left /\ new.lastSent = E.lastSent
      /\ new.handler = E.handler /\ new.packetsLeft = E.packetsLeft
      /\ new.dataLeft = E.dataLeft /\ new.size = E.size /\ new.txfe = E.txfe
      /\ new.stall = E.stall
  BY DEF IsIN, InRecord
<1>4. new \in InRecord({fifo}) BY <1>2 DEF IsIN, InRecord
<1> HIDE DEF new
<1> QED BY <1>1, <1>3, <1>4, Zenon DEF Read, fifo, xfrc, IsIN

LEMMA InResets ==
  ASSUME NEW E, IsIN(E)
  PROVE  LET new == InAfterReset(E) IN
         /\ IsIN(new) /\ new.fifo = <<>> /\ ~new.xfrc /\ ~new.stall
         /\ new.left = E.left /\ new.txfe = E.txfe
<1> DEFINE new == [E EXCEPT !.fifo = <<>>, !.xfrc = FALSE, !.stall = FALSE]
<1>1. new \in InRecord({<<>>}) BY DEF IsIN, InRecord
<1>2. /\ new.fifo = <<>> /\ new.xfrc = FALSE /\ new.stall = FALSE
      /\ new.left = E.left /\ new.txfe = E.txfe
  BY DEF IsIN, InRecord
<1>3. InAfterReset(E) = new BY DEF InAfterReset
<1> HIDE DEF new
<1> QED BY <1>1, <1>2, <1>3, Zenon DEF IsIN

\* OUT transfers.
LEMMA ReceptionStarts ==
  ASSUME NEW R \in OutRecord, NEW buf \in {NULL, lineCoding}, NEW len \in Nat,
         NEW handler \in {NULL, "StateStageIn"}
  PROVE  LET new == InitiateReception(R, buf, len, handler) IN
         /\ new \in OutRecord
         /\ new.data = buf /\ new.off = 0 /\ new.left = len /\ new.handler = handler
         /\ new.fifo = R.fifo /\ new.xfrc = R.xfrc
<1> DEFINE count == Packets(len)
           new == [R EXCEPT !.data = buf, !.off = 0, !.left = len, !.handler = handler,
                            !.count = count, !.armed = TRUE]
<1>4. count \in Nat BY PacketsNat
<1>3. InitiateReception(R, buf, len, handler) = new BY DEF InitiateReception
<1> HIDE DEF count
<1>1. new \in OutRecord BY <1>4 DEF OutRecord
<1>2. /\ new.data = buf /\ new.off = 0 /\ new.left = len /\ new.handler = handler
      /\ new.fifo = R.fifo /\ new.xfrc = R.xfrc
  BY DEF OutRecord
<1> HIDE DEF new
<1> QED BY <1>1, <1>2, <1>3, Zenon

LEMMA PacketArrives ==
  ASSUME NEW R \in OutRecord, NEW packet \in Seq(LineCodings)
  PROVE  LET new == Arrived(R, packet) IN
         /\ new \in OutRecord
         /\ ~new.armed /\ new.fifo = packet /\ new.xfrc = (packet = NoPacket)
         /\ new.data = R.data /\ new.off = R.off /\ new.left = R.left
         /\ new.handler = R.handler
<1> DEFINE xfrc == packet = NoPacket
           new == [R EXCEPT !.armed = FALSE, !.fifo = packet, !.xfrc = xfrc]
<1>1. xfrc \in BOOLEAN OBVIOUS
<1>2. Arrived(R, packet) = new BY DEF Arrived
<1> HIDE DEF xfrc
<1>3. new \in OutRecord BY <1>1 DEF OutRecord
<1>4. /\ new.armed = FALSE /\ new.fifo = packet /\ new.xfrc = xfrc
      /\ new.data = R.data /\ new.off = R.off /\ new.left = R.left /\ new.handler = R.handler
  BY DEF OutRecord
<1> HIDE DEF new
<1> QED BY <1>2, <1>3, <1>4, Zenon DEF xfrc

LEMMA PacketIsRead ==
  ASSUME NEW R \in OutRecord
  PROVE  LET new == PacketRead(R)
             n == Least(R.left, Len(R.fifo))
         IN /\ new \in OutRecord
            /\ n \in Nat /\ n <= Len(R.fifo) /\ new.off = R.off + n
            /\ new.fifo = NoPacket /\ new.xfrc /\ new.handler = R.handler
<1> DEFINE n == Least(R.left, Len(R.fifo))
           new == [R EXCEPT !.off = R.off + n, !.left = R.left - n,
                            !.received = R.received + n, !.fifo = NoPacket, !.xfrc = TRUE]
<1>1. PacketRead(R) = new BY DEF PacketRead
<1>2. R.off \in Nat /\ R.left \in Nat /\ R.received \in Nat /\ R.fifo \in Seq(LineCodings)
  BY DEF OutRecord
<1>3. Len(R.fifo) \in Nat BY <1>2, LenProperties
<1>4. n \in Nat /\ n <= R.left /\ n <= Len(R.fifo) BY <1>2, <1>3 DEF Least
<1>5. R.off + n \in Nat /\ R.left - n \in Nat /\ R.received + n \in Nat BY <1>2, <1>4
<1>6. NoPacket \in Seq(LineCodings) BY DEF NoPacket
<1> HIDE DEF n
<1>7. new \in OutRecord BY <1>5, <1>6 DEF OutRecord
<1>8. new.off = R.off + n /\ new.fifo = NoPacket /\ new.xfrc = TRUE /\ new.handler = R.handler
  BY DEF OutRecord
<1> HIDE DEF new
<1> QED BY <1>1, <1>4, <1>7, <1>8, Zenon DEF n

LEMMA ReceptionEnds ==
  ASSUME NEW R \in OutRecord
  PROVE  LET new == ReceptionEnded(R) IN
         /\ new \in OutRecord /\ ~new.xfrc /\ new.fifo = R.fifo
         /\ new.armed = R.armed /\ new.data = NULL /\ new.handler = NULL
<1> DEFINE new == [R EXCEPT !.data = NULL, !.off = 0, !.received = 0, !.handler = NULL,
                            !.xfrc = FALSE]
<1>1. new \in OutRecord BY DEF OutRecord
<1>2. /\ new.xfrc = FALSE /\ new.fifo = R.fifo /\ new.armed = R.armed
      /\ new.data = NULL /\ new.handler = NULL
  BY DEF OutRecord
<1>3. ReceptionEnded(R) = new BY DEF ReceptionEnded
<1> HIDE DEF new
<1> QED BY <1>1, <1>2, <1>3, Zenon

LEMMA OutResets ==
  ASSUME NEW R \in OutRecord
  PROVE  LET new == OutAfterReset(R) IN
         new \in OutRecord /\ ~new.xfrc /\ new.fifo = NoPacket
<1> DEFINE new == [R EXCEPT !.fifo = NoPacket, !.xfrc = FALSE, !.armed = FALSE]
<1>1. NoPacket \in Seq(LineCodings) BY DEF NoPacket
<1>2. new \in OutRecord BY <1>1 DEF OutRecord
<1>3. new.xfrc = FALSE /\ new.fifo = NoPacket BY DEF OutRecord
<1>4. OutAfterReset(R) = new BY DEF OutAfterReset
<1> HIDE DEF new
<1> QED BY <1>2, <1>3, <1>4, Zenon

----------------------------------------------------------------------------
(* What each request makes of the device.                                    *)

\* Nothing that the interrupt handler looks at has changed, but for endpoint 0.
Keeps(new, dev) ==
  /\ new.setup = dev.setup /\ new.stup = dev.stup /\ new.usbrst = dev.usbrst
  /\ new.lastRequest = dev.lastRequest /\ new.lineCoding = dev.lineCoding

\* Nothing that a request sets.
KeepsState(new, dev) ==
  /\ new.connState = dev.connState /\ new.address = dev.address
  /\ new.confNum = dev.confNum /\ new.controlLineState = dev.controlLineState

OnlyIn(new, dev, E) ==
  IsDevice(new) /\ Keeps(new, dev) /\ KeepsState(new, dev) /\ new.in = E /\ new.out = dev.out

OnlyOut(new, dev, R) ==
  IsDevice(new) /\ Keeps(new, dev) /\ KeepsState(new, dev) /\ new.out = R /\ new.in = dev.in

LEMMA InIsSet ==
  ASSUME NEW dev, IsDevice(dev), NEW E, IsIN(E)
  PROVE  OnlyIn([dev EXCEPT !.in = E], dev, E)
<1> DEFINE new == [dev EXCEPT !.in = E]
<1>1. new.in = E /\ new.out = dev.out /\ Keeps(new, dev) /\ KeepsState(new, dev)
  BY DEF IsDevice, Keeps, KeepsState
<1>2. IsDevice(new) BY DEF IsDevice
<1> HIDE DEF new
<1>3. OnlyIn(new, dev, E) BY <1>1, <1>2, Zenon DEF OnlyIn
<1> QED BY <1>3 DEF new

LEMMA OutIsSet ==
  ASSUME NEW dev, IsDevice(dev), NEW R, R \in OutRecord
  PROVE  OnlyOut([dev EXCEPT !.out = R], dev, R)
<1> DEFINE new == [dev EXCEPT !.out = R]
<1>1. new.out = R /\ new.in = dev.in /\ Keeps(new, dev) /\ KeepsState(new, dev)
  BY DEF IsDevice, Keeps, KeepsState
<1>2. IsDevice(new) BY DEF IsDevice
<1> HIDE DEF new
<1>3. OnlyOut(new, dev, R) BY <1>1, <1>2, Zenon DEF OnlyOut
<1> QED BY <1>3 DEF new

\* A refusal.
Stalled(new, dev) ==
  /\ IsDevice(new) /\ Keeps(new, dev) /\ KeepsState(new, dev) /\ new.out = dev.out
  /\ new.in.stall
  /\ new.in.left = dev.in.left /\ new.in.fifo = dev.in.fifo /\ new.in.xfrc = dev.in.xfrc

LEMMA Stalls == ASSUME NEW dev, IsDevice(dev) PROVE Stalled(StallEP(dev), dev)
<1> DEFINE E == [dev.in EXCEPT !.stall = TRUE]
<1>1. E \in InRecord({dev.in.fifo}) BY DEF IsDevice, IsIN, InRecord
<1>2. /\ E.stall = TRUE /\ E.left = dev.in.left /\ E.fifo = dev.in.fifo
      /\ E.xfrc = dev.in.xfrc
  BY DEF IsDevice, IsIN, InRecord
<1>3. IsIN(E) BY <1>1, <1>2, Zenon DEF IsIN
<1>4. StallEP(dev) = [dev EXCEPT !.in = E] BY DEF StallEP
<1> HIDE DEF E
<1>5. OnlyIn(StallEP(dev), dev, E) BY <1>3, <1>4, InIsSet
<1> QED BY <1>2, <1>5, Zenon DEF Stalled, OnlyIn

\* A transfer to the host, of data or of an empty packet.
Sends(new, dev, buf, len, handler) ==
  /\ IsDevice(new) /\ Keeps(new, dev) /\ new.out = dev.out
  /\ TransferOf(new.in, dev.in, buf, len, handler)

LEMMA SendStarts ==
  ASSUME NEW dev, IsDevice(dev), NEW buf \in InData, NEW len \in Nat,
         NEW handler \in {NULL, "StateStageOut"}
  PROVE  LET new == [dev EXCEPT !.in = InitiateTransfer(dev.in, buf, len, handler)] IN
         Sends(new, dev, buf, len, handler) /\ KeepsState(new, dev)
<1> DEFINE E == InitiateTransfer(dev.in, buf, len, handler)
           new == [dev EXCEPT !.in = E]
<1>1. IsIN(dev.in) BY Zenon DEF IsDevice
<1>2. TransferOf(E, dev.in, buf, len, handler) BY <1>1, TransferStarts, Zenon
<1>3. IsIN(E) BY <1>2, Zenon DEF TransferOf
<1> HIDE DEF E
<1>4. OnlyIn(new, dev, E) BY <1>3, InIsSet
<1> HIDE DEF new
<1>5. Sends(new, dev, buf, len, handler) /\ KeepsState(new, dev)
  BY <1>2, <1>4, Zenon DEF Sends, OnlyIn
<1> QED BY <1>5 DEF new, E

LEMMA StateStageInIs ==
  ASSUME NEW dev, IsDevice(dev)
  PROVE  Sends(StateStageIn(dev), dev, NULL, 0, NULL) /\ KeepsState(StateStageIn(dev), dev)
<1>1. NULL \in InData /\ 0 \in Nat /\ NULL \in {NULL, "StateStageOut"} BY DEF InData
<1> QED BY <1>1, SendStarts, Zenon DEF StateStageIn

LEMMA AnswerIs ==
  ASSUME NEW dev, IsDevice(dev), NEW buf \in InData, NEW len \in Nat
  PROVE  /\ Sends(Answer(dev, buf, len), dev, buf, len, "StateStageOut")
         /\ KeepsState(Answer(dev, buf, len), dev)
<1>1. "StateStageOut" \in {NULL, "StateStageOut"} OBVIOUS
<1> QED BY <1>1, SendStarts, Zenon DEF Answer

LEMMA StateStageOutIs ==
  ASSUME NEW dev, IsDevice(dev)
  PROVE  LET new == StateStageOut(dev) IN
         /\ IsDevice(new) /\ Keeps(new, dev) /\ KeepsState(new, dev) /\ new.in = dev.in
         /\ new.out.data = NULL /\ new.out.handler = NULL
         /\ new.out.fifo = dev.out.fifo /\ new.out.xfrc = dev.out.xfrc
<1> DEFINE R == InitiateReception(dev.out, NULL, 0, NULL)
<1>1. dev.out \in OutRecord BY DEF IsDevice
<1>2. /\ R \in OutRecord /\ R.data = NULL /\ R.handler = NULL
      /\ R.fifo = dev.out.fifo /\ R.xfrc = dev.out.xfrc
  <2>1. NULL \in {NULL, lineCoding} /\ NULL \in {NULL, "StateStageIn"} /\ 0 \in Nat OBVIOUS
  <2> QED BY <1>1, <2>1, ReceptionStarts, Zenon
<1>3. StateStageOut(dev) = [dev EXCEPT !.out = R] BY DEF StateStageOut
<1> HIDE DEF R
<1>4. OnlyOut(StateStageOut(dev), dev, R) BY <1>2, <1>3, OutIsSet
<1> QED BY <1>2, <1>4, Zenon DEF OnlyOut

HasState(new, connState, address, conf, lineState) ==
  /\ new.connState = connState /\ new.address = address
  /\ new.confNum = conf /\ new.controlLineState = lineState

OnlyState(new, dev) ==
  IsDevice(new) /\ Keeps(new, dev) /\ new.in = dev.in /\ new.out = dev.out

LEMMA StateIsSet ==
  ASSUME NEW dev, IsDevice(dev), NEW c \in {"DEFAULT", "ADDRESS", "CONFIGURED"},
         NEW a \in Addresses \cup {0}, NEW n \in {0, 1}, NEW s \in LineStates
  PROVE  /\ LET new == [dev EXCEPT !.address = a, !.connState = c] IN
            OnlyState(new, dev) /\ HasState(new, c, a, dev.confNum, dev.controlLineState)
         /\ LET new == [dev EXCEPT !.connState = c] IN
            OnlyState(new, dev) /\ HasState(new, c, dev.address, dev.confNum, dev.controlLineState)
         /\ LET new == [dev EXCEPT !.confNum = n] IN
            OnlyState(new, dev) /\ HasState(new, dev.connState, dev.address, n, dev.controlLineState)
         /\ LET new == [dev EXCEPT !.controlLineState = s] IN
            OnlyState(new, dev) /\ HasState(new, dev.connState, dev.address, dev.confNum, s)
<1>1. LET new == [dev EXCEPT !.address = a, !.connState = c] IN
      OnlyState(new, dev) /\ HasState(new, c, a, dev.confNum, dev.controlLineState)
  BY DEF IsDevice, Keeps, OnlyState, HasState
<1>2. LET new == [dev EXCEPT !.connState = c] IN
      OnlyState(new, dev) /\ HasState(new, c, dev.address, dev.confNum, dev.controlLineState)
  BY DEF IsDevice, Keeps, OnlyState, HasState
<1>3. LET new == [dev EXCEPT !.confNum = n] IN
      OnlyState(new, dev) /\ HasState(new, dev.connState, dev.address, n, dev.controlLineState)
  BY DEF IsDevice, Keeps, OnlyState, HasState
<1>4. LET new == [dev EXCEPT !.controlLineState = s] IN
      OnlyState(new, dev) /\ HasState(new, dev.connState, dev.address, dev.confNum, s)
  BY DEF IsDevice, Keeps, OnlyState, HasState
<1> QED BY <1>1, <1>2, <1>3, <1>4, Zenon

\* The status of a request is given before or after the state is set.
LEMMA SendsState ==
  ASSUME NEW dev, NEW mid, NEW new, NEW buf, NEW len, NEW handler,
         \/ Sends(mid, dev, buf, len, handler) /\ KeepsState(mid, dev) /\ OnlyState(new, mid)
         \/ OnlyState(mid, dev) /\ Sends(new, mid, buf, len, handler) /\ KeepsState(new, mid)
  PROVE  Sends(new, dev, buf, len, handler)
<1>1. Keeps(new, mid) /\ Keeps(mid, dev) /\ new.out = dev.out /\ IsDevice(new)
  BY DEF Sends, OnlyState
<1>2. Keeps(new, dev) BY <1>1 DEF Keeps
<1>3. TransferOf(new.in, dev.in, buf, len, handler) BY DEF Sends, OnlyState
<1> QED BY <1>1, <1>2, <1>3 DEF Sends

\* The device's view of which requests it cannot serve.
Refuses(dev, req) ==
  \/ req.bRequest = "SET_ADDRESS" /\ dev.connState = "CONFIGURED"
  \/ req.bRequest = "GET_CONFIG" /\ dev.connState = "DEFAULT"
  \/ req.bRequest = "SET_CONFIG" /\ (dev.connState = "DEFAULT" \/ req.value \notin {0, 1})
  \/ req.bRequest = "GET_DESCRIPTOR" /\ descriptor(req) \notin DOMAIN DescLen

ReadyToReceive(R) ==
  R.data = lineCoding /\ R.off = 0 /\ R.left = LINE_CODING_LEN /\ R.handler = "StateStageIn"

Receives(new, dev) ==
  /\ IsDevice(new) /\ Keeps(new, dev) /\ KeepsState(new, dev) /\ new.in = dev.in
  /\ ReadyToReceive(new.out) /\ new.out.fifo = dev.out.fifo /\ new.out.xfrc = dev.out.xfrc

\* What a request that is served does.
Grants(new, dev, req) ==
  CASE req.bRequest = "SET_ADDRESS" ->
         /\ Sends(new, dev, NULL, 0, NULL)
         /\ HasState(new, IF req.value = 0 THEN "DEFAULT" ELSE "ADDRESS", req.value,
                     dev.confNum, dev.controlLineState)
    [] req.bRequest = "GET_DESCRIPTOR" ->
         /\ Sends(new, dev, descriptor(req), Least(req.wLength, DescLen[descriptor(req)]),
                  "StateStageOut")
         /\ KeepsState(new, dev)
    [] req.bRequest = "GET_CONFIG" ->
         /\ Sends(new, dev, confNum, 1, "StateStageOut")
         /\ HasState(new, dev.connState, dev.address,
                     IF dev.connState = "CONFIGURED" THEN 1 ELSE 0, dev.controlLineState)
    [] req.bRequest = "SET_CONFIG" ->
         /\ Sends(new, dev, NULL, 0, NULL)
         /\ HasState(new, IF req.value = 0 THEN "ADDRESS" ELSE "CONFIGURED", dev.address,
                     dev.confNum, dev.controlLineState)
    [] req.bRequest = "SET_LINE_CODING" -> Receives(new, dev)
    [] req.bRequest = "GET_LINE_CODING" ->
         Sends(new, dev, lineCoding, LINE_CODING_LEN, "StateStageOut") /\ KeepsState(new, dev)
    [] req.bRequest = "SET_CONTROL_LINE_STATE" ->
         /\ Sends(new, dev, NULL, 0, NULL)
         /\ HasState(new, dev.connState, dev.address, dev.confNum, req.value)

Outcome(new, dev, req) ==
  IF Refuses(dev, req) THEN Stalled(new, dev) ELSE Grants(new, dev, req)

LEMMA SetAddressOutcome ==
  ASSUME NEW dev, IsDevice(dev), NEW req \in Requests, req.bRequest = "SET_ADDRESS"
  PROVE  Outcome(HandleSetAddress(dev, req), dev, req)
<1>1. CASE dev.connState = "CONFIGURED"
  BY <1>1, Stalls DEF HandleSetAddress, Outcome, Refuses
<1>2. CASE dev.connState # "CONFIGURED"
  <2> DEFINE mid == StateStageIn(dev)
             c == IF req.value = 0 THEN "DEFAULT" ELSE "ADDRESS"
             new == [mid EXCEPT !.address = req.value, !.connState = c]
  <2>1. HandleSetAddress(dev, req) = new BY <1>2, Zenon DEF HandleSetAddress
  <2>2. Sends(mid, dev, NULL, 0, NULL) /\ KeepsState(mid, dev) BY StateStageInIs
  <2>3. req.value \in Addresses \cup {0} BY RequestIs DEF RequestFields
  <2>4. c \in {"DEFAULT", "ADDRESS", "CONFIGURED"} OBVIOUS
  <2>5. IsDevice(mid) BY <2>2, Zenon DEF Sends
  <2> HIDE DEF mid, c
  <2>6. OnlyState(new, mid) /\ HasState(new, c, req.value, mid.confNum, mid.controlLineState)
    <3>1. mid.confNum \in {0, 1} /\ mid.controlLineState \in LineStates BY <2>5 DEF IsDevice
    <3> QED BY <2>3, <2>4, <2>5, <3>1, StateIsSet
  <2> HIDE DEF new
  <2>7. Sends(new, dev, NULL, 0, NULL) BY <2>2, <2>6, SendsState, Zenon
  <2>8. HasState(new, c, req.value, dev.confNum, dev.controlLineState)
    BY <2>2, <2>6 DEF HasState, KeepsState
  <2>9. Grants(new, dev, req) BY <2>7, <2>8 DEF Grants, c
  <2> QED BY <1>2, <2>1, <2>9 DEF Outcome, Refuses
<1> QED BY <1>1, <1>2

LEMMA GetDescriptorOutcome ==
  ASSUME NEW dev, IsDevice(dev), NEW req \in Requests, req.bRequest = "GET_DESCRIPTOR"
  PROVE  Outcome(HandleGetDescriptor(dev, req), dev, req)
<1> DEFINE t == descriptor(req)
           n == Least(req.wLength, DescLen[t])
<1>1. CASE t \notin DOMAIN DescLen
  BY <1>1, Stalls DEF HandleGetDescriptor, Outcome, Refuses
<1>2. CASE t \in DOMAIN DescLen
  <2>1. t \in InData BY <1>2 DEF InData
  <2>2. n \in Nat
    <3>1. req.wLength \in Nat BY RequestIs, DeviceAssumption DEF RequestFields
    <3>2. DescLen[t] \in Nat BY <1>2, DeviceAssumption
    <3> QED BY <3>1, <3>2 DEF Least
  <2> DEFINE new == Answer(dev, t, n)
  <2>3. HandleGetDescriptor(dev, req) = new BY <1>2, Zenon DEF HandleGetDescriptor
  <2> HIDE DEF n
  <2>4. Sends(new, dev, t, n, "StateStageOut") /\ KeepsState(new, dev) BY <2>1, <2>2, AnswerIs
  <2> HIDE DEF new
  <2>5. Grants(new, dev, req) BY <2>4 DEF Grants, n
  <2> QED BY <1>2, <2>3, <2>5 DEF Outcome, Refuses
<1> QED BY <1>1, <1>2

LEMMA GetConfigurationOutcome ==
  ASSUME NEW dev, IsDevice(dev), NEW req \in Requests, req.bRequest = "GET_CONFIG"
  PROVE  Outcome(HandleGetConfiguration(dev, req), dev, req)
<1>1. CASE dev.connState = "DEFAULT"
  BY <1>1, Stalls DEF HandleGetConfiguration, Outcome, Refuses
<1>2. CASE dev.connState # "DEFAULT"
  <2> DEFINE c == IF dev.connState = "CONFIGURED" THEN 1 ELSE 0
             mid == [dev EXCEPT !.confNum = c]
             new == Answer(mid, confNum, 1)
  <2>1. HandleGetConfiguration(dev, req) = new BY <1>2, Zenon DEF HandleGetConfiguration
  <2>2. c \in {0, 1} OBVIOUS
  <2> HIDE DEF c
  <2>3. OnlyState(mid, dev)
        /\ HasState(mid, dev.connState, dev.address, c, dev.controlLineState)
    <3>1. /\ dev.connState \in {"DEFAULT", "ADDRESS", "CONFIGURED"}
          /\ dev.address \in Addresses \cup {0} /\ dev.controlLineState \in LineStates
      BY DEF IsDevice
    <3> QED BY <2>2, <3>1, StateIsSet
  <2>4. IsDevice(mid) BY <2>3, Zenon DEF OnlyState
  <2> HIDE DEF mid
  <2>5. Sends(new, mid, confNum, 1, "StateStageOut") /\ KeepsState(new, mid)
    <3>1. confNum \in InData /\ 1 \in Nat BY DEF InData
    <3> QED BY <2>4, <3>1, AnswerIs
  <2> HIDE DEF new
  <2>6. Sends(new, dev, confNum, 1, "StateStageOut") BY <2>3, <2>5, SendsState, Zenon
  <2>7. HasState(new, dev.connState, dev.address, c, dev.controlLineState)
    BY <2>3, <2>5 DEF HasState, KeepsState
  <2>8. Grants(new, dev, req) BY <2>6, <2>7 DEF Grants, c
  <2> QED BY <1>2, <2>1, <2>8 DEF Outcome, Refuses
<1> QED BY <1>1, <1>2

LEMMA SetConfigurationOutcome ==
  ASSUME NEW dev, IsDevice(dev), NEW req \in Requests, req.bRequest = "SET_CONFIG"
  PROVE  Outcome(HandleSetConfiguration(dev, req), dev, req)
<1>1. CASE dev.connState = "DEFAULT" \/ req.value \notin {0, 1}
  BY <1>1, Stalls DEF HandleSetConfiguration, Outcome, Refuses
<1>2. CASE ~(dev.connState = "DEFAULT" \/ req.value \notin {0, 1})
  <2> DEFINE mid == StateStageIn(dev)
             c == IF req.value = 0 THEN "ADDRESS" ELSE "CONFIGURED"
             new == [mid EXCEPT !.connState = c]
  <2>1. HandleSetConfiguration(dev, req) = new BY <1>2, Zenon DEF HandleSetConfiguration
  <2>2. Sends(mid, dev, NULL, 0, NULL) /\ KeepsState(mid, dev) BY StateStageInIs
  <2>3. c \in {"DEFAULT", "ADDRESS", "CONFIGURED"} OBVIOUS
  <2>4. IsDevice(mid) BY <2>2, Zenon DEF Sends
  <2> HIDE DEF mid, c
  <2>5. OnlyState(new, mid) /\ HasState(new, c, mid.address, mid.confNum, mid.controlLineState)
    <3>1. /\ mid.confNum \in {0, 1} /\ mid.controlLineState \in LineStates
          /\ mid.address \in Addresses \cup {0}
      BY <2>4 DEF IsDevice
    <3> QED BY <2>3, <2>4, <3>1, StateIsSet
  <2> HIDE DEF new
  <2>6. Sends(new, dev, NULL, 0, NULL) BY <2>2, <2>5, SendsState, Zenon
  <2>7. HasState(new, c, dev.address, dev.confNum, dev.controlLineState)
    BY <2>2, <2>5 DEF HasState, KeepsState
  <2>8. Grants(new, dev, req) BY <2>6, <2>7 DEF Grants, c
  <2> QED BY <1>2, <2>1, <2>8 DEF Outcome, Refuses
<1> QED BY <1>1, <1>2

LEMMA OtherOutcome ==
  ASSUME NEW dev, IsDevice(dev), NEW req \in Requests,
         req.bRequest \in {"SET_LINE_CODING", "GET_LINE_CODING", "SET_CONTROL_LINE_STATE"}
  PROVE  Outcome(HandleOtherRequests(dev, req), dev, req)
<1> DEFINE new == HandleOtherRequests(dev, req)
<1>1. ~Refuses(dev, req) BY DEF Refuses
<1>2. CASE req.bRequest = "SET_LINE_CODING"
  <2> DEFINE R == InitiateReception(dev.out, lineCoding, LINE_CODING_LEN, "StateStageIn")
  <2>1. dev.out \in OutRecord BY DEF IsDevice
  <2>2. R \in OutRecord /\ ReadyToReceive(R) /\ R.fifo = dev.out.fifo /\ R.xfrc = dev.out.xfrc
    <3>1. /\ lineCoding \in {NULL, lineCoding} /\ "StateStageIn" \in {NULL, "StateStageIn"}
          /\ LINE_CODING_LEN \in Nat
      BY Sizes
    <3> QED BY <2>1, <3>1, ReceptionStarts, Zenon DEF ReadyToReceive
  <2>3. new = [dev EXCEPT !.out = R] BY <1>2 DEF HandleOtherRequests
  <2> HIDE DEF R, new
  <2>4. OnlyOut(new, dev, R) BY <2>2, <2>3, OutIsSet
  <2>5. Receives(new, dev) BY <2>2, <2>4, Zenon DEF Receives, OnlyOut
  <2>6. Grants(new, dev, req) BY <1>2, <2>5 DEF Grants
  <2> QED BY <1>1, <2>6 DEF Outcome, new
<1>3. CASE req.bRequest = "GET_LINE_CODING"
  <2>1. new = Answer(dev, lineCoding, LINE_CODING_LEN) BY <1>3 DEF HandleOtherRequests
  <2> HIDE DEF new
  <2>2. lineCoding \in InData /\ LINE_CODING_LEN \in Nat BY Sizes DEF InData
  <2>3. Sends(new, dev, lineCoding, LINE_CODING_LEN, "StateStageOut") /\ KeepsState(new, dev)
    BY <2>1, <2>2, AnswerIs
  <2>4. Grants(new, dev, req) BY <1>3, <2>3 DEF Grants
  <2> QED BY <1>1, <2>4 DEF Outcome, new
<1>4. CASE req.bRequest = "SET_CONTROL_LINE_STATE"
  <2> DEFINE mid == [dev EXCEPT !.controlLineState = req.value]
  <2>1. new = StateStageIn(mid) BY <1>4 DEF HandleOtherRequests
  <2> HIDE DEF new
  <2>2. OnlyState(mid, dev)
        /\ HasState(mid, dev.connState, dev.address, dev.confNum, req.value)
    <3>1. /\ dev.connState \in {"DEFAULT", "ADDRESS", "CONFIGURED"}
          /\ dev.address \in Addresses \cup {0} /\ dev.confNum \in {0, 1}
      BY DEF IsDevice
    <3>2. req.value \in LineStates BY <1>4, RequestIs DEF RequestFields
    <3> QED BY <3>1, <3>2, StateIsSet
  <2>3. IsDevice(mid) BY <2>2, Zenon DEF OnlyState
  <2> HIDE DEF mid
  <2>4. Sends(new, mid, NULL, 0, NULL) /\ KeepsState(new, mid) BY <2>1, <2>3, StateStageInIs
  <2>5. Sends(new, dev, NULL, 0, NULL) BY <2>2, <2>4, SendsState, Zenon
  <2>6. HasState(new, dev.connState, dev.address, dev.confNum, req.value)
    BY <2>2, <2>4 DEF HasState, KeepsState
  <2>7. Grants(new, dev, req) BY <1>4, <2>5, <2>6 DEF Grants
  <2> QED BY <1>1, <2>7 DEF Outcome, new
<1> QED BY <1>2, <1>3, <1>4

LEMMA RequestOutcome ==
  ASSUME NEW dev, IsDevice(dev), NEW req \in Requests
  PROVE  Outcome(HandleStandardRequest(dev, req), dev, req)
<1>1. req.bRequest \in Operations BY RequestIs
<1>2. CASE req.bRequest = "SET_ADDRESS"
  BY <1>2, SetAddressOutcome DEF HandleStandardRequest
<1>3. CASE req.bRequest = "GET_DESCRIPTOR"
  BY <1>3, GetDescriptorOutcome DEF HandleStandardRequest
<1>4. CASE req.bRequest = "GET_CONFIG"
  BY <1>4, GetConfigurationOutcome DEF HandleStandardRequest
<1>5. CASE req.bRequest = "SET_CONFIG"
  BY <1>5, SetConfigurationOutcome DEF HandleStandardRequest
<1>6. CASE req.bRequest \in {"SET_LINE_CODING", "GET_LINE_CODING", "SET_CONTROL_LINE_STATE"}
  BY <1>6, OtherOutcome DEF HandleStandardRequest
<1> QED BY <1>1, <1>2, <1>3, <1>4, <1>5, <1>6 DEF Operations

LEMMA OutcomeType ==
  ASSUME NEW new, NEW dev, NEW req \in Requests, Outcome(new, dev, req)
  PROVE  IsDevice(new) /\ Keeps(new, dev)
<1>1. CASE Refuses(dev, req) BY <1>1 DEF Outcome, Stalled
<1>2. CASE ~Refuses(dev, req)
  <2>1. Grants(new, dev, req) BY <1>2 DEF Outcome
  <2>2. req.bRequest \in Operations BY RequestIs
  <2>3. Receives(new, dev) \/ \E buf, len, handler : Sends(new, dev, buf, len, handler)
    BY <2>1, <2>2 DEF Grants, Operations
  <2> QED BY <2>3, Zenon DEF Receives, Sends
<1> QED BY <1>1, <1>2

----------------------------------------------------------------------------
(* What each branch of the interrupt handler makes of the device.            *)

\* RXFLVL: a packet is stored, or a SETUP packet is read.
PacketStored(new, dev) ==
  /\ IsDevice(new) /\ KeepsState(new, dev) /\ new.in = dev.in
  /\ new.setup = dev.setup /\ new.stup = dev.stup /\ new.usbrst = dev.usbrst
  /\ new.lastRequest = dev.lastRequest
  /\ new.out.fifo = NoPacket /\ new.out.xfrc /\ new.out.handler = dev.out.handler

WrittenAt(new, dev, n) ==
  new.lineCoding = [i \in 1 .. LINE_CODING_LEN |->
                      IF i \in dev.out.off + 1 .. dev.out.off + n
                      THEN dev.out.fifo[i - dev.out.off] ELSE dev.lineCoding[i]]

LEMMA PacketIsStored ==
  ASSUME NEW dev, IsDevice(dev), dev.out.fifo # NoPacket
  PROVE  LET new == ReadRxFifo(dev) IN
         /\ PacketStored(new, dev)
         /\ dev.out.data = lineCoding =>
              WrittenAt(new, dev, Least(dev.out.left, Len(dev.out.fifo)))
<1> DEFINE n == Least(dev.out.left, Len(dev.out.fifo))
           R == PacketRead(dev.out)
           written == [i \in DOMAIN dev.lineCoding |->
                         IF i \in dev.out.off + 1 .. R.off
                         THEN dev.out.fifo[i - dev.out.off] ELSE dev.lineCoding[i]]
           coding == IF dev.out.data # lineCoding THEN dev.lineCoding ELSE written
           new == [dev EXCEPT !.out = R, !.lineCoding = coding]
<1>1. ReadRxFifo(dev) = new BY Zenon DEF ReadRxFifo
<1>2. dev.out \in OutRecord /\ dev.lineCoding \in [1 .. LINE_CODING_LEN -> LineCodings]
  BY DEF IsDevice
<1>3. /\ R \in OutRecord /\ n \in Nat /\ n <= Len(dev.out.fifo) /\ R.off = dev.out.off + n
      /\ R.fifo = NoPacket /\ R.xfrc /\ R.handler = dev.out.handler
  BY <1>2, PacketIsRead
<1>4. dev.out.off \in Nat /\ dev.out.fifo \in Seq(LineCodings) BY <1>2 DEF OutRecord
<1> HIDE DEF n, R
<1>5. written \in [1 .. LINE_CODING_LEN -> LineCodings]
  <2>1. ASSUME NEW i \in dev.out.off + 1 .. R.off PROVE dev.out.fifo[i - dev.out.off] \in LineCodings
    <3>1. i - dev.out.off \in 1 .. Len(dev.out.fifo) BY <1>3, <1>4, LenProperties
    <3> QED BY <1>4, <3>1, ElementOfSeq
  <2> QED BY <1>2, <2>1
<1>6. written = [i \in 1 .. LINE_CODING_LEN |->
                   IF i \in dev.out.off + 1 .. dev.out.off + n
                   THEN dev.out.fifo[i - dev.out.off] ELSE dev.lineCoding[i]]
  BY <1>2, <1>3
<1> HIDE DEF written
<1>7. coding \in [1 .. LINE_CODING_LEN -> LineCodings] BY <1>2, <1>5
<1>8. dev.out.data = lineCoding => coding = written OBVIOUS
<1> HIDE DEF coding
<1>9. /\ new.out = R /\ new.lineCoding = coding /\ new.in = dev.in /\ new.setup = dev.setup
      /\ new.stup = dev.stup /\ new.usbrst = dev.usbrst /\ new.lastRequest = dev.lastRequest
      /\ KeepsState(new, dev)
  BY DEF IsDevice, KeepsState
<1>10. IsDevice(new) BY <1>3, <1>7 DEF IsDevice
<1> HIDE DEF new
<1>11. PacketStored(new, dev) BY <1>3, <1>9, <1>10, Zenon DEF PacketStored
<1>12. dev.out.data = lineCoding => WrittenAt(new, dev, n)
  BY <1>6, <1>8, <1>9, Zenon DEF WrittenAt
<1> QED BY <1>1, <1>11, <1>12, Zenon DEF n

SetupRead(new, dev) ==
  /\ IsDevice(new) /\ KeepsState(new, dev) /\ new.in = dev.in /\ new.out = dev.out
  /\ new.setup = NULL /\ new.stup /\ new.lastRequest = dev.setup
  /\ new.usbrst = dev.usbrst /\ new.lineCoding = dev.lineCoding

LEMMA SetupIsRead ==
  ASSUME NEW dev, IsDevice(dev), dev.out.fifo = NoPacket
  PROVE  LET new == ReadRxFifo(dev) IN
         IF dev.setup = NULL THEN new = dev ELSE SetupRead(new, dev)
<1>1. CASE dev.setup = NULL BY <1>1, Zenon DEF ReadRxFifo
<1>2. CASE dev.setup # NULL
  <2> DEFINE new == [dev EXCEPT !.lastRequest = dev.setup, !.setup = NULL, !.stup = TRUE]
  <2>1. ReadRxFifo(dev) = new BY <1>2, Zenon DEF ReadRxFifo
  <2>2. /\ new.in = dev.in /\ new.out = dev.out /\ new.setup = NULL /\ new.stup = TRUE
        /\ new.lastRequest = dev.setup /\ new.usbrst = dev.usbrst
        /\ new.lineCoding = dev.lineCoding /\ KeepsState(new, dev)
    BY DEF IsDevice, KeepsState
  <2>3. IsDevice(new) BY <1>2 DEF IsDevice
  <2> HIDE DEF new
  <2> QED BY <1>2, <2>1, <2>2, <2>3, Zenon DEF SetupRead
<1> QED BY <1>1, <1>2

\* OEPINT: a reception is over ...
Received(new, dev) ==
  /\ IsDevice(new) /\ Keeps(new, dev) /\ KeepsState(new, dev)
  /\ ~new.out.xfrc /\ new.out.fifo = dev.out.fifo /\ new.out.armed = dev.out.armed
  /\ new.out.data = NULL /\ new.out.handler = NULL
  /\ IF dev.out.handler = "StateStageIn" THEN TransferOf(new.in, dev.in, NULL, 0, NULL)
     ELSE new.in = dev.in

LEMMA ReceptionIsDone ==
  ASSUME NEW dev, IsDevice(dev), dev.out.xfrc
  PROVE  Received(ReceptionComplete(dev), dev)
<1> DEFINE R == ReceptionEnded(dev.out)
           after == [dev EXCEPT !.out = R]
           new == IF dev.out.handler = "StateStageIn" THEN StateStageIn(after) ELSE after
<1>1. ReceptionComplete(dev) = new BY Zenon DEF ReceptionComplete
<1>2. /\ R \in OutRecord /\ ~R.xfrc /\ R.fifo = dev.out.fifo /\ R.armed = dev.out.armed
      /\ R.data = NULL /\ R.handler = NULL
  BY ReceptionEnds DEF IsDevice
<1> HIDE DEF R
<1>3. OnlyOut(after, dev, R) BY <1>2, OutIsSet
<1> HIDE DEF after
<1>4. Sends(StateStageIn(after), after, NULL, 0, NULL) /\ KeepsState(StateStageIn(after), after)
  BY <1>3, StateStageInIs DEF OnlyOut
<1>5. /\ IsDevice(new) /\ Keeps(new, dev) /\ KeepsState(new, dev) /\ new.out = R
      /\ IF dev.out.handler = "StateStageIn" THEN TransferOf(new.in, dev.in, NULL, 0, NULL)
         ELSE new.in = dev.in
  <2>1. CASE dev.out.handler = "StateStageIn"
    <3>1. new = StateStageIn(after) BY <2>1
    <3> HIDE DEF new
    <3> QED BY <1>3, <1>4, <2>1, <3>1 DEF Sends, OnlyOut, Keeps, KeepsState
  <2>2. CASE dev.out.handler # "StateStageIn"
    BY <1>3, <2>2 DEF OnlyOut
  <2> QED BY <2>1, <2>2
<1> HIDE DEF new
<1> QED BY <1>1, <1>2, <1>5, Zenon DEF Received

\* ... and the request is taken.
SetupTaken(new, dev) ==
  /\ IsDevice(new) /\ KeepsState(new, dev) /\ new.in = dev.in /\ new.out = dev.out
  /\ ~new.stup /\ new.setup = dev.setup /\ new.usbrst = dev.usbrst
  /\ new.lineCoding = dev.lineCoding

LEMMA SetupIsTaken ==
  ASSUME NEW dev, IsDevice(dev), dev.stup
  PROVE  \E mid : SetupTaken(mid, dev) /\ Outcome(SetupDone(dev), mid, dev.lastRequest)
<1> DEFINE mid == [dev EXCEPT !.stup = FALSE, !.lastRequest = NULL]
<1>1. SetupDone(dev) = HandleStandardRequest(mid, dev.lastRequest) BY Zenon DEF SetupDone
<1>2. dev.lastRequest \in Requests BY DEF IsDevice
<1>3. IsDevice(mid) BY DEF IsDevice
<1>4. /\ mid.in = dev.in /\ mid.out = dev.out /\ mid.stup = FALSE /\ mid.setup = dev.setup
      /\ mid.usbrst = dev.usbrst /\ mid.lineCoding = dev.lineCoding /\ KeepsState(mid, dev)
  BY DEF IsDevice, KeepsState
<1> HIDE DEF mid
<1>5. SetupTaken(mid, dev) BY <1>3, <1>4, Zenon DEF SetupTaken
<1>6. Outcome(SetupDone(dev), mid, dev.lastRequest) BY <1>1, <1>2, <1>3, RequestOutcome
<1> QED BY <1>5, <1>6

\* IEPINT: a packet has been read by the host.
Transmitted(new, dev) ==
  /\ IsDevice(new) /\ Keeps(new, dev) /\ KeepsState(new, dev)
  /\ new.out.fifo = dev.out.fifo /\ new.out.xfrc = dev.out.xfrc
  /\ IF dev.in.handler = "StateStageOut" THEN new.out.data = NULL /\ new.out.handler = NULL
     ELSE new.out = dev.out
  /\ ~new.in.xfrc /\ new.in.left \in {0, dev.in.left}
  /\ new.in.fifo = dev.in.fifo /\ new.in.stall = dev.in.stall
  /\ dev.in.lastSent = EP_MAX_PACKET => new.in.armed /\ new.in.size = 0

LEMMA TransmissionIsDone ==
  ASSUME NEW dev, IsDevice(dev), dev.in.xfrc
  PROVE  LET new == TransmissionComplete(dev) IN
         IF dev.in.packetsLeft > 0
         THEN OnlyIn(new, dev, new.in) /\ Continued(new.in, dev.in)
         ELSE Transmitted(new, dev)
<1>1. IsIN(dev.in) BY DEF IsDevice
<1>2. CASE dev.in.packetsLeft > 0
  <2> DEFINE E == NextPacket(dev.in)
             new == [dev EXCEPT !.in = E]
  <2>1. TransmissionComplete(dev) = new BY <1>2, Zenon DEF TransmissionComplete
  <2>2. Continued(E, dev.in) BY <1>1, <1>2, PacketFollows
  <2>3. IsIN(E) BY <2>2, Zenon DEF Continued
  <2> HIDE DEF E
  <2>4. OnlyIn(new, dev, E) BY <2>3, InIsSet
  <2> HIDE DEF new
  <2>5. OnlyIn(new, dev, new.in) /\ Continued(new.in, dev.in)
    BY <2>2, <2>4, Zenon DEF OnlyIn
  <2> QED BY <1>2, <2>1, <2>5, Zenon
<1>3. CASE ~(dev.in.packetsLeft > 0)
  <2> DEFINE E == TransferEnded(dev.in)
             ended == [dev EXCEPT !.in = E]
             after == IF dev.in.handler = "StateStageOut" THEN StateStageOut(ended) ELSE ended
             F == ZlpIfFull(E)
             new == [after EXCEPT !.in = F]
  <2>1. Ended(E, dev.in) BY <1>1, TransferEnds
  <2>2. IsIN(E) /\ E.data = NULL /\ E.handler = NULL BY <2>1, Zenon DEF Ended
  <2> HIDE DEF E
  <2>3. OnlyIn(ended, dev, E) BY <2>2, InIsSet
  <2>4. IsDevice(ended) BY <2>3, Zenon DEF OnlyIn
  <2> HIDE DEF ended
  <2>5. /\ IsDevice(after) /\ Keeps(after, dev) /\ KeepsState(after, dev) /\ after.in = E
        /\ after.out.fifo = dev.out.fifo /\ after.out.xfrc = dev.out.xfrc
        /\ IF dev.in.handler = "StateStageOut"
           THEN after.out.data = NULL /\ after.out.handler = NULL
           ELSE after.out = dev.out
    <3>1. CASE dev.in.handler = "StateStageOut"
      <4>1. after = StateStageOut(ended) BY <3>1
      <4> HIDE DEF after
      <4> QED BY <2>3, <2>4, <3>1, <4>1, StateStageOutIs DEF OnlyIn, Keeps, KeepsState
    <3>2. CASE dev.in.handler # "StateStageOut"
      <4>1. after = ended BY <3>2
      <4> HIDE DEF after
      <4> QED BY <2>3, <3>2, <4>1 DEF OnlyIn
    <3> QED BY <3>1, <3>2
  <2>6. TransmissionComplete(dev) = [after EXCEPT !.in = ZlpIfFull(after.in)]
    BY <1>1, <1>3, Zenon DEF TransmissionComplete, E, ended
  <2>7. TransmissionComplete(dev) = new
    <3> HIDE DEF after
    <3> QED BY <2>5, <2>6
  <2>8. /\ IsIN(F) /\ ~F.xfrc /\ F.left \in {0, dev.in.left} /\ F.fifo = dev.in.fifo
        /\ F.stall = dev.in.stall
        /\ dev.in.lastSent = EP_MAX_PACKET => F.armed /\ F.size = 0
    BY <2>1, <2>2, ZlpFollows DEF Ended
  <2> HIDE DEF F, after
  <2>9. OnlyIn(new, after, F) BY <2>5, <2>8, InIsSet
  <2> HIDE DEF new
  <2>10. Keeps(new, dev) /\ KeepsState(new, dev)
    BY <2>5, <2>9 DEF OnlyIn, Keeps, KeepsState
  <2>11. new.in = F /\ new.out = after.out /\ IsDevice(new) BY <2>9, Zenon DEF OnlyIn
  <2>12. Transmitted(new, dev) BY <2>5, <2>8, <2>10, <2>11 DEF Transmitted
  <2> QED BY <1>3, <2>7, <2>12, Zenon
<1> QED BY <1>2, <1>3

\* A packet is loaded, or is too long for the room in the FIFO.
LoadsOrWaits(new, E, mem) ==
  IF E.left # 0 /\ ~HasRoom(E) THEN new = E ELSE Loaded(new, E, mem)


\* The packet is loaded after that, if there was room when the branch began.
LEMMA InIsHandled ==
  ASSUME NEW dev, IsDevice(dev)
  PROVE  LET after == TransmissionComplete(dev)
             new == HandleInEndpoint(dev)
         IN /\ IsDevice(after)
            /\ IF dev.in.txfe
               THEN /\ OnlyIn(new, after, new.in)
                    /\ LoadsOrWaits(new.in, after.in, Memory(after, after.in.data))
               ELSE new = after
<1> DEFINE after == TransmissionComplete(dev)
           E == LoadDataIntoTxBuf(after.in, Memory(after, after.in.data))
           new == [after EXCEPT !.in = E]
<1>1. HandleInEndpoint(dev) = IF dev.in.txfe THEN new ELSE after
  BY DEF HandleInEndpoint
<1>2. IsDevice(after)
  <2>1. CASE ~dev.in.xfrc BY <2>1, Zenon DEF TransmissionComplete
  <2>2. CASE dev.in.xfrc BY <2>2, TransmissionIsDone DEF Transmitted, OnlyIn
  <2> QED BY <2>1, <2>2
<1> HIDE DEF after
<1>3. LoadsOrWaits(E, after.in, Memory(after, after.in.data))
  BY <1>2, PacketLoads DEF IsDevice, LoadsOrWaits
<1>4. IsIN(E) BY <1>2, <1>3, Zenon DEF LoadsOrWaits, Loaded, IsDevice
<1> HIDE DEF E
<1>5. OnlyIn(new, after, E) BY <1>2, <1>4, InIsSet
<1> HIDE DEF new
<1>6. OnlyIn(new, after, new.in) /\ LoadsOrWaits(new.in, after.in, Memory(after, after.in.data))
  BY <1>3, <1>5, Zenon DEF OnlyIn
<1> QED BY <1>1, <1>2, <1>6 DEF after

\* USBRST.
Cleared(new, dev) ==
  /\ IsDevice(new) /\ ~new.usbrst /\ new.setup = NULL /\ ~new.stup
  /\ new.lineCoding = dev.lineCoding
  /\ HasState(new, "DEFAULT", 0, dev.confNum, dev.controlLineState)
  /\ new.in.fifo = <<>> /\ ~new.in.xfrc /\ new.in.left = dev.in.left
  /\ new.out.fifo = NoPacket /\ ~new.out.xfrc

LEMMA ResetIsHandled ==
  ASSUME NEW dev, IsDevice(dev)
  PROVE  LET new == HandleReset(dev) IN IF dev.usbrst THEN Cleared(new, dev) ELSE new = dev
<1>1. CASE ~dev.usbrst BY <1>1, Zenon DEF HandleReset
<1>2. CASE dev.usbrst
  <2> DEFINE E == InAfterReset(dev.in)
             R == OutAfterReset(dev.out)
             new == [dev EXCEPT !.in = E, !.out = R,
                                !.setup = NULL, !.stup = FALSE, !.lastRequest = NULL,
                                !.usbrst = FALSE, !.address = 0, !.connState = "DEFAULT"]
  <2>1. HandleReset(dev) = new BY <1>2, Zenon DEF HandleReset
  <2>2. IsIN(E) /\ E.fifo = <<>> /\ ~E.xfrc /\ E.left = dev.in.left BY InResets DEF IsDevice
  <2>3. R \in OutRecord /\ ~R.xfrc /\ R.fifo = NoPacket BY OutResets DEF IsDevice
  <2> HIDE DEF E, R
  <2>4. IsDevice(new) BY <2>2, <2>3 DEF IsDevice
  <2>5. /\ new.in = E /\ new.out = R /\ new.setup = NULL /\ new.stup = FALSE
        /\ new.usbrst = FALSE /\ new.lineCoding = dev.lineCoding
        /\ HasState(new, "DEFAULT", 0, dev.confNum, dev.controlLineState)
    BY DEF IsDevice, HasState
  <2> HIDE DEF new
  <2>6. Cleared(new, dev) BY <2>2, <2>3, <2>4, <2>5 DEF Cleared
  <2> QED BY <1>2, <2>1, <2>6
<1> QED BY <1>1, <1>2

LEMMA OutIsHandled ==
  ASSUME NEW dev, IsDevice(dev)
  PROVE  LET after == ReceptionComplete(dev)
             new == HandleOutEndpoint(dev)
         IN /\ IsDevice(new) /\ Keeps(after, dev) /\ KeepsState(after, dev)
            /\ IF dev.out.xfrc THEN Received(after, dev) ELSE after = dev
            /\ IF dev.stup
               THEN \E mid : SetupTaken(mid, after) /\ Outcome(new, mid, after.lastRequest)
               ELSE new = after
<1> DEFINE after == ReceptionComplete(dev)
           new == HandleOutEndpoint(dev)
<1>1. /\ IF dev.out.xfrc THEN Received(after, dev) ELSE after = dev
      /\ IsDevice(after) /\ Keeps(after, dev) /\ KeepsState(after, dev)
  <2>1. CASE dev.out.xfrc
    <3>1. Received(after, dev) BY <2>1, ReceptionIsDone
    <3> HIDE DEF after
    <3> QED BY <2>1, <3>1 DEF Received
  <2>2. CASE ~dev.out.xfrc
    <3>1. after = dev BY <2>2, Zenon DEF ReceptionComplete
    <3> QED BY <2>2, <3>1, Zenon DEF Keeps, KeepsState
  <2> QED BY <2>1, <2>2
<1>2. new = SetupDone(after) BY Zenon DEF HandleOutEndpoint
<1> HIDE DEF after, new
<1>3. after.stup = dev.stup BY <1>1 DEF Keeps
<1>4. CASE after.stup
  <2>1. PICK mid : SetupTaken(mid, after) /\ Outcome(new, mid, after.lastRequest)
    BY <1>1, <1>2, <1>4, SetupIsTaken
  <2>2. after.lastRequest \in Requests BY <1>1, <1>4 DEF IsDevice
  <2>3. IsDevice(new) BY <2>1, <2>2, OutcomeType
  <2> QED BY <1>1, <1>3, <1>4, <2>1, <2>3, Zenon DEF after, new
<1>5. CASE ~after.stup
  <2>1. new = after BY <1>2, <1>5, Zenon DEF SetupDone
  <2> QED BY <1>1, <1>3, <1>5, <2>1, Zenon DEF after, new
<1> QED BY <1>4, <1>5

\* The interrupt handler keeps the types.
LEMMA HandleType == IsDevice(d) /\ USB_IRQ_Handler => IsDevice(d') /\ branch' \in {"none", "out", "in", "reset"}
<1> SUFFICES ASSUME IsDevice(d), USB_IRQ_Handler
             PROVE  IsDevice(d') /\ branch' \in {"none", "out", "in", "reset"}
  OBVIOUS
<1>1. CASE d' = ReadRxFifo(d) /\ branch' = "out"
  <2>1. CASE d.out.fifo = NoPacket BY <1>1, <2>1, SetupIsRead DEF SetupRead
  <2>2. CASE d.out.fifo # NoPacket BY <1>1, <2>2, PacketIsStored DEF PacketStored
  <2> QED BY <2>1, <2>2
<1>2. CASE d' = HandleOutEndpoint(d) /\ branch' = "in" BY <1>2, OutIsHandled
<1>3. CASE d' = HandleInEndpoint(d) /\ branch' = "reset" BY <1>3, InIsHandled DEF OnlyIn
<1>4. CASE d' = HandleReset(d) /\ branch' = "none" BY <1>4, ResetIsHandled DEF Cleared
<1> QED BY <1>1, <1>2, <1>3, <1>4, Zenon DEF USB_IRQ_Handler

----------------------------------------------------------------------------
(* The host.                                                                *)

SetupSent(new, dev, req) ==
  /\ IsDevice(new) /\ KeepsState(new, dev)
  /\ new.setup = req /\ new.stup = dev.stup /\ new.usbrst = dev.usbrst
  /\ new.lineCoding = dev.lineCoding
  /\ ~new.in.armed /\ ~new.in.stall /\ new.in.left = dev.in.left
  /\ new.in.fifo = dev.in.fifo /\ new.in.xfrc = dev.in.xfrc
  /\ ~new.out.armed /\ new.out.fifo = dev.out.fifo /\ new.out.xfrc = dev.out.xfrc
  /\ new.out.handler = dev.out.handler

LEMMA SetupIsSent ==
  ASSUME NEW dev, IsDevice(dev), NEW req \in Requests
  PROVE  SetupSent([dev EXCEPT !.setup = req, !.in.armed = FALSE, !.in.stall = FALSE,
                               !.out.armed = FALSE], dev, req)
<1> DEFINE E == [dev.in EXCEPT !.armed = FALSE, !.stall = FALSE]
           R == [dev.out EXCEPT !.armed = FALSE]
           new == [dev EXCEPT !.setup = req, !.in = E, !.out = R]
           sent == [dev EXCEPT !.setup = req, !.in.armed = FALSE, !.in.stall = FALSE,
                               !.out.armed = FALSE]
<1>1. sent = new BY DEF IsDevice
<1>2. E \in InRecord({dev.in.fifo}) BY DEF IsDevice, IsIN, InRecord
<1>3. /\ E.armed = FALSE /\ E.stall = FALSE /\ E.left = dev.in.left /\ E.fifo = dev.in.fifo
      /\ E.xfrc = dev.in.xfrc
  BY DEF IsDevice, IsIN, InRecord
<1>4. IsIN(E) BY <1>2, <1>3, Zenon DEF IsIN
<1>5. /\ R \in OutRecord /\ R.armed = FALSE /\ R.fifo = dev.out.fifo /\ R.xfrc = dev.out.xfrc
      /\ R.handler = dev.out.handler
  BY DEF IsDevice, OutRecord
<1> HIDE DEF E, R
<1>6. IsDevice(new) BY <1>4, <1>5 DEF IsDevice
<1>7. /\ new.in = E /\ new.out = R /\ new.setup = req /\ new.stup = dev.stup
      /\ new.usbrst = dev.usbrst /\ new.lineCoding = dev.lineCoding /\ KeepsState(new, dev)
  BY DEF IsDevice, KeepsState
<1> HIDE DEF new, sent
<1>8. SetupSent(new, dev, req) BY <1>3, <1>5, <1>6, <1>7 DEF SetupSent
<1> QED BY <1>1, <1>8 DEF sent

LEMMA PacketOfCoding ==
  ASSUME NEW v \in LineCodings
  PROVE  /\ Coding(v) \in Seq(LineCodings) /\ Len(Coding(v)) = LINE_CODING_LEN
         /\ Coding(v) # NoPacket /\ NoPacket \in Seq(LineCodings)
<1>1. Coding(v) \in [1 .. LINE_CODING_LEN -> LineCodings] BY DEF Coding
<1>2. Coding(v) \in Seq(LineCodings) /\ Len(Coding(v)) = LINE_CODING_LEN
  BY <1>1, Sizes, SeqDef, LenProperties
<1>3. Len(NoPacket) = 0 /\ NoPacket \in Seq(LineCodings) BY DEF NoPacket
<1> QED BY <1>2, <1>3, Sizes

\* What the host sees of a packet it has sent, and of one it has read.
LEMMA InIsRead ==
  ASSUME NEW dev, IsDevice(dev), NEW new, new = [dev EXCEPT !.in = Sent(@)]
  PROVE  OnlyIn(new, dev, new.in) /\ Read(new.in, dev.in)
<1> DEFINE E == Sent(dev.in)
<1>1. Read(E, dev.in) BY PacketIsSent DEF IsDevice
<1>2. new = [dev EXCEPT !.in = E] OBVIOUS
<1> HIDE DEF E
<1>3. IsIN(E) BY <1>1, Zenon DEF Read
<1>4. OnlyIn(new, dev, E) BY <1>2, <1>3, InIsSet
<1> QED BY <1>1, <1>4, Zenon DEF OnlyIn

Took(R, old, packet) ==
  /\ ~R.armed /\ R.fifo = packet /\ R.xfrc = (packet = NoPacket)
  /\ R.data = old.data /\ R.off = old.off /\ R.left = old.left /\ R.handler = old.handler

LEMMA OutIsSent ==
  ASSUME NEW dev, IsDevice(dev), NEW packet \in Seq(LineCodings),
         NEW new, new = [dev EXCEPT !.out = Arrived(@, packet)]
  PROVE  OnlyOut(new, dev, new.out) /\ Took(new.out, dev.out, packet)
<1> DEFINE R == Arrived(dev.out, packet)
<1>1. R \in OutRecord /\ Took(R, dev.out, packet) BY PacketArrives DEF IsDevice, Took
<1>2. new = [dev EXCEPT !.out = R] OBVIOUS
<1> HIDE DEF R
<1>3. OnlyOut(new, dev, R) BY <1>1, <1>2, OutIsSet
<1> QED BY <1>1, <1>3, Zenon DEF OnlyOut

\* What a status stage tells the host.
Learned(new, host) ==
  LET b == host.req.bRequest
      v == host.req.value
  IN /\ IsHost(new) /\ new.stage = "idle" /\ new.req = host.req /\ new.got = host.got
     /\ new.stalled = host.stalled
     /\ new.address = (IF b = "SET_ADDRESS" THEN v ELSE host.address)
     /\ new.config = (IF b = "SET_CONFIG" THEN v ELSE host.config)
     /\ new.codings = (IF b = "SET_LINE_CODING" THEN {v} ELSE host.codings)
     /\ new.lineState = (IF b = "SET_CONTROL_LINE_STATE" THEN v ELSE host.lineState)

LEMMA StatusTells ==
  ASSUME IsHost(h), HostReadsStatus
  PROVE  Learned(h', h)
<1> DEFINE b == h.req.bRequest
           v == h.req.value
           done == [h EXCEPT !.stage = "idle"]
<1>1. h' = CASE b = "SET_ADDRESS" -> [done EXCEPT !.address = v]
             [] b = "SET_CONFIG" -> [done EXCEPT !.config = v]
             [] b = "SET_LINE_CODING" -> [done EXCEPT !.codings = {v}]
             [] b = "SET_CONTROL_LINE_STATE" -> [done EXCEPT !.lineState = v]
             [] OTHER -> done
  BY Zenon DEF HostReadsStatus
<1>2. /\ IsHost(done) /\ done.stage = "idle" /\ done.req = h.req /\ done.got = h.got
      /\ done.stalled = h.stalled /\ done.address = h.address /\ done.config = h.config
      /\ done.codings = h.codings /\ done.lineState = h.lineState
  BY DEF IsHost, Stages
<1> HIDE DEF done, v
<1>3. CASE b = "SET_ADDRESS"
  <2>1. h' = [done EXCEPT !.address = v] BY <1>1, <1>3
  <2> QED BY <1>2, <1>3, <2>1 DEF Learned, IsHost, v
<1>4. CASE b = "SET_CONFIG"
  <2>1. h' = [done EXCEPT !.config = v] BY <1>1, <1>4
  <2> QED BY <1>2, <1>4, <2>1 DEF Learned, IsHost, v
<1>5. CASE b = "SET_LINE_CODING"
  <2>1. h' = [done EXCEPT !.codings = {v}] BY <1>1, <1>5
  <2> QED BY <1>2, <1>5, <2>1 DEF Learned, IsHost, v
<1>6. CASE b = "SET_CONTROL_LINE_STATE"
  <2>1. h' = [done EXCEPT !.lineState = v] BY <1>1, <1>6
  <2> QED BY <1>2, <1>6, <2>1 DEF Learned, IsHost, v
<1>7. CASE b \notin {"SET_ADDRESS", "SET_CONFIG", "SET_LINE_CODING", "SET_CONTROL_LINE_STATE"}
  <2>1. h' = done BY <1>1, <1>7
  <2> QED BY <1>2, <1>7, <2>1 DEF Learned
<1> QED BY <1>3, <1>4, <1>5, <1>6, <1>7

LEMMA NextType == TypeInv /\ [Next]_vars => TypeInv'
<1> SUFFICES ASSUME TypeInv, [Next]_vars PROVE TypeInv' OBVIOUS
<1>0. IsDevice(d) /\ IsHost(h) /\ branch \in {"none", "out", "in", "reset"} BY DEF TypeInv
<1>1. CASE Handle
  <2>1. USB_IRQ_Handler /\ h' = h BY <1>1 DEF Handle
  <2> QED BY <1>0, <2>1, HandleType DEF TypeInv
<1>2. CASE HostSetup
  <2>1. PICK req \in Requests :
          /\ d' = [d EXCEPT !.setup = req, !.in.armed = FALSE, !.in.stall = FALSE,
                            !.out.armed = FALSE]
          /\ h' = [h EXCEPT !.req = req, !.got = <<>>, !.stalled = FALSE,
                     !.stage = IF req.wLength = 0 THEN "statusIn"
                               ELSE IF IsIn(req) THEN "dataIn" ELSE "dataOut"]
    BY <1>2, Zenon DEF HostSetup
  <2>2. IsDevice(d') BY <1>0, <2>1, SetupIsSent DEF SetupSent
  <2>3. req.wLength # 0 /\ ~IsIn(req) => req.bRequest = "SET_LINE_CODING"
    <3>1. req.bRequest \in Operations /\ RequestFields(req) BY RequestIs
    <3> QED BY <3>1 DEF Operations, RequestFields, IsIn
  <2> DEFINE stage == IF req.wLength = 0 THEN "statusIn"
                      ELSE IF IsIn(req) THEN "dataIn" ELSE "dataOut"
  <2>4. stage \in Stages /\ (stage = "dataOut" => req.bRequest = "SET_LINE_CODING")
    BY <2>3 DEF Stages
  <2>5. h' = [h EXCEPT !.req = req, !.got = <<>>, !.stalled = FALSE, !.stage = stage] BY <2>1
  <2> HIDE DEF stage
  <2>6. IsHost(h') BY <1>0, <2>4, <2>5 DEF IsHost
  <2>7. branch' = branch BY <1>2 DEF HostSetup
  <2> QED BY <1>0, <2>2, <2>6, <2>7 DEF TypeInv
<1>3. CASE HostReadsData
  <2>1. IsDevice(d')
    <3>1. d' = [d EXCEPT !.in = Sent(@)] BY <1>3 DEF HostReadsData
    <3> QED BY <1>0, <3>1, InIsRead DEF OnlyIn
  <2>2. PICK got, stage : h' = [h EXCEPT !.got = got, !.stage = stage]
                          /\ stage \in {"statusOut", "dataIn"}
    BY <1>3 DEF HostReadsData
  <2>3. h.stage = "dataIn" BY <1>3 DEF HostReadsData
  <2>4. IsHost(h') BY <1>0, <2>2, <2>3 DEF IsHost, Stages
  <2>5. branch' = branch BY <1>3 DEF HostReadsData
  <2> QED BY <1>0, <2>1, <2>4, <2>5 DEF TypeInv
<1>4. CASE HostSendsData
  <2>1. h.stage = "dataOut" /\ h' = [h EXCEPT !.stage = "statusIn", !.codings = @ \cup {h.req.value}]
        /\ d' = [d EXCEPT !.out = Arrived(@, Coding(h.req.value))] /\ branch' = branch
    BY <1>4 DEF HostSendsData
  <2>2. h.req \in Requests /\ h.req.bRequest = "SET_LINE_CODING" BY <1>0, <2>1 DEF IsHost
  <2>3. h.req.value \in LineCodings BY <2>2, RequestIs DEF RequestFields
  <2>4. IsDevice(d') BY <1>0, <2>1, <2>3, PacketOfCoding, OutIsSent DEF OnlyOut
  <2>5. IsHost(h') BY <1>0, <2>1 DEF IsHost, Stages
  <2> QED BY <1>0, <2>1, <2>4, <2>5 DEF TypeInv
<1>5. CASE HostReadsStatus
  <2>1. d' = [d EXCEPT !.in = Sent(@)] /\ branch' = branch BY <1>5 DEF HostReadsStatus
  <2>2. IsDevice(d') BY <1>0, <2>1, InIsRead DEF OnlyIn
  <2>3. IsHost(h') BY <1>0, <1>5, StatusTells DEF Learned
  <2> QED BY <1>0, <2>1, <2>2, <2>3 DEF TypeInv
<1>6. CASE HostSendsStatus
  <2>1. d' = [d EXCEPT !.out = Arrived(@, NoPacket)] /\ branch' = branch
        /\ h' = [h EXCEPT !.stage = "idle", !.got = <<>>]
    BY <1>6 DEF HostSendsStatus
  <2>2. NoPacket \in Seq(LineCodings) BY DEF NoPacket
  <2>3. IsDevice(d') BY <1>0, <2>1, <2>2, OutIsSent DEF OnlyOut
  <2>4. IsHost(h') BY <1>0, <2>1 DEF IsHost, Stages
  <2> QED BY <1>0, <2>1, <2>3, <2>4 DEF TypeInv
<1>7. CASE HostSeesStall
  BY <1>0, <1>7 DEF HostSeesStall, IsHost, Stages, TypeInv
<1>8. CASE HostResets
  <2>1. d' = [d EXCEPT !.usbrst = TRUE] /\ branch' = branch BY <1>8 DEF HostResets
  <2>2. IsDevice(d') BY <1>0, <2>1 DEF IsDevice
  <2>3. PICK s : h' = IdleHost(h.codings, s) BY <1>8 DEF HostResets
  <2>4. IsHost(h') BY <2>3 DEF IdleHost, IsHost, Stages
  <2> QED BY <1>0, <2>1, <2>2, <2>4 DEF TypeInv
<1>9. CASE UNCHANGED vars BY <1>0, <1>9 DEF vars, TypeInv
<1> QED
  BY <1>1, <1>2, <1>3, <1>4, <1>5, <1>6, <1>7, <1>8, <1>9, Zenon DEF Next, HostPolls

LEMMA TypeInvImplies == TypeInv => TypeOK
BY DEF TypeInv, TypeOK, IsDevice, IsHost, IsIN, InRecord, InData, OutRecord, Stages

\* Types of the registers and variables of the device and of what the host
\* knows, whenever the bus is reset.
THEOREM Types == Spec => []TypeOK
<1>1. Init => TypeInv BY InitType
<1>2. TypeInv /\ [Next]_vars => TypeInv' BY NextType
<1>3. TypeInv => TypeOK BY TypeInvImplies
<1> QED BY <1>1, <1>2, <1>3, PTL DEF Spec

----------------------------------------------------------------------------
(* Numbers of packets and of words.                                         *)

\* Division by a variable.
LEMMA QuotientIs ==
  \A a, w, q \in Nat : w > 0 /\ w * q <= a /\ a < w * q + w => a \div w = q
<1> SUFFICES ASSUME NEW a \in Nat, NEW w \in Nat, NEW q \in Nat, w > 0, w * q <= a, a < w * q + w
             PROVE  a \div w = q
  OBVIOUS
<1>1. PICK k : k = a \div w OBVIOUS
<1>2. k \in Nat /\ w * k <= a /\ a < w * k + w BY <1>1
<1>3. ~(k < q)
  <2>1. SUFFICES ASSUME k < q PROVE FALSE OBVIOUS
  <2>2. w * (k + 1) <= w * q BY <1>2, <2>1
  <2>3. w * (k + 1) = w * k + w BY <1>2
  <2> QED BY <1>2, <2>2, <2>3
<1>4. ~(q < k)
  <2>1. SUFFICES ASSUME q < k PROVE FALSE OBVIOUS
  <2>2. w * (q + 1) <= w * k BY <1>2, <2>1
  <2>3. w * (q + 1) = w * q + w OBVIOUS
  <2> QED BY <1>2, <2>2, <2>3
<1> QED BY <1>1, <1>2, <1>3, <1>4

LEMMA PacketsZero == Packets(0) = 0
<1>1. EP_MAX_PACKET - 1 \in Nat /\ EP_MAX_PACKET * 0 = 0 BY Sizes
<1>2. (EP_MAX_PACKET - 1) \div EP_MAX_PACKET = 0 BY <1>1, Sizes, QuotientIs
<1> QED BY <1>2, Sizes DEF Packets

LEMMA PacketsLess ==
  ASSUME NEW x \in Nat, x > 0
  PROVE  Packets(x) > 0 /\ Packets(x) - 1 = Packets(x - Least(x, EP_MAX_PACKET))
<1> DEFINE M == EP_MAX_PACKET
<1>1. CASE x <= M
  <2>1. Least(x, M) = x BY <1>1, Sizes DEF Least
  <2>2. x + M - 1 \in Nat /\ M * 1 <= x + M - 1 /\ x + M - 1 < M * 1 + M BY <1>1, Sizes
  <2>3. Packets(x) = 1 BY <2>2, QuotientIs, Sizes DEF Packets
  <2> QED BY <2>1, <2>3, PacketsZero
<1>2. CASE x > M
  <2>1. Least(x, M) = M BY <1>2, Sizes DEF Least
  <2> DEFINE q == Packets(x - M)
  <2>2. q \in Nat /\ M * q <= x - 1 /\ x - 1 < M * q + M
    <3>1. x - M + M - 1 = x - 1 /\ x - 1 \in Nat BY Sizes
    <3>2. q = (x - 1) \div M BY <3>1 DEF Packets
    <3> QED BY <3>1, <3>2, Sizes
  <2> HIDE DEF q
  <2>3. M * (q + 1) = M * q + M BY <2>2, Sizes
  <2>4. x + M - 1 \in Nat /\ M * (q + 1) <= x + M - 1 /\ x + M - 1 < M * (q + 1) + M
    BY <2>2, <2>3, Sizes
  <2>5. Packets(x) = q + 1 BY <2>2, <2>4, QuotientIs, Sizes DEF Packets
  <2> QED BY <2>1, <2>2, <2>5 DEF q
<1> QED BY <1>1, <1>2, Sizes

LEMMA WholeWords == Words(EP_MAX_PACKET) * WORD = EP_MAX_PACKET
<1> DEFINE M == EP_MAX_PACKET
           k == M \div WORD
<1>1. k \in Nat /\ M = WORD * k BY PacketAssumption
<1> HIDE DEF k
<1>2. M + WORD - 1 \in Nat /\ WORD * k <= M + WORD - 1 /\ M + WORD - 1 < WORD * k + WORD
  BY <1>1, Sizes
<1>3. (M + WORD - 1) \div WORD = k BY <1>1, <1>2, Sizes, QuotientIs
<1>4. k * WORD = WORD * k BY <1>1, Sizes
<1> QED BY <1>1, <1>3, <1>4 DEF Words

\* An empty FIFO has room for a packet.
LEMMA RoomForPacket ==
  ASSUME NEW n \in 0 .. EP_MAX_PACKET
  PROVE  Words(0) + Words(n) <= FIFO_WORDS
<1> DEFINE k == EP_MAX_PACKET \div WORD
           q == Words(n)
<1>1. k \in Nat /\ EP_MAX_PACKET = WORD * k /\ k <= FIFO_WORDS /\ FIFO_WORDS \in Nat
  BY PacketAssumption
<1>2. n \in Nat /\ n + WORD - 1 \in Nat /\ n <= EP_MAX_PACKET BY Sizes
<1>3. q \in Nat /\ WORD * q <= n + WORD - 1 BY <1>2, Sizes DEF Words
<1>4. Words(0) = 0
  <2>1. WORD - 1 \in Nat /\ WORD * 0 = 0 BY Sizes
  <2>2. (WORD - 1) \div WORD = 0 BY <2>1, Sizes, QuotientIs
  <2> QED BY <2>2, Sizes DEF Words
<1> HIDE DEF k, q
<1>5. ~(q > k)
  <2>1. SUFFICES ASSUME q > k PROVE FALSE OBVIOUS
  <2>2. WORD * (k + 1) <= WORD * q BY <1>1, <1>3, <2>1, Sizes
  <2>3. WORD * (k + 1) = WORD * k + WORD BY <1>1, Sizes
  <2> QED BY <1>1, <1>2, <1>3, <2>2, <2>3, Sizes
<1> QED BY <1>1, <1>3, <1>4, <1>5 DEF q

----------------------------------------------------------------------------
(* The phases of a control transfer, when resets come between transfers'    *)
(* interrupts only. Each says what device and host hold at that point.       *)

\* Where the data of a request to the host come from, and how many.
Source(req) ==
  CASE req.bRequest = "GET_DESCRIPTOR" -> descriptor(req)
    [] req.bRequest = "GET_CONFIG" -> confNum
    [] req.bRequest = "GET_LINE_CODING" -> lineCoding

Content(dev, req) == Memory(dev, Source(req))
Wanted(dev, req) == Least(req.wLength, Len(Content(dev, req)))

ExpectedBy(host, dev, req) ==
  CASE req.bRequest = "GET_DESCRIPTOR" -> {Prefix(Memory(dev, descriptor(req)), req.wLength)}
    [] req.bRequest = "GET_CONFIG" -> {<<host.config>>}
    [] req.bRequest = "GET_LINE_CODING" -> {Coding(v) : v \in host.codings}

RefusalExpected(host, req) ==
  \/ req.bRequest = "SET_ADDRESS" /\ host.config # 0
  \/ req.bRequest = "GET_CONFIG" /\ host.address = 0
  \/ req.bRequest = "SET_CONFIG" /\ (host.address = 0 \/ req.value \notin {0, 1})
  \/ req.bRequest = "GET_DESCRIPTOR" /\ descriptor(req) \notin DOMAIN DescLen

Agree(dev, address, config, lineState) ==
  /\ dev.address = address
  /\ dev.connState = IF config # 0 THEN "CONFIGURED"
                     ELSE IF address # 0 THEN "ADDRESS" ELSE "DEFAULT"
  /\ lineState # NULL => dev.controlLineState = lineState

AgreeBefore(dev, host) == Agree(dev, host.address, host.config, host.lineState)

AgreeAfter(dev, host) ==
  LET b == host.req.bRequest
      v == host.req.value
  IN Agree(dev, IF b = "SET_ADDRESS" THEN v ELSE host.address,
                IF b = "SET_CONFIG" THEN v ELSE host.config,
                IF b = "SET_CONTROL_LINE_STATE" THEN v ELSE host.lineState)

\* Nothing to be loaded, nothing to be acknowledged.
Still(E) == ~E.xfrc /\ E.left = 0 /\ E.fifo = <<>>
Quiet(R) == ~R.xfrc /\ R.fifo = NoPacket
Unasked(dev) == dev.setup = NULL /\ ~dev.stup

\* At most a status packet that nobody waits for is still to be handled.
Settled(R) == R.fifo = NoPacket /\ (R.xfrc => R.handler = NULL)

ToHost(req) == IsIn(req) /\ req.wLength # 0

\* The stage goes with the request.
InStage(host) ==
  /\ host.req \in Requests
  /\ host.stage \in {"dataIn", "statusOut"} => ToHost(host.req)
  /\ host.stage = "dataOut" => host.req.bRequest = "SET_LINE_CODING"
  /\ host.stage = "statusIn" => ~ToHost(host.req)

Resetting(dev, host) ==
  /\ dev.usbrst /\ host.stage = "idle" /\ host.req = NULL
  /\ host.address = 0 /\ host.config = 0
  /\ ~dev.in.xfrc /\ ~dev.in.txfe /\ dev.in.left = 0
  /\ Quiet(dev.out) /\ Unasked(dev)
  /\ host.lineState # NULL => dev.controlLineState = host.lineState

AtRest(dev, host) ==
  /\ host.stage = "idle"
  /\ Still(dev.in) /\ Settled(dev.out)
  /\ Unasked(dev) /\ AgreeBefore(dev, host)
  /\ host.req # NULL => host.stalled = RefusalExpected(host, host.req)

\* The request has been sent, and not been taken.
Waiting(dev, host) ==
  /\ InStage(host) /\ host.stage \in {"dataIn", "dataOut", "statusIn"}
  /\ host.stage = "statusIn" => host.req.wLength = 0
  /\ ~host.stalled /\ host.got = <<>>
  /\ Still(dev.in) /\ Settled(dev.out)
  /\ ~dev.in.armed /\ ~dev.in.stall /\ ~dev.out.armed
  /\ AgreeBefore(dev, host)

InFifo(dev, host) == Waiting(dev, host) /\ dev.setup = host.req /\ ~dev.stup

Fetched(dev, host) ==
  Waiting(dev, host) /\ dev.setup = NULL /\ dev.stup /\ dev.lastRequest = host.req

Refused(dev, host) ==
  /\ InStage(host) /\ host.stage \in {"dataIn", "statusIn"}
  /\ dev.in.stall /\ RefusalExpected(host, host.req)
  /\ Still(dev.in) /\ Quiet(dev.out)
  /\ Unasked(dev) /\ AgreeBefore(dev, host)

\* The request is being served.
Serving(dev, host) ==
  /\ InStage(host) /\ ~host.stalled /\ ~dev.in.stall
  /\ ~RefusalExpected(host, host.req)
  /\ Unasked(dev) /\ Quiet(dev.out)

\* The host has a beginning of what it wants, n bytes are in the packet that
\* is under way, and dataLeft says how many come after them.
Stream(dev, host, n) ==
  LET E == dev.in
      k == Len(host.got)
  IN /\ Serving(dev, host) /\ AgreeBefore(dev, host) /\ ~dev.out.armed
     /\ SubSeq(Content(dev, host.req), 1, Wanted(dev, host.req))
          \in ExpectedBy(host, dev, host.req)
     /\ E.data = Source(host.req) /\ E.handler = "StateStageOut"
     /\ k \in Nat /\ host.got = SubSeq(Content(dev, host.req), 1, k)
     /\ k + n + E.dataLeft = Wanted(dev, host.req)
     /\ E.packetsLeft = Packets(E.dataLeft)

Sending(dev, host) ==
  LET E == dev.in IN
  /\ host.stage = "dataIn" /\ Stream(dev, host, E.size)
  /\ E.armed /\ ~E.xfrc /\ E.size > 0
  /\ E.dataLeft > 0 => E.size = EP_MAX_PACKET

\* A packet is to be loaded ...
ToLoad(dev, host) ==
  LET E == dev.in IN
  Sending(dev, host) /\ E.txfe /\ E.left = E.size /\ E.fifo = <<>> /\ E.off = Len(host.got)

\* ... is in the FIFO ...
ToSend(dev, host) ==
  LET E == dev.in
      k == Len(host.got)
  IN /\ Sending(dev, host) /\ ~E.txfe /\ E.left = 0 /\ E.lastSent = E.size
     /\ E.fifo = SubSeq(Content(dev, host.req), k + 1, k + E.size)
     /\ E.dataLeft > 0 => E.off = k + E.size

\* ... and has been read.
Acknowledged(dev, host) ==
  LET E == dev.in IN
  /\ host.stage \in {"dataIn", "statusOut"} /\ Stream(dev, host, 0)
  /\ ~E.armed /\ E.xfrc /\ ~E.txfe /\ E.left = 0 /\ E.fifo = <<>>
  /\ E.dataLeft > 0 => E.off = Len(host.got)
  /\ IF host.stage = "statusOut" THEN E.dataLeft = 0
     ELSE E.dataLeft > 0 \/ E.lastSent = EP_MAX_PACKET

\* All that is wanted is there: an empty packet ends the data stage, ...
AllSent(dev, host) ==
  /\ Serving(dev, host) /\ AgreeBefore(dev, host)
  /\ host.got \in ExpectedBy(host, dev, host.req)
  /\ Still(dev.in)
  /\ dev.out.data = NULL /\ dev.out.handler = NULL

EndingShort(dev, host) ==
  host.stage = "dataIn" /\ AllSent(dev, host) /\ dev.in.armed /\ dev.in.size = 0

\* ... or the host acknowledges it.
AwaitingStatus(dev, host) == host.stage = "statusOut" /\ AllSent(dev, host)

\* The data of SET_LINE_CODING are to come, ...
Receptive(dev, host) ==
  /\ InStage(host) /\ ~host.stalled /\ ~dev.in.stall
  /\ ~RefusalExpected(host, host.req)
  /\ Unasked(dev) /\ host.req.bRequest = "SET_LINE_CODING"
  /\ AgreeBefore(dev, host)
  /\ Still(dev.in) /\ ~dev.in.armed

Receiving(dev, host) ==
  Receptive(dev, host) /\ host.stage = "dataOut" /\ Quiet(dev.out) /\ ReadyToReceive(dev.out)

\* ... have come, ...
Arriving(dev, host) ==
  /\ Receptive(dev, host) /\ host.stage = "statusIn"
  /\ ~dev.out.xfrc /\ ReadyToReceive(dev.out)
  /\ dev.out.fifo = Coding(host.req.value) /\ host.req.value \in host.codings

\* ... and are stored.
Storing(dev, host) ==
  /\ Receptive(dev, host) /\ host.stage = "statusIn"
  /\ dev.out.xfrc /\ dev.out.fifo = NoPacket /\ dev.out.handler = "StateStageIn"
  /\ dev.lineCoding = Coding(host.req.value) /\ host.req.value \in host.codings

\* The device acknowledges the request.
AnsweringStatus(dev, host) ==
  /\ Serving(dev, host) /\ host.stage = "statusIn"
  /\ AgreeAfter(dev, host) /\ Still(dev.in) /\ dev.in.size = 0
  /\ host.req.bRequest = "SET_LINE_CODING" => dev.lineCoding = Coding(host.req.value)

InTransfer(dev, host, br) ==
  \/ AtRest(dev, host) \/ InFifo(dev, host) \/ (Fetched(dev, host) /\ br = "out")
  \/ Refused(dev, host)
  \/ ToLoad(dev, host) \/ ToSend(dev, host) \/ Acknowledged(dev, host)
  \/ EndingShort(dev, host) \/ AwaitingStatus(dev, host)
  \/ Receiving(dev, host) \/ Arriving(dev, host) \/ Storing(dev, host)
  \/ AnsweringStatus(dev, host)

Phase(dev, host, br) == Resetting(dev, host) \/ (~dev.usbrst /\ InTransfer(dev, host, br))

\* What the host may rely on, whatever the phase.
Known(dev, host) ==
  /\ host.codings \subseteq LineCodings
  /\ \E v \in host.codings : dev.lineCoding = Coding(v)
  /\ host.config \in {0, 1} /\ (host.config # 0 => host.address # 0)

Inv == TypeInv /\ Phase(d, h, branch) /\ Known(d, h)

----------------------------------------------------------------------------
(* The phases and the branches of the interrupt handler.                     *)

LEMMA SameContent ==
  ASSUME NEW dev, NEW new, NEW host, NEW req,
         new.lineCoding = dev.lineCoding, new.confNum = dev.confNum
  PROVE  /\ Content(new, req) = Content(dev, req) /\ Wanted(new, req) = Wanted(dev, req)
         /\ ExpectedBy(host, new, req) = ExpectedBy(host, dev, req)
<1>1. \A b : Memory(new, b) = Memory(dev, b) BY DEF Memory
<1> QED BY <1>1, Zenon DEF Content, Wanted, ExpectedBy

LEMMA SameAgreement ==
  ASSUME NEW dev, NEW new, NEW host, KeepsState(new, dev)
  PROVE  /\ AgreeBefore(new, host) = AgreeBefore(dev, host)
         /\ AgreeAfter(new, host) = AgreeAfter(dev, host)
BY Zenon DEF AgreeBefore, AgreeAfter, Agree, KeepsState

\* RXFLVL: the data of SET_LINE_CODING are stored, or a request is fetched.
LEMMA RxStep ==
  ASSUME NEW dev, NEW host, IsDevice(dev), Known(dev, host), Phase(dev, host, "none")
  PROVE  Phase(ReadRxFifo(dev), host, "out") /\ Known(ReadRxFifo(dev), host)
<1> DEFINE new == ReadRxFifo(dev)
<1>1. ASSUME dev.out.fifo # NoPacket PROVE Phase(new, host, "out") /\ Known(new, host)
  <2>1. Arriving(dev, host) /\ ~dev.usbrst
    BY <1>1, Zenon DEF Phase, InTransfer, Resetting, AtRest, InFifo, Waiting, Refused, ToLoad, ToSend,
       Acknowledged, EndingShort, AwaitingStatus, AllSent, Sending, Stream, Serving, Receiving,
       Storing, AnsweringStatus, Settled, Quiet
  <2> DEFINE v == host.req.value
  <2>2. /\ dev.out.data = lineCoding /\ dev.out.off = 0 /\ dev.out.left = LINE_CODING_LEN
        /\ dev.out.handler = "StateStageIn" /\ dev.out.fifo = Coding(v) /\ v \in host.codings
    BY <2>1 DEF Arriving, ReadyToReceive
  <2>3. v \in LineCodings BY <2>2 DEF Known
  <2>4. Least(dev.out.left, Len(dev.out.fifo)) = LINE_CODING_LEN
    BY <2>2, <2>3, PacketOfCoding, Sizes DEF Least
  <2>5. PacketStored(new, dev) /\ WrittenAt(new, dev, LINE_CODING_LEN)
    BY <1>1, <2>2, <2>4, PacketIsStored
  <2> HIDE DEF new
  <2>6. new.lineCoding = Coding(v)
    BY <2>2, <2>5, Sizes DEF WrittenAt, Coding
  <2>7. AgreeBefore(new, host) BY <2>1, <2>5, SameAgreement DEF Arriving, Receptive, PacketStored
  <2>8. Storing(new, host)
    BY <2>1, <2>2, <2>5, <2>6, <2>7 DEF Arriving, Receptive, Storing, PacketStored, Unasked
  <2>9. ~new.usbrst BY <2>1, <2>5 DEF PacketStored
  <2>10. Known(new, host) BY <2>2, <2>6 DEF Known
  <2> QED BY <2>8, <2>9, <2>10 DEF Phase, InTransfer
<1>2. ASSUME dev.out.fifo = NoPacket, dev.setup # NULL
      PROVE  Phase(new, host, "out") /\ Known(new, host)
  <2>1. InFifo(dev, host) /\ ~dev.usbrst
    BY <1>2, Zenon DEF Phase, InTransfer, Resetting, AtRest, InFifo, Waiting, Refused, ToLoad, ToSend,
       Acknowledged, EndingShort, AwaitingStatus, AllSent, Sending, Stream, Serving, Receiving,
       Arriving, Storing, Receptive, AnsweringStatus, Unasked
  <2>2. SetupRead(new, dev) BY <1>2, SetupIsRead
  <2> HIDE DEF new
  <2>3. AgreeBefore(new, host) BY <2>1, <2>2, SameAgreement DEF InFifo, Waiting, SetupRead
  <2>4. Fetched(new, host) BY <2>1, <2>2, <2>3 DEF InFifo, Fetched, Waiting, SetupRead
  <2>5. Known(new, host) /\ ~new.usbrst BY <2>1, <2>2 DEF Known, SetupRead
  <2> QED BY <2>4, <2>5 DEF Phase, InTransfer
<1>3. ASSUME dev.out.fifo = NoPacket, dev.setup = NULL
      PROVE  Phase(new, host, "out") /\ Known(new, host)
  <2>1. new = dev BY <1>3, SetupIsRead
  <2>2. Phase(dev, host, "out") BY Zenon DEF Phase, InTransfer
  <2> QED BY <2>1, <2>2
<1> QED BY <1>1, <1>2, <1>3

\* A device that a host in one view of it knows serves what it should.
LEMMA RefusedAlike ==
  ASSUME NEW dev, NEW host, NEW req, AgreeBefore(dev, host), Known(dev, host)
  PROVE  Refuses(dev, req) <=> RefusalExpected(host, req)
BY DEF AgreeBefore, Agree, Known, Refuses, RefusalExpected

----------------------------------------------------------------------------
(* The contents of a data stage.                                             *)

Bytes == {0, 1} \cup LineCodings \cup ((DOMAIN DescLen) \X Nat)

LEMMA ContentIs ==
  ASSUME NEW dev, IsDevice(dev), NEW req \in Requests, IsIn(req),
         req.bRequest = "GET_DESCRIPTOR" => descriptor(req) \in DOMAIN DescLen
  PROVE  /\ Source(req) \in InData /\ Source(req) # NULL
         /\ Content(dev, req) \in Seq(Bytes) /\ Len(Content(dev, req)) \in Nat
         /\ req.wLength \in Nat
         /\ Wanted(dev, req) \in Nat /\ Wanted(dev, req) <= Len(Content(dev, req))
         /\ req.wLength > 0 => Wanted(dev, req) > 0
         /\ Wanted(dev, req) <= req.wLength
         /\ req.bRequest = "GET_DESCRIPTOR" =>
              Wanted(dev, req) = Least(req.wLength, DescLen[descriptor(req)])
         /\ req.bRequest = "GET_CONFIG" =>
              Wanted(dev, req) = 1 /\ Content(dev, req) = <<dev.confNum>>
         /\ req.bRequest = "GET_LINE_CODING" =>
              Wanted(dev, req) = LINE_CODING_LEN /\ Content(dev, req) = dev.lineCoding
<1> DEFINE m == Content(dev, req)
<1>1. RequestFields(req) BY RequestIs
<1>2. req.wLength \in Nat
  <2>1. WLengths \subseteq Nat BY DeviceAssumption
  <2>2. 1 \in Nat /\ LINE_CODING_LEN \in Nat BY Sizes
  <2>3. req.wLength \in WLengths \cup {1, LINE_CODING_LEN} BY <1>1, Zenon DEF IsIn, RequestFields
  <2> QED BY <2>1, <2>2, <2>3
<1>3. ASSUME Source(req) \in InData, Source(req) # NULL, m \in Seq(Bytes), Len(m) \in Nat,
             Len(m) > 0
      PROVE  /\ Wanted(dev, req) \in Nat /\ Wanted(dev, req) <= Len(m)
             /\ req.wLength > 0 => Wanted(dev, req) > 0
             /\ Wanted(dev, req) <= req.wLength
             /\ Wanted(dev, req) = Least(req.wLength, Len(m))
  BY <1>2, <1>3 DEF Wanted, Least
<1>4. CASE req.bRequest = "GET_DESCRIPTOR"
  <2> DEFINE t == descriptor(req)
  <2>1. t \in DOMAIN DescLen /\ Source(req) = t BY <1>4 DEF Source
  <2>2. DescLen[t] \in Nat \ {0} BY <2>1, DeviceAssumption
  <2>3. m = [i \in 1 .. DescLen[t] |-> <<t, i>>]
    BY <2>1, Distinct DEF Content, Memory
  <2>4. m \in [1 .. DescLen[t] -> Bytes]
    <3>1. ASSUME NEW i \in 1 .. DescLen[t] PROVE <<t, i>> \in Bytes
      <4>1. i \in Nat BY <2>2
      <4> HIDE DEF t
      <4>2. <<t, i>> \in (DOMAIN DescLen) \X Nat BY <2>1, <4>1
      <4> QED BY <4>2, Zenon DEF Bytes
    <3> HIDE DEF t
    <3> QED BY <2>3, <3>1
  <2>5. m \in Seq(Bytes) /\ Len(m) = DescLen[t] BY <2>2, <2>4, SeqDef, LenProperties
  <2>6. Source(req) \in InData /\ Source(req) # NULL BY <2>1, Distinct DEF InData
  <2> HIDE DEF m, t
  <2>7. Len(m) \in Nat /\ Len(m) > 0 BY <2>2, <2>5
  <2> QED BY <1>2, <1>3, <1>4, <2>5, <2>6, <2>7 DEF m, t
<1>5. CASE req.bRequest = "GET_CONFIG"
  <2>1. Source(req) = confNum /\ confNum \in InData /\ confNum # NULL
    BY <1>5, Distinct DEF Source, InData
  <2>2. m = <<dev.confNum>> BY <2>1, Distinct DEF Content, Memory
  <2>3. dev.confNum \in Bytes BY DEF IsDevice, Bytes
  <2>4. m \in Seq(Bytes) /\ Len(m) = 1 BY <2>2, <2>3
  <2>5. Least(1, 1) = 1 /\ req.wLength = 1 BY <1>1, <1>5 DEF Least, RequestFields
  <2> HIDE DEF m
  <2>6. Len(m) \in Nat /\ Len(m) > 0 BY <2>4
  <2> QED BY <1>2, <1>3, <1>5, <2>1, <2>2, <2>4, <2>5, <2>6 DEF m
<1>6. CASE req.bRequest = "GET_LINE_CODING"
  <2>1. Source(req) = lineCoding /\ lineCoding \in InData /\ lineCoding # NULL
    BY <1>6, Distinct DEF Source, InData
  <2>2. m = dev.lineCoding BY <2>1, Distinct DEF Content, Memory
  <2>3. m \in [1 .. LINE_CODING_LEN -> Bytes] BY <2>2 DEF IsDevice, Bytes
  <2>4. m \in Seq(Bytes) /\ Len(m) = LINE_CODING_LEN BY <2>3, Sizes, SeqDef, LenProperties
  <2>5. Least(LINE_CODING_LEN, LINE_CODING_LEN) = LINE_CODING_LEN /\ req.wLength = LINE_CODING_LEN
    BY <1>1, <1>6 DEF Least, RequestFields
  <2> HIDE DEF m
  <2>6. Len(m) \in Nat /\ Len(m) > 0 BY <2>4, Sizes
  <2> QED BY <1>2, <1>3, <1>6, <2>1, <2>2, <2>4, <2>5, <2>6 DEF m
<1> QED BY <1>4, <1>5, <1>6 DEF IsIn

\* What the device would send is what the host expects.
LEMMA ContentExpected ==
  ASSUME NEW dev, IsDevice(dev), NEW host, NEW req \in Requests, IsIn(req),
         req.bRequest = "GET_DESCRIPTOR" => descriptor(req) \in DOMAIN DescLen,
         req.bRequest = "GET_CONFIG" => dev.confNum = host.config,
         Known(dev, host)
  PROVE  SubSeq(Content(dev, req), 1, Wanted(dev, req)) \in ExpectedBy(host, dev, req)
<1> DEFINE m == Content(dev, req)
<1>1. CASE req.bRequest = "GET_DESCRIPTOR"
  <2>1. Source(req) = descriptor(req) BY <1>1 DEF Source
  <2>2. ExpectedBy(host, dev, req) = {Prefix(m, req.wLength)}
    BY <1>1, <2>1 DEF ExpectedBy, Content
  <2>3. SubSeq(m, 1, Wanted(dev, req)) = Prefix(m, req.wLength) BY Zenon DEF Prefix, Wanted
  <2> QED BY <2>2, <2>3
<1>2. CASE req.bRequest = "GET_CONFIG"
  <2>1. Wanted(dev, req) = 1 /\ m = <<dev.confNum>> BY <1>2, ContentIs
  <2>2. ExpectedBy(host, dev, req) = {<<host.config>>} BY <1>2 DEF ExpectedBy
  <2>3. dev.confNum = host.config BY <1>2
  <2> HIDE DEF m
  <2>4. m = <<host.config>> BY <2>1, <2>3
  <2>5. SubSeq(<<host.config>>, 1, 1) = <<host.config>>
    <3>1. <<host.config>> \in Seq({host.config}) /\ Len(<<host.config>>) = 1 OBVIOUS
    <3> QED BY <3>1, SubSeqFull
  <2> QED BY <2>1, <2>2, <2>4, <2>5 DEF m
<1>3. CASE req.bRequest = "GET_LINE_CODING"
  <2>1. Wanted(dev, req) = LINE_CODING_LEN /\ m = dev.lineCoding BY <1>3, ContentIs
  <2>2. PICK v \in host.codings : dev.lineCoding = Coding(v) BY DEF Known
  <2>3. v \in LineCodings BY <2>2 DEF Known
  <2>4. Coding(v) \in Seq(LineCodings) /\ Len(Coding(v)) = LINE_CODING_LEN
    BY <2>3, PacketOfCoding
  <2>5. SubSeq(Coding(v), 1, LINE_CODING_LEN) = Coding(v) BY <2>4, SubSeqFull
  <2>6. Coding(v) \in ExpectedBy(host, dev, req) BY <1>3, <2>2 DEF ExpectedBy
  <2> HIDE DEF m
  <2> QED BY <2>1, <2>2, <2>5, <2>6 DEF m
<1> QED BY <1>1, <1>2, <1>3 DEF IsIn

\* A transfer to the host begins.
LEMMA DataStarts ==
  ASSUME NEW dev, NEW host, NEW new, Waiting(dev, host), Unasked(dev), Quiet(dev.out),
         ToHost(host.req), ~RefusalExpected(host, host.req),
         Sends(new, dev, Source(host.req), Wanted(new, host.req), "StateStageOut"),
         AgreeBefore(new, host), Known(new, host),
         host.req.bRequest = "GET_CONFIG" => new.confNum = host.config
  PROVE  ToLoad(new, host)
<1> DEFINE req == host.req
           m == Content(new, req)
           n == Wanted(new, req)
           E == new.in
<1>1. req \in Requests /\ IsIn(req) /\ host.stage = "dataIn" /\ host.got = <<>>
      /\ req.wLength # 0
  BY DEF Waiting, InStage, ToHost, IsIn
<1>2. req.bRequest = "GET_DESCRIPTOR" => descriptor(req) \in DOMAIN DescLen
  BY Zenon DEF RefusalExpected
<1>3. IsDevice(new) BY DEF Sends
<1>4. n \in Nat /\ n > 0 /\ m \in Seq(Bytes) BY <1>1, <1>2, <1>3, ContentIs
<1>5. SubSeq(m, 1, n) \in ExpectedBy(host, new, req) BY <1>1, <1>2, <1>3, ContentExpected
<1>6. TransferOf(E, dev.in, Source(req), n, "StateStageOut") /\ new.out = dev.out
      /\ Keeps(new, dev)
  BY DEF Sends
<1> HIDE DEF n, m
<1> DEFINE k == Least(n, EP_MAX_PACKET)
<1>7. k \in 0 .. EP_MAX_PACKET /\ n - k \in Nat /\ (k = EP_MAX_PACKET \/ n - k = 0)
  BY <1>4, LeastPacket
<1>8. k > 0 /\ 0 + k + (n - k) = n BY <1>4, <1>7, Sizes DEF Least
<1> HIDE DEF k
<1>9. /\ E.size = k /\ E.left = k /\ E.dataLeft = n - k /\ E.off = 0 /\ E.armed /\ E.txfe
      /\ E.data = Source(req) /\ E.handler = "StateStageOut" /\ E.fifo = <<>> /\ ~E.xfrc
      /\ E.packetsLeft = Packets(E.dataLeft) /\ ~E.stall
  BY <1>6, Zenon DEF TransferOf, k, Waiting, Still
<1>10. Serving(new, host) BY <1>6, <1>9 DEF Serving, Waiting, Keeps, Unasked
<1>11. ~new.out.armed BY <1>6 DEF Waiting
<1>12. Len(host.got) = 0 /\ host.got = SubSeq(m, 1, 0) BY <1>1, <1>4, SubSeqEmpty
<1>13. Stream(new, host, E.size)
  <2>1. Len(host.got) + E.size + E.dataLeft = n BY <1>8, <1>9, <1>12
  <2>2. Len(host.got) \in Nat /\ host.got = SubSeq(m, 1, Len(host.got)) BY <1>12
  <2> QED BY <1>5, <1>9, <1>10, <1>11, <2>1, <2>2, Zenon DEF Stream, n, m
<1>14. Sending(new, host)
  <2>1. E.dataLeft > 0 => E.size = EP_MAX_PACKET BY <1>7, <1>9
  <2>2. E.size > 0 BY <1>8, <1>9
  <2> QED BY <1>1, <1>9, <1>13, <2>1, <2>2, Zenon DEF Sending
<1> QED BY <1>9, <1>12, <1>14 DEF ToLoad

\* The status of a request without data, or of one for no data, is given.
LEMMA StatusStarts ==
  ASSUME NEW dev, NEW host, NEW new, NEW buf, NEW handler,
         Waiting(dev, host), Unasked(dev), Quiet(dev.out), host.req.wLength = 0,
         ~RefusalExpected(host, host.req), host.req.bRequest # "SET_LINE_CODING",
         Sends(new, dev, buf, 0, handler), AgreeAfter(new, host)
  PROVE  AnsweringStatus(new, host)
<1>1. host.stage = "statusIn" BY DEF Waiting, InStage, ToHost
<1>2. TransferOf(new.in, dev.in, buf, 0, handler) /\ new.out = dev.out /\ Keeps(new, dev)
  BY DEF Sends
<1>3. Least(0, EP_MAX_PACKET) = 0 BY Sizes DEF Least
<1>4. /\ new.in.left = 0 /\ new.in.size = 0 /\ new.in.fifo = <<>> /\ ~new.in.xfrc
      /\ ~new.in.stall
  BY <1>2, <1>3 DEF TransferOf, Waiting, Still
<1>5. Serving(new, host) BY <1>2, <1>4 DEF Serving, Waiting, Keeps, Unasked
<1> QED BY <1>1, <1>4, <1>5 DEF AnsweringStatus, Still

\* The request is taken: refused, or served.
LEMMA GrantStep ==
  ASSUME NEW dev, NEW host, NEW new, IsDevice(dev), IsDevice(new), Keeps(new, dev),
         Known(dev, host), Waiting(dev, host), Unasked(dev), Quiet(dev.out),
         Outcome(new, dev, host.req)
  PROVE  InTransfer(new, host, "in")
<1> DEFINE req == host.req
<1>1. /\ req \in Requests /\ host.stage \in {"dataIn", "dataOut", "statusIn"}
      /\ AgreeBefore(dev, host) /\ InStage(host)
  BY DEF Waiting, InStage
<1>2. Known(new, host) BY DEF Known, Keeps
<1>3. req.bRequest \in Operations /\ RequestFields(req) BY <1>1, RequestIs
<1>4. Refuses(dev, req) <=> RefusalExpected(host, req) BY <1>1, RefusedAlike
<1>5. CASE Refuses(dev, req)
  <2>1. Stalled(new, dev) BY <1>5 DEF Outcome
  <2>2. host.stage \in {"dataIn", "statusIn"} BY <1>1, <1>5 DEF InStage, Refuses
  <2>3. AgreeBefore(new, host) BY <1>1, <2>1, SameAgreement DEF Stalled
  <2>4. Refused(new, host)
    BY <1>1, <1>4, <1>5, <2>1, <2>2, <2>3 DEF Refused, Stalled, Waiting, Still, Keeps, Unasked, Quiet
  <2> QED BY <2>4 DEF InTransfer
<1>6. CASE ~Refuses(dev, req)
  <2>1. ~RefusalExpected(host, req) /\ Grants(new, dev, req) BY <1>4, <1>6 DEF Outcome
  <2>2. CASE req.bRequest = "SET_ADDRESS"
    <3>1. /\ Sends(new, dev, NULL, 0, NULL)
          /\ HasState(new, IF req.value = 0 THEN "DEFAULT" ELSE "ADDRESS", req.value,
                      dev.confNum, dev.controlLineState)
      BY <2>1, <2>2 DEF Grants
    <3>2. AgreeAfter(new, host)
      BY <1>1, <2>1, <2>2, <3>1 DEF AgreeAfter, AgreeBefore, Agree, HasState, RefusalExpected
    <3>3. req.wLength = 0 BY <1>3, <2>2 DEF RequestFields
    <3>4. AnsweringStatus(new, host) BY <2>1, <2>2, <3>1, <3>2, <3>3, StatusStarts
    <3> QED BY <3>4 DEF InTransfer
  <2>3. CASE req.bRequest = "SET_CONFIG"
    <3>1. /\ Sends(new, dev, NULL, 0, NULL)
          /\ HasState(new, IF req.value = 0 THEN "ADDRESS" ELSE "CONFIGURED", dev.address,
                      dev.confNum, dev.controlLineState)
      BY <2>1, <2>3 DEF Grants
    <3>2. AgreeAfter(new, host)
      BY <1>1, <2>1, <2>3, <3>1 DEF AgreeAfter, AgreeBefore, Agree, HasState, RefusalExpected
    <3>3. req.wLength = 0 BY <1>3, <2>3 DEF RequestFields
    <3>4. AnsweringStatus(new, host) BY <2>1, <2>3, <3>1, <3>2, <3>3, StatusStarts
    <3> QED BY <3>4 DEF InTransfer
  <2>4. CASE req.bRequest = "SET_CONTROL_LINE_STATE"
    <3>1. /\ Sends(new, dev, NULL, 0, NULL)
          /\ HasState(new, dev.connState, dev.address, dev.confNum, req.value)
      BY <2>1, <2>4 DEF Grants
    <3>2. AgreeAfter(new, host)
      BY <1>1, <2>4, <3>1 DEF AgreeAfter, AgreeBefore, Agree, HasState
    <3>3. req.wLength = 0 BY <1>3, <2>4 DEF RequestFields
    <3>4. AnsweringStatus(new, host) BY <2>1, <2>4, <3>1, <3>2, <3>3, StatusStarts
    <3> QED BY <3>4 DEF InTransfer
  <2>5. CASE req.bRequest = "GET_DESCRIPTOR"
    <3> DEFINE t == descriptor(req)
    <3>1. /\ Sends(new, dev, t, Least(req.wLength, DescLen[t]), "StateStageOut")
          /\ KeepsState(new, dev)
      BY <2>1, <2>5 DEF Grants
    <3>2. AgreeBefore(new, host) /\ AgreeAfter(new, host)
      <4>1. AgreeBefore(new, host) BY <1>1, <3>1, SameAgreement
      <4> QED BY <2>5, <4>1 DEF AgreeAfter, AgreeBefore
    <3>3. t \in DOMAIN DescLen BY <2>1, <2>5 DEF RefusalExpected
    <3>4. CASE req.wLength = 0
      <4>1. Least(0, DescLen[t]) = 0
        <5>1. DescLen[t] \in Nat \ {0} BY <3>3, DeviceAssumption
        <5> QED BY <5>1 DEF Least
      <4>2. AnsweringStatus(new, host) BY <2>1, <2>5, <3>1, <3>2, <3>4, <4>1, StatusStarts
      <4> QED BY <4>2 DEF InTransfer
    <3>5. CASE req.wLength # 0
      <4>1. ToHost(req) BY <2>5, <3>5 DEF ToHost, IsIn
      <4>2. Source(req) = t BY <2>5 DEF Source
      <4>3. Wanted(new, req) = Least(req.wLength, DescLen[t])
        BY <1>1, <2>5, <3>3, <4>1, ContentIs DEF ToHost
      <4>4. ToLoad(new, host)
        BY <1>2, <2>1, <2>5, <3>1, <3>2, <4>1, <4>2, <4>3, DataStarts
      <4> QED BY <4>4 DEF InTransfer
    <3> QED BY <3>4, <3>5
  <2>6. CASE req.bRequest = "GET_CONFIG"
    <3>1. /\ Sends(new, dev, confNum, 1, "StateStageOut")
          /\ HasState(new, dev.connState, dev.address,
                      IF dev.connState = "CONFIGURED" THEN 1 ELSE 0, dev.controlLineState)
      BY <2>1, <2>6 DEF Grants
    <3>2. AgreeBefore(new, host) BY <1>1, <3>1 DEF AgreeBefore, Agree, HasState
    <3>3. new.confNum = host.config
      BY <1>1, <3>1 DEF AgreeBefore, Agree, HasState, Known
    <3>4. ToHost(req) BY <1>3, <2>6 DEF ToHost, IsIn, RequestFields
    <3>5. Source(req) = confNum BY <2>6 DEF Source
    <3>6. Wanted(new, req) = 1 BY <1>1, <2>6, <3>4, ContentIs DEF ToHost
    <3>7. ToLoad(new, host)
      BY <1>2, <2>1, <3>1, <3>2, <3>3, <3>4, <3>5, <3>6, DataStarts
    <3> QED BY <3>7 DEF InTransfer
  <2>7. CASE req.bRequest = "GET_LINE_CODING"
    <3>1. Sends(new, dev, lineCoding, LINE_CODING_LEN, "StateStageOut") /\ KeepsState(new, dev)
      BY <2>1, <2>7 DEF Grants
    <3>2. AgreeBefore(new, host) BY <1>1, <3>1, SameAgreement
    <3>3. ToHost(req) BY <1>3, <2>7, Sizes DEF ToHost, IsIn, RequestFields
    <3>4. Source(req) = lineCoding BY <2>7 DEF Source
    <3>5. Wanted(new, req) = LINE_CODING_LEN BY <1>1, <2>7, <3>3, ContentIs DEF ToHost
    <3>6. ToLoad(new, host)
      BY <1>2, <2>1, <2>7, <3>1, <3>2, <3>3, <3>4, <3>5, DataStarts
    <3> QED BY <3>6 DEF InTransfer
  <2>8. CASE req.bRequest = "SET_LINE_CODING"
    <3>1. Receives(new, dev) BY <2>1, <2>8 DEF Grants
    <3>2. host.stage = "dataOut"
      <4>1. ~IsIn(req) /\ req.wLength # 0 BY <1>3, <2>8, Sizes DEF IsIn, RequestFields
      <4> QED BY <1>1, <4>1 DEF Waiting, InStage, ToHost
    <3>3. AgreeBefore(new, host) BY <1>1, <3>1, SameAgreement DEF Receives
    <3>4. Receiving(new, host)
      BY <1>1, <2>1, <2>8, <3>1, <3>2, <3>3
         DEF Receiving, Receptive, Receives, Keeps, Unasked, Waiting, Quiet
    <3> QED BY <3>4 DEF InTransfer
  <2> QED BY <1>3, <2>2, <2>3, <2>4, <2>5, <2>6, <2>7, <2>8 DEF Operations
<1> QED BY <1>5, <1>6

\* OEPINT: a reception ends, and a request that was fetched is taken.
LEMMA FetchedIsTaken ==
  ASSUME NEW dev, NEW host, IsDevice(dev), Known(dev, host), Fetched(dev, host), ~dev.usbrst
  PROVE  /\ Phase(HandleOutEndpoint(dev), host, "in")
         /\ Known(HandleOutEndpoint(dev), host)
<1> DEFINE after == ReceptionComplete(dev)
           new == HandleOutEndpoint(dev)
           req == host.req
<1>1. /\ Waiting(dev, host) /\ dev.setup = NULL /\ dev.stup /\ dev.lastRequest = req
      /\ req \in Requests
  BY DEF Fetched, Waiting, InStage
<1>2. /\ IsDevice(new) /\ Keeps(after, dev) /\ KeepsState(after, dev)
      /\ IF dev.out.xfrc THEN Received(after, dev) ELSE after = dev
  BY OutIsHandled
<1>3. PICK mid : SetupTaken(mid, after) /\ Outcome(new, mid, after.lastRequest)
  BY <1>1, OutIsHandled
<1> HIDE DEF after, new
<1>4. /\ after.in = dev.in /\ ~after.out.xfrc /\ after.out.fifo = NoPacket
      /\ after.out.armed = dev.out.armed
  <2>1. Settled(dev.out) /\ NULL # "StateStageIn" BY <1>1, Distinct DEF Waiting
  <2> QED BY <1>2, <2>1 DEF Received, Settled
<1>5. /\ after.lastRequest = req /\ after.setup = NULL /\ ~after.usbrst
      /\ after.lineCoding = dev.lineCoding
  BY <1>1, <1>2 DEF Keeps
<1>6. /\ IsDevice(mid) /\ KeepsState(mid, dev) /\ mid.in = dev.in /\ Quiet(mid.out)
      /\ Unasked(mid) /\ ~mid.usbrst /\ mid.lineCoding = dev.lineCoding
      /\ mid.out.armed = dev.out.armed
  BY <1>2, <1>3, <1>4, <1>5 DEF SetupTaken, KeepsState, Quiet, Unasked
<1>7. AgreeBefore(mid, host) BY <1>1, <1>6, SameAgreement DEF Waiting
<1>8. Waiting(mid, host) BY <1>1, <1>6, <1>7 DEF Waiting, Settled, Quiet
<1>9. Known(mid, host) BY <1>6 DEF Known
<1>10. Outcome(new, mid, req) BY <1>3, <1>5
<1>11. Keeps(new, mid) BY <1>1, <1>10, OutcomeType
<1>12. InTransfer(new, host, "in") BY <1>2, <1>6, <1>8, <1>9, <1>10, <1>11, GrantStep
<1>13. ~new.usbrst /\ Known(new, host) BY <1>6, <1>9, <1>11 DEF Keeps, Known
<1> QED BY <1>12, <1>13 DEF Phase, new

LEMMA DataAreAcknowledged ==
  ASSUME NEW dev, NEW host, IsDevice(dev), Storing(dev, host)
  PROVE  AnsweringStatus(HandleOutEndpoint(dev), host)
<1> DEFINE new == HandleOutEndpoint(dev)
<1>1. Received(new, dev)
  <2>1. dev.out.xfrc /\ ~dev.stup BY DEF Storing, Receptive, Unasked
  <2> QED BY <2>1, OutIsHandled
<1> HIDE DEF new
<1>2. TransferOf(new.in, dev.in, NULL, 0, NULL) BY <1>1 DEF Received, Storing
<1>3. Least(0, EP_MAX_PACKET) = 0 BY Sizes DEF Least
<1>4. new.in.size = 0 /\ Still(new.in) /\ ~new.in.stall
  BY <1>2, <1>3 DEF TransferOf, Storing, Receptive, Still
<1>5. AgreeAfter(new, host)
  <2>1. AgreeBefore(new, host) BY <1>1, SameAgreement DEF Received, Storing, Receptive
  <2> QED BY <2>1 DEF AgreeBefore, AgreeAfter, Storing, Receptive
<1>6. Serving(new, host)
  BY <1>1, <1>4 DEF Serving, Storing, Receptive, Received, Keeps, Unasked, Quiet
<1>7. AnsweringStatus(new, host)
  BY <1>1, <1>4, <1>5, <1>6 DEF AnsweringStatus, Storing, Received, Keeps
<1> QED BY <1>7 DEF new

\* A status packet that the host has sent ends nothing.
LEMMA StatusIsForgotten ==
  ASSUME NEW dev, NEW host, IsDevice(dev), AtRest(dev, host) \/ InFifo(dev, host)
  PROVE  /\ AtRest(dev, host) => AtRest(HandleOutEndpoint(dev), host)
         /\ InFifo(dev, host) => InFifo(HandleOutEndpoint(dev), host)
<1> DEFINE new == HandleOutEndpoint(dev)
<1>1. ~dev.stup /\ Settled(dev.out) BY DEF AtRest, InFifo, Waiting, Unasked
<1>2. Keeps(new, dev) /\ KeepsState(new, dev)
      /\ IF dev.out.xfrc THEN Received(new, dev) ELSE new = dev
  BY <1>1, OutIsHandled
<1> HIDE DEF new
<1>3. new.in = dev.in /\ Settled(new.out) /\ new.out.armed = dev.out.armed
  <2>1. NULL # "StateStageIn" BY Distinct
  <2> QED BY <1>1, <1>2, <2>1 DEF Received, Settled
<1>4. AgreeBefore(new, host) BY <1>2, SameAgreement DEF AtRest, InFifo, Waiting
<1>5. ASSUME AtRest(dev, host) PROVE AtRest(new, host)
  BY <1>2, <1>3, <1>4, <1>5 DEF AtRest, Keeps, Unasked
<1>6. ASSUME InFifo(dev, host) PROVE InFifo(new, host)
  BY <1>2, <1>3, <1>4, <1>6 DEF InFifo, Waiting, Keeps
<1> QED BY <1>5, <1>6 DEF new

LEMMA OutStep ==
  ASSUME NEW dev, NEW host, IsDevice(dev), Known(dev, host), Phase(dev, host, "out")
  PROVE  Phase(HandleOutEndpoint(dev), host, "in") /\ Known(HandleOutEndpoint(dev), host)
<1> DEFINE new == HandleOutEndpoint(dev)
<1>1. CASE Fetched(dev, host) /\ ~dev.usbrst BY <1>1, FetchedIsTaken
<1>2. CASE ~(Fetched(dev, host) /\ ~dev.usbrst)
  <2>1. ~dev.stup
    BY <1>2, Zenon DEF Phase, InTransfer, Resetting, AtRest, InFifo, Refused, ToLoad, ToSend,
       Acknowledged, EndingShort, AwaitingStatus, AllSent, Sending, Stream, Serving, Receiving,
       Arriving, Storing, Receptive, AnsweringStatus, Unasked
  <2>2. Keeps(new, dev) /\ IF dev.out.xfrc THEN Received(new, dev) ELSE new = dev
    BY <2>1, OutIsHandled
  <2>3. Known(new, host) /\ new.usbrst = dev.usbrst
    <3> HIDE DEF new
    <3> QED BY <2>2 DEF Keeps, Known
  <2>4. CASE ~dev.out.xfrc
    <3>1. Phase(dev, host, "in") BY <1>2, Zenon DEF Phase, InTransfer
    <3>2. new = dev BY <2>2, <2>4
    <3> HIDE DEF new
    <3> QED BY <2>3, <3>1, <3>2 DEF new
  <2>5. CASE dev.out.xfrc
    <3>1. ~dev.usbrst /\ (AtRest(dev, host) \/ InFifo(dev, host) \/ Storing(dev, host))
      BY <1>2, <2>5, Zenon DEF Phase, InTransfer, Resetting, Refused, ToLoad, ToSend,
         Acknowledged, EndingShort, AwaitingStatus, AllSent, Sending, Stream, Serving, Receiving,
         Arriving, AnsweringStatus, Quiet
    <3>2. AtRest(new, host) \/ InFifo(new, host) \/ AnsweringStatus(new, host)
      BY <3>1, StatusIsForgotten, DataAreAcknowledged
    <3> HIDE DEF new
    <3>3. Phase(new, host, "in") BY <2>3, <3>1, <3>2 DEF Phase, InTransfer
    <3> QED BY <2>3, <3>3 DEF new
  <2> QED BY <2>4, <2>5
<1> QED BY <1>1, <1>2

\* IEPINT with nothing to load and nothing acknowledged: the phase stays.
Alike(new, dev) ==
  /\ Keeps(new, dev) /\ KeepsState(new, dev) /\ new.out = dev.out
  /\ Still(new.in) /\ new.in.armed = dev.in.armed
  /\ new.in.size = dev.in.size /\ new.in.stall = dev.in.stall

LEMMA NothingLoads ==
  ASSUME NEW dev, IsDevice(dev), Still(dev.in)
  PROVE  Alike(HandleInEndpoint(dev), dev)
<1> DEFINE new == HandleInEndpoint(dev)
           mem == Memory(dev, dev.in.data)
<1>1. TransmissionComplete(dev) = dev BY Zenon DEF TransmissionComplete, Still
<1>2. IF dev.in.txfe THEN OnlyIn(new, dev, new.in) /\ Loaded(new.in, dev.in, mem) ELSE new = dev
  <2>1. IF dev.in.txfe THEN OnlyIn(new, dev, new.in) /\ LoadsOrWaits(new.in, dev.in, mem)
        ELSE new = dev
    BY <1>1, InIsHandled
  <2>2. dev.in.left = 0 BY Zenon DEF Still
  <2> QED BY <2>1, <2>2, Zenon DEF LoadsOrWaits
<1>3. dev.in.off \in Nat BY DEF IsDevice, IsIN, InRecord
<1> HIDE DEF new, mem
<1>4. CASE dev.in.txfe
  <2>1. SubSeq(mem, dev.in.off + 1, dev.in.off + 0) = <<>> BY <1>3, SubSeqEmpty
  <2>2. dev.in.left = 0 /\ dev.in.fifo = <<>> BY Zenon DEF Still
  <2>3. new.in.fifo = <<>> \o <<>> BY <1>2, <1>4, <2>1, <2>2, Zenon DEF Loaded
  <2>4. new.in.fifo = <<>> BY <2>3
  <2>5. Alike(new, dev) BY <1>2, <1>4, <2>4 DEF Loaded, OnlyIn, Alike, Still
  <2> QED BY <2>5 DEF new
<1>5. CASE ~dev.in.txfe
  <2>1. Alike(new, dev) BY <1>2, <1>5 DEF Alike, Keeps, KeepsState
  <2> QED BY <2>1 DEF new
<1> QED BY <1>4, <1>5

LEMMA AlikePhase ==
  ASSUME NEW dev, NEW new, NEW host, Alike(new, dev)
  PROVE  /\ AtRest(dev, host) => AtRest(new, host)
         /\ InFifo(dev, host) => InFifo(new, host)
         /\ Refused(dev, host) => Refused(new, host)
         /\ EndingShort(dev, host) => EndingShort(new, host)
         /\ AwaitingStatus(dev, host) => AwaitingStatus(new, host)
         /\ Receiving(dev, host) => Receiving(new, host)
         /\ Arriving(dev, host) => Arriving(new, host)
         /\ Storing(dev, host) => Storing(new, host)
         /\ AnsweringStatus(dev, host) => AnsweringStatus(new, host)
<1>1. /\ AgreeBefore(new, host) = AgreeBefore(dev, host)
      /\ AgreeAfter(new, host) = AgreeAfter(dev, host)
      /\ ExpectedBy(host, new, host.req) = ExpectedBy(host, dev, host.req)
  BY SameAgreement, SameContent DEF Alike, Keeps, KeepsState
<1>2. Unasked(new) = Unasked(dev) BY DEF Alike, Keeps, Unasked
<1>3. AtRest(dev, host) => AtRest(new, host) BY <1>1, <1>2 DEF Alike, AtRest
<1>4. InFifo(dev, host) => InFifo(new, host) BY <1>1 DEF Alike, InFifo, Waiting, Keeps
<1>5. Refused(dev, host) => Refused(new, host) BY <1>1, <1>2 DEF Alike, Refused
<1>6. Serving(dev, host) => Serving(new, host) BY <1>2 DEF Alike, Serving
<1>7. AllSent(dev, host) => AllSent(new, host) BY <1>1, <1>6 DEF Alike, AllSent
<1>8. Receptive(dev, host) => Receptive(new, host) BY <1>1, <1>2 DEF Alike, Receptive
<1>9. EndingShort(dev, host) => EndingShort(new, host) BY <1>7 DEF Alike, EndingShort
<1>10. AwaitingStatus(dev, host) => AwaitingStatus(new, host) BY <1>7 DEF AwaitingStatus
<1>11. Receiving(dev, host) => Receiving(new, host) BY <1>8 DEF Alike, Receiving
<1>12. Arriving(dev, host) => Arriving(new, host) BY <1>8 DEF Alike, Arriving
<1>13. Storing(dev, host) => Storing(new, host) BY <1>8 DEF Alike, Storing, Keeps
<1>14. AnsweringStatus(dev, host) => AnsweringStatus(new, host)
  BY <1>1, <1>6 DEF Alike, AnsweringStatus, Keeps
<1> QED BY <1>3, <1>4, <1>5, <1>9, <1>10, <1>11, <1>12, <1>13, <1>14

\* The parts of a stream that a step within a packet keeps.
LEMMA StreamKept ==
  ASSUME NEW dev, NEW new, NEW host, NEW n, Stream(dev, host, n), OnlyIn(new, dev, new.in),
         new.in.stall = dev.in.stall, new.in.data = dev.in.data,
         new.in.handler = dev.in.handler, new.in.dataLeft = dev.in.dataLeft,
         new.in.packetsLeft = dev.in.packetsLeft
  PROVE  Stream(new, host, n) /\ Content(new, host.req) = Content(dev, host.req)
<1>1. Keeps(new, dev) /\ KeepsState(new, dev) /\ new.out = dev.out BY DEF OnlyIn
<1>2. /\ AgreeBefore(new, host) = AgreeBefore(dev, host)
      /\ Content(new, host.req) = Content(dev, host.req)
      /\ Wanted(new, host.req) = Wanted(dev, host.req)
      /\ ExpectedBy(host, new, host.req) = ExpectedBy(host, dev, host.req)
  BY <1>1, SameAgreement, SameContent DEF Keeps, KeepsState
<1>3. Serving(new, host) BY <1>1 DEF Stream, Serving, Unasked, Keeps
<1> QED BY <1>1, <1>2, <1>3 DEF Stream

\* What is sent exists.
LEMMA StreamContent ==
  ASSUME NEW dev, NEW host, NEW n \in Nat, IsDevice(dev), Stream(dev, host, n),
         host.stage \in {"dataIn", "statusOut"}
  PROVE  /\ Content(dev, host.req) \in Seq(Bytes) /\ Wanted(dev, host.req) \in Nat
         /\ Len(Content(dev, host.req)) \in Nat
         /\ Wanted(dev, host.req) <= Len(Content(dev, host.req))
         /\ Wanted(dev, host.req) <= host.req.wLength
         /\ Len(host.got) \in Nat /\ dev.in.dataLeft \in Nat /\ host.req.wLength \in Nat
<1>1. /\ host.req \in Requests /\ IsIn(host.req) /\ ~RefusalExpected(host, host.req)
      /\ Len(host.got) \in Nat
  BY DEF Stream, Serving, InStage, ToHost
<1>2. host.req.bRequest = "GET_DESCRIPTOR" => descriptor(host.req) \in DOMAIN DescLen
  BY <1>1 DEF RefusalExpected
<1>3. dev.in.dataLeft \in Nat BY DEF IsDevice, IsIN, InRecord
<1> QED BY <1>1, <1>2, <1>3, ContentIs

LEMMA PieceOf ==
  ASSUME NEW S, NEW m \in Seq(S), NEW i \in Nat, NEW j \in Nat, i <= j, j <= Len(m)
  PROVE  /\ SubSeq(m, i + 1, j) \in Seq(S) /\ Len(SubSeq(m, i + 1, j)) = j - i
         /\ SubSeq(m, 1, i) \o SubSeq(m, i + 1, j) = SubSeq(m, 1, j)
<1> DEFINE a == i + 1
<1>1. Len(m) \in Nat BY LenProperties
<1>2. \A x \in a .. j : m[x] \in S
  <2> SUFFICES ASSUME NEW x \in a .. j PROVE m[x] \in S OBVIOUS
  <2>1. x \in 1 .. Len(m) BY <1>1
  <2> QED BY <2>1, ElementOfSeq
<1>3. a \in Int /\ j \in Int /\ j - a + 1 = j - i /\ (a > j => j - i = 0) OBVIOUS
<1>4. SubSeq(m, a, j) \in Seq(S) /\ Len(SubSeq(m, a, j)) = j - i
  <2> HIDE DEF a
  <2>1. /\ SubSeq(m, a, j) \in Seq(S)
        /\ Len(SubSeq(m, a, j)) = IF a <= j THEN j - a + 1 ELSE 0
    BY <1>2, <1>3, SubSeqProperties
  <2> QED BY <1>3, <2>1
<1>5. SubSeq(m, 1, i) \o SubSeq(m, i + 1, j) = SubSeq(m, 1, j)
  <2>1. 1 \in 1 .. Len(m) + 1 /\ i \in 1 - 1 .. Len(m) /\ j \in i .. Len(m) BY <1>1
  <2> QED BY <2>1, ConcatAdjacentSubSeq
<1> QED BY <1>4, <1>5

LEMMA PacketIsLoaded ==
  ASSUME NEW dev, NEW host, IsDevice(dev), ToLoad(dev, host)
  PROVE  ToSend(HandleInEndpoint(dev), host) /\ Keeps(HandleInEndpoint(dev), dev)
<1> DEFINE new == HandleInEndpoint(dev)
           req == host.req
           m == Content(dev, req)
           k == Len(host.got)
           n == dev.in.size
<1>1. /\ Sending(dev, host) /\ ~dev.in.xfrc /\ dev.in.txfe /\ dev.in.left = n /\ n > 0
      /\ dev.in.fifo = <<>> /\ dev.in.off = k /\ dev.in.data = Source(req)
      /\ dev.in.dataLeft > 0 => n = EP_MAX_PACKET
      /\ Stream(dev, host, n) /\ host.stage = "dataIn"
  BY DEF ToLoad, Sending, Stream
<1>2. n \in Nat BY Sizes DEF IsDevice, IsIN, InRecord
<1>3. /\ m \in Seq(Bytes) /\ Len(m) \in Nat /\ Wanted(dev, req) <= Len(m)
      /\ k \in Nat /\ dev.in.dataLeft \in Nat /\ Wanted(dev, req) \in Nat
      /\ k + n + dev.in.dataLeft = Wanted(dev, req)
  BY <1>1, <1>2, StreamContent DEF Stream
<1>4. OnlyIn(new, dev, new.in) /\ Loaded(new.in, dev.in, m)
  <2>1. TransmissionComplete(dev) = dev BY <1>1, Zenon DEF TransmissionComplete
  <2>2. Memory(dev, dev.in.data) = m BY <1>1, Zenon DEF Content
  <2>3. OnlyIn(new, dev, new.in) /\ LoadsOrWaits(new.in, dev.in, m)
    BY <1>1, <2>1, <2>2, InIsHandled
  <2>4. HasRoom(dev.in)
    <3>1. n \in 0 .. EP_MAX_PACKET BY DEF IsDevice, IsIN, InRecord
    <3>2. Len(dev.in.fifo) = 0 BY <1>1
    <3> HIDE DEF n
    <3> QED BY <1>1, <3>1, <3>2, RoomForPacket DEF HasRoom
  <2> QED BY <2>3, <2>4, Zenon DEF LoadsOrWaits
<1> HIDE DEF new, m, k, n
<1>5. SubSeq(m, k + 1, k + n) \in Seq(Bytes)
  <2>1. k + n \in Nat /\ k <= k + n /\ k + n <= Len(m) BY <1>2, <1>3
  <2> QED BY <1>3, <2>1, PieceOf
<1>6. new.in.fifo = SubSeq(m, k + 1, k + n)
  <2>1. new.in.fifo = <<>> \o SubSeq(m, k + 1, k + n) BY <1>1, <1>4 DEF Loaded
  <2> QED BY <1>5, <2>1, ConcatEmptySeq
<1>7. dev.in.dataLeft > 0 => new.in.off = k + n
  <2>1. ASSUME n = EP_MAX_PACKET PROVE new.in.off = k + n
    BY <1>1, <1>4, <2>1, WholeWords, Zenon DEF Loaded
  <2> QED BY <1>1, <2>1
<1>8. /\ ~new.in.txfe /\ new.in.left = 0 /\ new.in.lastSent = n /\ new.in.size = n
      /\ new.in.data = dev.in.data /\ new.in.handler = dev.in.handler
      /\ new.in.packetsLeft = dev.in.packetsLeft /\ new.in.dataLeft = dev.in.dataLeft
      /\ new.in.armed = dev.in.armed /\ new.in.xfrc = dev.in.xfrc
      /\ new.in.stall = dev.in.stall
  BY <1>1, <1>2, <1>4 DEF Loaded, n
<1>9. Stream(new, host, n) /\ Content(new, req) = m
  BY <1>1, <1>4, <1>8, StreamKept DEF m
<1>10. Sending(new, host) BY <1>1, <1>8, <1>9 DEF Sending
<1>11. ToSend(new, host) BY <1>6, <1>7, <1>8, <1>9, <1>10 DEF ToSend, k
<1>12. Keeps(new, dev) BY <1>4 DEF OnlyIn
<1> QED BY <1>11, <1>12 DEF new

\* The host has read a packet, and there is more to come.
LEMMA NextPacketIsSet ==
  ASSUME NEW dev, NEW host, IsDevice(dev), Acknowledged(dev, host), dev.in.dataLeft > 0
  PROVE  ToLoad(HandleInEndpoint(dev), host) /\ Keeps(HandleInEndpoint(dev), dev)
<1> DEFINE new == HandleInEndpoint(dev)
           rest == dev.in.dataLeft
           n == Least(rest, EP_MAX_PACKET)
           k == Len(host.got)
<1>1. /\ Stream(dev, host, 0) /\ dev.in.xfrc /\ ~dev.in.txfe /\ dev.in.fifo = <<>>
      /\ dev.in.off = k /\ host.stage = "dataIn" /\ rest > 0
      /\ dev.in.packetsLeft = Packets(rest)
  BY DEF Acknowledged, Stream
<1>2. 0 \in Nat OBVIOUS
<1>3. rest \in Nat /\ k \in Nat /\ Wanted(dev, host.req) \in Nat
      /\ k + 0 + rest = Wanted(dev, host.req)
  BY <1>1, <1>2, StreamContent DEF Stream
<1>4. Packets(rest) > 0 /\ Packets(rest) - 1 = Packets(rest - n)
  BY <1>1, <1>3, PacketsLess
<1>5. OnlyIn(new, dev, new.in) /\ Continued(new.in, dev.in)
  BY <1>1, <1>4, TransmissionIsDone, InIsHandled
<1>6. n \in 0 .. EP_MAX_PACKET /\ rest - n \in Nat /\ (n = EP_MAX_PACKET \/ rest - n = 0)
  BY <1>3, LeastPacket
<1>7. n > 0 BY <1>1, <1>3, <1>6, Sizes
<1> HIDE DEF new
<1>8. /\ new.in.packetsLeft = Packets(rest - n) /\ new.in.dataLeft = rest - n
      /\ new.in.left = n /\ new.in.size = n /\ new.in.armed /\ new.in.txfe /\ ~new.in.xfrc
      /\ new.in.data = dev.in.data /\ new.in.off = k /\ new.in.handler = dev.in.handler
      /\ new.in.fifo = <<>> /\ new.in.stall = dev.in.stall
  BY <1>1, <1>4, <1>5 DEF Continued
<1> HIDE DEF n, rest, k
<1>9. Keeps(new, dev) /\ KeepsState(new, dev) /\ new.out = dev.out BY <1>5 DEF OnlyIn
<1>10. Stream(new, host, n)
  <2>1. /\ AgreeBefore(new, host) = AgreeBefore(dev, host)
        /\ Content(new, host.req) = Content(dev, host.req)
        /\ Wanted(new, host.req) = Wanted(dev, host.req)
        /\ ExpectedBy(host, new, host.req) = ExpectedBy(host, dev, host.req)
    BY <1>9, SameAgreement, SameContent DEF Keeps, KeepsState
  <2>2. Serving(new, host) BY <1>1, <1>8, <1>9 DEF Stream, Serving, Unasked, Keeps
  <2>3. k + n + (rest - n) = k + 0 + rest BY <1>3, <1>6, Sizes
  <2>4. k + n + new.in.dataLeft = Wanted(new, host.req) BY <1>3, <1>8, <2>1, <2>3
  <2> QED BY <1>1, <1>3, <1>8, <1>9, <2>1, <2>2, <2>4 DEF Stream, k
<1>11. Sending(new, host)
  <2>1. new.in.size > 0 /\ (new.in.dataLeft > 0 => new.in.size = EP_MAX_PACKET)
    BY <1>6, <1>7, <1>8
  <2> QED BY <1>1, <1>8, <1>10, <2>1 DEF Sending
<1>12. ToLoad(new, host) BY <1>8, <1>11 DEF ToLoad, k
<1> QED BY <1>9, <1>12 DEF new

\* The host has read the last packet.
LEMMA LastIsAcknowledged ==
  ASSUME NEW dev, NEW host, IsDevice(dev), Acknowledged(dev, host), dev.in.dataLeft = 0
  PROVE  /\ EndingShort(HandleInEndpoint(dev), host) \/ AwaitingStatus(HandleInEndpoint(dev), host)
         /\ Keeps(HandleInEndpoint(dev), dev)
<1> DEFINE new == HandleInEndpoint(dev)
           m == Content(dev, host.req)
           k == Len(host.got)
<1>1. /\ Stream(dev, host, 0) /\ dev.in.xfrc /\ ~dev.in.txfe /\ dev.in.fifo = <<>>
      /\ dev.in.left = 0 /\ host.stage \in {"dataIn", "statusOut"}
      /\ dev.in.packetsLeft = 0 /\ dev.in.handler = "StateStageOut"
      /\ host.stage = "dataIn" => dev.in.lastSent = EP_MAX_PACKET
  BY PacketsZero DEF Acknowledged, Stream
<1>2. Transmitted(new, dev) BY <1>1, TransmissionIsDone, InIsHandled
<1> HIDE DEF new
<1>3. /\ AgreeBefore(new, host)
      /\ ExpectedBy(host, new, host.req) = ExpectedBy(host, dev, host.req)
  BY <1>1, <1>2, SameAgreement, SameContent DEF Transmitted, Keeps, KeepsState, Stream
<1>4. host.got \in ExpectedBy(host, dev, host.req)
  <2>1. k \in Nat /\ k + 0 + 0 = Wanted(dev, host.req) BY <1>1 DEF Stream
  <2>2. k = Wanted(dev, host.req) BY <2>1
  <2> QED BY <1>1, <2>2, Zenon DEF Stream
<1>5. Serving(new, host)
  BY <1>1, <1>2 DEF Transmitted, Stream, Serving, Unasked, Quiet, Keeps
<1>6. Still(new.in) BY <1>1, <1>2 DEF Transmitted, Still
<1>7. AllSent(new, host) BY <1>1, <1>2, <1>3, <1>4, <1>5, <1>6 DEF AllSent, Transmitted
<1>8. EndingShort(new, host) \/ AwaitingStatus(new, host)
  BY <1>1, <1>2, <1>7 DEF EndingShort, AwaitingStatus, Transmitted
<1>9. Keeps(new, dev) BY <1>2 DEF Transmitted
<1> QED BY <1>8, <1>9 DEF new

\* IEPINT.
LEMMA InStep ==
  ASSUME NEW dev, NEW host, IsDevice(dev), Known(dev, host), Phase(dev, host, "in")
  PROVE  Phase(HandleInEndpoint(dev), host, "reset") /\ Known(HandleInEndpoint(dev), host)
<1> DEFINE new == HandleInEndpoint(dev)
<1>1. ASSUME Keeps(new, dev), ~dev.usbrst, InTransfer(new, host, "reset")
      PROVE  Phase(new, host, "reset") /\ Known(new, host)
  <2> HIDE DEF new
  <2> QED BY <1>1 DEF Keeps, Known, Phase
<1>2. ASSUME new = dev, ~dev.usbrst, ToSend(dev, host)
      PROVE  Phase(new, host, "reset") /\ Known(new, host)
  <2> HIDE DEF new
  <2> QED BY <1>2 DEF Phase, InTransfer
<1>3. ASSUME ~dev.in.xfrc, ~dev.in.txfe PROVE new = dev
  BY <1>3, Zenon DEF HandleInEndpoint, TransmissionComplete
<1>4. CASE Resetting(dev, host)
  <2>1. new = dev BY <1>3, <1>4 DEF Resetting
  <2> HIDE DEF new
  <2>2. Phase(new, host, "reset") /\ Known(new, host) BY <1>4, <2>1 DEF Phase
  <2> QED BY <2>2 DEF new
<1>5. CASE ~dev.usbrst /\ ToSend(dev, host)
  <2>1. new = dev BY <1>3, <1>5 DEF ToSend, Sending
  <2> QED BY <1>2, <1>5, <2>1
<1>6. CASE ~dev.usbrst /\ ToLoad(dev, host)
  <2>1. ToSend(new, host) /\ Keeps(new, dev) BY <1>6, PacketIsLoaded
  <2> QED BY <1>1, <1>6, <2>1, Zenon DEF InTransfer
<1>7. CASE ~dev.usbrst /\ Acknowledged(dev, host)
  <2>1. dev.in.dataLeft \in Nat BY DEF IsDevice, IsIN, InRecord
  <2>2. CASE dev.in.dataLeft = 0
    <3>1. Keeps(new, dev) /\ (EndingShort(new, host) \/ AwaitingStatus(new, host))
      BY <1>7, <2>2, LastIsAcknowledged
    <3> QED BY <1>1, <1>7, <3>1, Zenon DEF InTransfer
  <2>3. CASE dev.in.dataLeft > 0
    <3>1. Keeps(new, dev) /\ ToLoad(new, host) BY <1>7, <2>3, NextPacketIsSet
    <3> QED BY <1>1, <1>7, <3>1, Zenon DEF InTransfer
  <2> QED BY <2>1, <2>2, <2>3
<1>8. CASE /\ ~dev.usbrst
           /\ \/ AtRest(dev, host) \/ InFifo(dev, host) \/ Refused(dev, host)
              \/ EndingShort(dev, host) \/ AwaitingStatus(dev, host)
              \/ Receiving(dev, host) \/ Arriving(dev, host) \/ Storing(dev, host)
              \/ AnsweringStatus(dev, host)
  <2>1. Still(dev.in)
    BY <1>8, Zenon DEF AtRest, InFifo, Waiting, Refused, EndingShort, AwaitingStatus, AllSent,
       Receiving, Arriving, Storing, Receptive, AnsweringStatus
  <2>2. Alike(new, dev) BY <2>1, NothingLoads
  <2>3. Keeps(new, dev) BY <2>2, Zenon DEF Alike
  <2>4. InTransfer(new, host, "reset")
    BY <1>8, <2>2, AlikePhase, Zenon DEF InTransfer
  <2> QED BY <1>1, <1>8, <2>3, <2>4
<1> QED BY <1>4, <1>5, <1>6, <1>7, <1>8, Zenon DEF Phase, InTransfer

\* USBRST.
LEMMA ResetStep ==
  ASSUME NEW dev, NEW host, IsDevice(dev), Known(dev, host), Phase(dev, host, "reset")
  PROVE  Phase(HandleReset(dev), host, "none") /\ Known(HandleReset(dev), host)
<1> DEFINE new == HandleReset(dev)
<1>1. CASE Resetting(dev, host)
  <2>1. Cleared(new, dev) BY <1>1, ResetIsHandled DEF Resetting
  <2> HIDE DEF new
  <2>2. AgreeBefore(new, host)
    BY <1>1, <2>1 DEF Resetting, Cleared, HasState, AgreeBefore, Agree
  <2>3. AtRest(new, host)
    BY <1>1, <2>1, <2>2 DEF Resetting, Cleared, AtRest, Still, Settled, Unasked
  <2>4. ~new.usbrst /\ Known(new, host) BY <2>1 DEF Cleared, Known
  <2> QED BY <2>3, <2>4 DEF Phase, InTransfer, new
<1>2. CASE ~dev.usbrst /\ InTransfer(dev, host, "reset")
  <2>1. new = dev BY <1>2, ResetIsHandled
  <2>2. Phase(dev, host, "none") BY <1>2, Zenon DEF Phase, InTransfer
  <2> QED BY <2>1, <2>2
<1> QED BY <1>1, <1>2 DEF Phase

\* A pass of the interrupt handler, branch by branch.
LEMMA HandleStep ==
  ASSUME IsDevice(d), Known(d, h), Phase(d, h, branch), Handle
  PROVE  Phase(d', h', branch') /\ Known(d', h')
<1>1. h' = h BY DEF Handle
<1>2. CASE branch = "none" /\ d' = ReadRxFifo(d) /\ branch' = "out" BY <1>1, <1>2, RxStep
<1>3. CASE branch = "out" /\ d' = HandleOutEndpoint(d) /\ branch' = "in"
  BY <1>1, <1>3, OutStep
<1>4. CASE branch = "in" /\ d' = HandleInEndpoint(d) /\ branch' = "reset"
  BY <1>1, <1>4, InStep
<1>5. CASE branch = "reset" /\ d' = HandleReset(d) /\ branch' = "none"
  BY <1>1, <1>5, ResetStep
<1> QED BY <1>2, <1>3, <1>4, <1>5, Zenon DEF Handle, USB_IRQ_Handler

----------------------------------------------------------------------------
(* The phases and the host.                                                 *)

LEMMA SetupStep ==
  ASSUME IsDevice(d), IsHost(h), Known(d, h), Phase(d, h, branch), HostSetup
  PROVE  Phase(d', h', branch') /\ Known(d', h')
<1>1. h.stage = "idle" /\ ~d.usbrst /\ branch' = branch BY DEF HostSetup
<1>2. AtRest(d, h)
  BY <1>1, Zenon DEF Phase, InTransfer, Resetting, InFifo, Fetched, Waiting, Refused, ToLoad,
     ToSend, Acknowledged, EndingShort, AwaitingStatus, Sending, Receiving, Arriving, Storing,
     AnsweringStatus
<1>3. PICK req \in Requests :
        /\ d' = [d EXCEPT !.setup = req, !.in.armed = FALSE, !.in.stall = FALSE,
                          !.out.armed = FALSE]
        /\ h' = [h EXCEPT !.req = req, !.got = <<>>, !.stalled = FALSE,
                   !.stage = IF req.wLength = 0 THEN "statusIn"
                             ELSE IF IsIn(req) THEN "dataIn" ELSE "dataOut"]
  BY Zenon DEF HostSetup
<1>4. SetupSent(d', d, req) BY <1>3, SetupIsSent
<1> DEFINE stage == IF req.wLength = 0 THEN "statusIn"
                    ELSE IF IsIn(req) THEN "dataIn" ELSE "dataOut"
<1>5. /\ h'.req = req /\ h'.got = <<>> /\ h'.stalled = FALSE /\ h'.stage = stage
      /\ h'.address = h.address /\ h'.config = h.config /\ h'.codings = h.codings
      /\ h'.lineState = h.lineState
  <2>1. h' = [h EXCEPT !.req = req, !.got = <<>>, !.stalled = FALSE, !.stage = stage] BY <1>3
  <2> HIDE DEF stage
  <2> QED BY <2>1 DEF IsHost
<1>6. InStage(h') /\ h'.stage \in {"dataIn", "dataOut", "statusIn"}
      /\ (h'.stage = "statusIn" => req.wLength = 0)
  <2>1. req.bRequest \in Operations /\ RequestFields(req) BY RequestIs
  <2>2. req.wLength # 0 /\ ~IsIn(req) => req.bRequest = "SET_LINE_CODING"
    BY <2>1 DEF Operations, RequestFields, IsIn
  <2> QED BY <1>5, <2>2 DEF InStage, ToHost
<1>7. AgreeBefore(d', h')
  BY <1>2, <1>4, <1>5 DEF AtRest, SetupSent, KeepsState, AgreeBefore, Agree
<1>8. Waiting(d', h')
  BY <1>2, <1>4, <1>5, <1>6, <1>7 DEF AtRest, SetupSent, Waiting, Still, Settled
<1>9. InFifo(d', h') /\ ~d'.usbrst
  BY <1>1, <1>2, <1>4, <1>5, <1>8 DEF InFifo, SetupSent, AtRest, Unasked
<1>10. Known(d', h') BY <1>4, <1>5 DEF Known, SetupSent
<1> QED BY <1>9, <1>10 DEF Phase, InTransfer

\* The last packet was full, and an empty one ends the data stage.
LEMMA GotIsSequence ==
  ASSUME NEW dev, NEW host, IsDevice(dev), Known(dev, host), AllSent(dev, host),
         host.stage \in {"dataIn", "statusOut"}
  PROVE  host.got \o <<>> = host.got
<1> DEFINE req == host.req
<1>1. /\ req \in Requests /\ IsIn(req) /\ ~RefusalExpected(host, req)
      /\ host.got \in ExpectedBy(host, dev, req)
  BY DEF AllSent, Serving, InStage, ToHost
<1>2. CASE req.bRequest = "GET_DESCRIPTOR"
  <2> DEFINE m == Content(dev, req)
             n == Wanted(dev, req)
  <2>1. descriptor(req) \in DOMAIN DescLen BY <1>1, <1>2 DEF RefusalExpected
  <2>2. m \in Seq(Bytes) /\ n \in Nat /\ n <= Len(m) /\ Len(m) \in Nat
    BY <1>1, <1>2, <2>1, ContentIs
  <2>3. host.got = SubSeq(m, 1, n)
    BY <1>1, <1>2 DEF ExpectedBy, Prefix, Wanted, Content, Source
  <2> HIDE DEF m, n
  <2>4. \A i \in 1 .. n : m[i] \in Bytes
    <3> SUFFICES ASSUME NEW i \in 1 .. n PROVE m[i] \in Bytes OBVIOUS
    <3>1. i \in 1 .. Len(m) BY <2>2
    <3> QED BY <2>2, <3>1, ElementOfSeq
  <2>5. SubSeq(m, 1, n) \in Seq(Bytes) BY <2>2, <2>4, SubSeqProperties
  <2> QED BY <2>3, <2>5, ConcatEmptySeq
<1>3. CASE req.bRequest = "GET_CONFIG"
  <2>1. host.got = <<host.config>> BY <1>1, <1>3 DEF ExpectedBy
  <2>2. host.got \in Seq({host.config}) BY <2>1
  <2> QED BY <2>2, ConcatEmptySeq
<1>4. CASE req.bRequest = "GET_LINE_CODING"
  <2>1. PICK v \in host.codings : host.got = Coding(v) BY <1>1, <1>4 DEF ExpectedBy
  <2>2. host.got \in Seq(LineCodings) BY <2>1, PacketOfCoding DEF Known
  <2> QED BY <2>2, ConcatEmptySeq
<1> QED BY <1>1, <1>2, <1>3, <1>4 DEF IsIn

\* The host reads a packet of data.
LEMMA PacketIsData ==
  ASSUME IsDevice(d), IsHost(h), ToSend(d, h), HostReadsData
  PROVE  /\ Acknowledged(d', h') /\ Keeps(d', d)
         /\ h'.codings = h.codings /\ h'.config = h.config /\ h'.address = h.address
<1> DEFINE m == Content(d, h.req)
           k == Len(h.got)
           n == d.in.size
           got == h.got \o Packet(d.in)
           over == Len(Packet(d.in)) < EP_MAX_PACKET \/ Len(got) >= h.req.wLength
           stage == IF over THEN "statusOut" ELSE "dataIn"
<1>1. /\ d' = [d EXCEPT !.in = Sent(@)]
      /\ h' = [h EXCEPT !.got = got, !.stage = stage]
  BY DEF HostReadsData
<1>2. OnlyIn(d', d, d'.in) /\ Read(d'.in, d.in) BY <1>1, InIsRead
<1>3. /\ h'.got = got /\ h'.stage = stage /\ h'.req = h.req /\ h'.stalled = h.stalled
      /\ h'.address = h.address /\ h'.config = h.config /\ h'.codings = h.codings
      /\ h'.lineState = h.lineState
  <2> HIDE DEF got, stage
  <2> QED BY <1>1 DEF IsHost
<1>4. /\ Stream(d, h, n) /\ h.stage = "dataIn" /\ n > 0 /\ ~d.in.txfe /\ d.in.left = 0
      /\ d.in.lastSent = n /\ d.in.fifo = SubSeq(m, k + 1, k + n)
      /\ d.in.dataLeft > 0 => n = EP_MAX_PACKET
      /\ d.in.dataLeft > 0 => d.in.off = k + n
  BY DEF ToSend, Sending
<1>5. n \in Nat /\ n <= EP_MAX_PACKET BY Sizes DEF IsDevice, IsIN, InRecord
<1>6. /\ m \in Seq(Bytes) /\ Len(m) \in Nat /\ Wanted(d, h.req) <= Len(m)
      /\ Wanted(d, h.req) <= h.req.wLength /\ h.req.wLength \in Nat
      /\ k \in Nat /\ d.in.dataLeft \in Nat /\ Wanted(d, h.req) \in Nat
      /\ k + n + d.in.dataLeft = Wanted(d, h.req) /\ h.got = SubSeq(m, 1, k)
  BY <1>4, <1>5, StreamContent DEF Stream
<1> HIDE DEF m, k, n, stage, got, over
<1>7. d.in.fifo \in Seq(Bytes) /\ Len(d.in.fifo) = n
      /\ SubSeq(m, 1, k) \o SubSeq(m, k + 1, k + n) = SubSeq(m, 1, k + n)
  <2> DEFINE j == k + n
  <2>1. j \in Nat /\ k <= j /\ j <= Len(m) /\ j - k = n BY <1>5, <1>6
  <2>2. d.in.fifo = SubSeq(m, k + 1, j) BY <1>4
  <2> HIDE DEF j
  <2>3. /\ SubSeq(m, k + 1, j) \in Seq(Bytes) /\ Len(SubSeq(m, k + 1, j)) = j - k
        /\ SubSeq(m, 1, k) \o SubSeq(m, k + 1, j) = SubSeq(m, 1, j)
    BY <1>6, <2>1, PieceOf
  <2>4. d.in.fifo \in Seq(Bytes) /\ Len(d.in.fifo) = n BY <2>1, <2>2, <2>3
  <2> QED BY <2>3, <2>4 DEF j
<1>8. Packet(d.in) = d.in.fifo
  <2>1. SubSeq(d.in.fifo, 1, n) = d.in.fifo BY <1>7, SubSeqFull
  <2> QED BY <2>1, Zenon DEF Packet, n
<1>9. got = SubSeq(m, 1, k + n) BY <1>4, <1>6, <1>7, <1>8 DEF got
<1>10. Len(got) = k + n
  <2>1. k + n \in Nat /\ 0 <= k + n /\ k + n <= Len(m) /\ k + n - 0 = k + n /\ 0 + 1 = 1
    BY <1>5, <1>6
  <2>2. Len(SubSeq(m, 0 + 1, k + n)) = k + n - 0 BY <1>6, <2>1, PieceOf
  <2> QED BY <1>9, <2>1, <2>2
<1>11. /\ stage \in {"dataIn", "statusOut"}
       /\ stage = "statusOut" => d.in.dataLeft = 0
       /\ stage = "dataIn" => d.in.dataLeft > 0 \/ n = EP_MAX_PACKET
  <2>1. over <=> n < EP_MAX_PACKET \/ k + n >= h.req.wLength BY <1>7, <1>8, <1>10 DEF over
  <2> DEFINE left == d.in.dataLeft
             w == h.req.wLength
  <2>2. /\ left \in Nat /\ w \in Nat /\ k + n + left <= w /\ k \in Nat
        /\ left > 0 => n = EP_MAX_PACKET
    BY <1>4, <1>6
  <2> HIDE DEF left, w
  <2>3. n < EP_MAX_PACKET \/ k + n >= w => left = 0 BY <1>5, <2>2, Sizes
  <2>4. over => d.in.dataLeft = 0 BY <2>1, <2>3 DEF left, w
  <2>5. ~over => n = EP_MAX_PACKET BY <1>5, <2>1, Sizes
  <2> QED BY <2>4, <2>5 DEF stage
<1>12. /\ ~d'.in.armed /\ d'.in.fifo = <<>> /\ d'.in.xfrc /\ d'.in.size = n
       /\ d'.in.data = d.in.data /\ d'.in.off = d.in.off /\ d'.in.left = 0
       /\ d'.in.lastSent = n /\ d'.in.handler = d.in.handler
       /\ d'.in.packetsLeft = d.in.packetsLeft /\ d'.in.dataLeft = d.in.dataLeft
       /\ ~d'.in.txfe /\ d'.in.stall = d.in.stall
  <2>1. SubSeq(d.in.fifo, n + 1, n) = <<>> BY <1>5, SubSeqEmpty
  <2>2. d'.in.fifo = SubSeq(d.in.fifo, n + 1, n) BY <1>2, <1>7 DEF Read, n
  <2>3. n # 0 BY <1>4, <1>5
  <2> QED BY <1>2, <1>4, <2>1, <2>2, <2>3, Zenon DEF Read, n
<1>13. Keeps(d', d) /\ KeepsState(d', d) /\ d'.out = d.out BY <1>2 DEF OnlyIn
<1>14. Stream(d', h', 0)
  <2>1. /\ Content(d', h'.req) = m /\ Wanted(d', h'.req) = Wanted(d, h.req)
        /\ ExpectedBy(h, d', h'.req) = ExpectedBy(h, d, h.req)
    BY <1>3, <1>13, SameContent DEF Keeps, KeepsState, m
  <2>2. ExpectedBy(h', d', h'.req) = ExpectedBy(h, d, h.req)
    BY <1>3, <2>1 DEF ExpectedBy
  <2>3. AgreeBefore(d', h')
    BY <1>3, <1>4, <1>13 DEF Stream, KeepsState, AgreeBefore, Agree
  <2>4. Serving(d', h')
    <3>1. Serving(d, h) BY <1>4 DEF Stream
    <3>2. InStage(h') BY <1>3, <1>4, <1>11, <3>1 DEF Serving, InStage
    <3>3. RefusalExpected(h', h'.req) = RefusalExpected(h, h.req) BY <1>3 DEF RefusalExpected
    <3> QED BY <1>3, <1>12, <1>13, <3>1, <3>2, <3>3 DEF Serving, Unasked, Keeps
  <2>5. Len(h'.got) = k + n /\ k + n \in Nat /\ h'.got = SubSeq(m, 1, k + n)
    BY <1>3, <1>5, <1>6, <1>9, <1>10
  <2>6. Len(h'.got) + 0 + d'.in.dataLeft = Wanted(d', h'.req)
    BY <1>5, <1>6, <1>12, <2>1, <2>5
  <2>7. SubSeq(m, 1, Wanted(d, h.req)) \in ExpectedBy(h, d, h.req) BY <1>4 DEF Stream, m
  <2> QED
    BY <1>3, <1>4, <1>12, <1>13, <2>1, <2>2, <2>3, <2>4, <2>5, <2>6, <2>7 DEF Stream
<1>15. Acknowledged(d', h')
  <2>1. d'.in.dataLeft > 0 => d'.in.off = Len(h'.got) BY <1>3, <1>4, <1>10, <1>12
  <2> QED BY <1>3, <1>11, <1>12, <1>14, <2>1 DEF Acknowledged
<1> QED BY <1>3, <1>13, <1>15

\* The host reads the empty packet that ends a data stage.
LEMMA EmptyPacketEnds ==
  ASSUME IsDevice(d), IsHost(h), Known(d, h), EndingShort(d, h), HostReadsData
  PROVE  /\ AwaitingStatus(d', h') /\ Keeps(d', d)
         /\ h'.codings = h.codings /\ h'.config = h.config /\ h'.address = h.address
<1>1. /\ AllSent(d, h) /\ h.stage = "dataIn" /\ d.in.size = 0 /\ Still(d.in)
  BY DEF EndingShort, AllSent
<1>2. Packet(d.in) = <<>> /\ Len(Packet(d.in)) = 0
  <2>1. SubSeq(d.in.fifo, 1, 0) = <<>> BY SubSeqEmpty
  <2> QED BY <1>1, <2>1 DEF Packet
<1>3. h.got \o Packet(d.in) = h.got BY <1>1, <1>2, GotIsSequence
<1>4. Len(Packet(d.in)) < EP_MAX_PACKET BY <1>2, Sizes
<1>5. /\ d' = [d EXCEPT !.in = Sent(@)]
      /\ h' = [h EXCEPT !.got = h.got, !.stage = "statusOut"]
  BY <1>3, <1>4 DEF HostReadsData
<1>6. OnlyIn(d', d, d'.in) /\ Read(d'.in, d.in) BY <1>5, InIsRead
<1>7. /\ h'.got = h.got /\ h'.stage = "statusOut" /\ h'.req = h.req /\ h'.stalled = h.stalled
      /\ h'.address = h.address /\ h'.config = h.config /\ h'.codings = h.codings
      /\ h'.lineState = h.lineState
  BY <1>5 DEF IsHost
<1>8. Still(d'.in) /\ d'.in.stall = d.in.stall
  <2>1. SubSeq(d.in.fifo, 0 + 1, 0) = <<>> BY SubSeqEmpty
  <2>2. Len(d.in.fifo) = 0 BY <1>1 DEF Still
  <2> QED BY <1>1, <1>6, <2>1, <2>2 DEF Read, Still
<1>9. Keeps(d', d) /\ KeepsState(d', d) /\ d'.out = d.out BY <1>6 DEF OnlyIn
<1>10. ExpectedBy(h', d', h'.req) = ExpectedBy(h, d, h.req)
  <2>1. ExpectedBy(h, d', h.req) = ExpectedBy(h, d, h.req)
    BY <1>9, SameContent DEF Keeps, KeepsState
  <2> QED BY <1>7, <2>1 DEF ExpectedBy
<1>11. AgreeBefore(d', h') BY <1>1, <1>7, <1>9 DEF AllSent, KeepsState, AgreeBefore, Agree
<1>12. Serving(d', h')
  <2>1. Serving(d, h) BY <1>1 DEF AllSent
  <2>2. InStage(h') BY <1>1, <1>7, <2>1 DEF Serving, InStage
  <2>3. RefusalExpected(h', h'.req) = RefusalExpected(h, h.req) BY <1>7 DEF RefusalExpected
  <2> QED BY <1>7, <1>8, <1>9, <2>1, <2>2, <2>3 DEF Serving, Unasked, Keeps
<1>13. AllSent(d', h') BY <1>1, <1>7, <1>8, <1>9, <1>10, <1>11, <1>12 DEF AllSent
<1> QED BY <1>7, <1>9, <1>13 DEF AwaitingStatus

LEMMA ReadsDataStep ==
  ASSUME IsDevice(d), IsHost(h), Known(d, h), Phase(d, h, branch), HostReadsData
  PROVE  Phase(d', h', branch') /\ Known(d', h')
<1>1. /\ h.stage = "dataIn" /\ d.in.armed /\ ~d.in.stall /\ Len(d.in.fifo) >= d.in.size
      /\ branch' = branch
  BY DEF HostReadsData, CanSend
<1>2. ~ToLoad(d, h)
  <2>1. SUFFICES ASSUME ToLoad(d, h) PROVE FALSE OBVIOUS
  <2>2. d.in.fifo = <<>> /\ d.in.size > 0 BY <2>1 DEF ToLoad, Sending
  <2>3. Len(d.in.fifo) = 0 /\ d.in.size \in Nat
    BY <2>2, Sizes DEF IsDevice, IsIN, InRecord
  <2> QED BY <1>1, <2>2, <2>3
<1>3. ~d.usbrst /\ (ToSend(d, h) \/ EndingShort(d, h))
  <2>1. "dataIn" # "idle" /\ "dataIn" # "statusIn" /\ "dataIn" # "statusOut"
        /\ "dataIn" # "dataOut"
    OBVIOUS
  <2> QED
    BY <1>1, <1>2, <2>1, Zenon DEF Phase, InTransfer, Resetting, AtRest, InFifo, Fetched, Waiting,
       Refused, Acknowledged, AwaitingStatus, Receiving, Arriving, Storing, AnsweringStatus
<1>4. /\ Acknowledged(d', h') \/ AwaitingStatus(d', h')
      /\ Keeps(d', d) /\ h'.codings = h.codings /\ h'.config = h.config /\ h'.address = h.address
  BY <1>3, PacketIsData, EmptyPacketEnds
<1>5. ~d'.usbrst /\ Known(d', h') BY <1>3, <1>4 DEF Keeps, Known
<1> QED BY <1>1, <1>4, <1>5 DEF Phase, InTransfer

LEMMA SendsDataStep ==
  ASSUME IsDevice(d), IsHost(h), Known(d, h), Phase(d, h, branch), HostSendsData
  PROVE  Phase(d', h', branch') /\ Known(d', h')
<1> DEFINE v == h.req.value
<1>1. /\ h.stage = "dataOut" /\ d.out.armed /\ branch' = branch
      /\ d' = [d EXCEPT !.out = Arrived(@, Coding(v))]
      /\ h' = [h EXCEPT !.stage = "statusIn", !.codings = @ \cup {v}]
  BY DEF HostSendsData, CanReceive
<1>2. ~d.usbrst /\ Receiving(d, h)
  <2>1. "dataOut" # "idle" /\ "dataOut" # "statusIn" /\ "dataOut" # "statusOut"
        /\ "dataOut" # "dataIn"
    OBVIOUS
  <2> QED
    BY <1>1, <2>1, Zenon DEF Phase, InTransfer, Resetting, AtRest, InFifo, Fetched, Waiting,
       Refused, ToLoad, ToSend, Sending, Acknowledged, EndingShort, AwaitingStatus, Arriving,
       Storing, AnsweringStatus
<1>3. Receptive(d, h) /\ ReadyToReceive(d.out) /\ h.req \in Requests
      /\ h.req.bRequest = "SET_LINE_CODING"
  BY <1>2 DEF Receiving, Receptive, InStage
<1>4. v \in LineCodings BY <1>3, RequestIs DEF RequestFields
<1>5. Coding(v) \in Seq(LineCodings) /\ Coding(v) # NoPacket BY <1>4, PacketOfCoding
<1>6. OnlyOut(d', d, d'.out) /\ Took(d'.out, d.out, Coding(v)) BY <1>1, <1>5, OutIsSent
<1> HIDE DEF v
<1>7. /\ h'.stage = "statusIn" /\ h'.codings = h.codings \cup {v} /\ h'.req = h.req
      /\ h'.got = h.got /\ h'.stalled = h.stalled /\ h'.address = h.address
      /\ h'.config = h.config /\ h'.lineState = h.lineState
  BY <1>1 DEF IsHost
<1>8. Keeps(d', d) /\ KeepsState(d', d) /\ d'.in = d.in BY <1>6 DEF OnlyOut
<1>9. AgreeBefore(d', h')
  BY <1>3, <1>7, <1>8 DEF Receptive, KeepsState, AgreeBefore, Agree
<1>10. InStage(h') BY <1>3, <1>7 DEF InStage, ToHost, IsIn
<1>11. RefusalExpected(h', h'.req) = RefusalExpected(h, h.req) BY <1>7 DEF RefusalExpected
<1>12. Receptive(d', h')
  BY <1>3, <1>7, <1>8, <1>9, <1>10, <1>11 DEF Receptive, Unasked, Keeps
<1>13. ReadyToReceive(d'.out) /\ ~d'.out.xfrc /\ d'.out.fifo = Coding(v)
  BY <1>3, <1>5, <1>6 DEF Took, ReadyToReceive
<1>14. Arriving(d', h') BY <1>7, <1>12, <1>13 DEF Arriving, v
<1>15. ~d'.usbrst /\ Known(d', h') BY <1>2, <1>4, <1>7, <1>8 DEF Keeps, Known
<1> QED BY <1>14, <1>15 DEF Phase, InTransfer

LEMMA ServedAsExpected ==
  ASSUME NEW host, IsHost(host), ~host.stalled, ~RefusalExpected(host, host.req)
  PROVE  host.stalled = RefusalExpected(host, host.req)
<1>1. host.stalled = FALSE BY DEF IsHost
<1> DEFINE refused == RefusalExpected(host, host.req)
<1>2. refused \in BOOLEAN BY DEF RefusalExpected
<1> HIDE DEF refused
<1>3. refused = FALSE BY <1>2 DEF refused
<1> QED BY <1>1, <1>3 DEF refused

\* The device acknowledges the request, and the host knows what it has set.
LEMMA ReadsStatusStep ==
  ASSUME IsDevice(d), IsHost(h), Known(d, h), Phase(d, h, branch), HostReadsStatus
  PROVE  Phase(d', h', branch') /\ Known(d', h')
<1> DEFINE b == h.req.bRequest
           v == h.req.value
<1>1. /\ h.stage = "statusIn" /\ d.in.armed /\ ~d.in.stall /\ branch' = branch
      /\ d' = [d EXCEPT !.in = Sent(@)]
  BY DEF HostReadsStatus, CanSend
<1>2. ~d.usbrst /\ AnsweringStatus(d, h)
  <2>1. "statusIn" # "idle" /\ "statusIn" # "dataOut" /\ "statusIn" # "statusOut"
        /\ "statusIn" # "dataIn"
    OBVIOUS
  <2>2. ~Acknowledged(d, h) BY <1>1, <2>1 DEF Acknowledged
  <2> QED
    BY <1>1, <2>1, <2>2, Zenon DEF Phase, InTransfer, Resetting, AtRest, InFifo, Fetched, Waiting,
       Refused, ToLoad, ToSend, Sending, EndingShort, AwaitingStatus, Receiving, Arriving,
       Storing, Receptive
<1>3. Serving(d, h) /\ AgreeAfter(d, h) /\ Still(d.in) /\ d.in.size = 0
      /\ (b = "SET_LINE_CODING" => d.lineCoding = Coding(v))
  BY <1>2 DEF AnsweringStatus
<1>4. h.req \in Requests /\ ~ToHost(h.req) /\ ~RefusalExpected(h, h.req) /\ ~h.stalled
  BY <1>1, <1>3 DEF Serving, InStage
<1>5. b \in Operations /\ RequestFields(h.req) BY <1>4, RequestIs
<1>6. Learned(h', h) BY StatusTells
<1>7. OnlyIn(d', d, d'.in) /\ Read(d'.in, d.in) BY <1>1, InIsRead
<1>8. Keeps(d', d) /\ KeepsState(d', d) /\ d'.out = d.out BY <1>7 DEF OnlyIn
<1>9. Still(d'.in)
  <2>1. SubSeq(d.in.fifo, 0 + 1, 0) = <<>> BY SubSeqEmpty
  <2>2. Len(d.in.fifo) = 0 BY <1>3 DEF Still
  <2> QED BY <1>3, <1>7, <2>1, <2>2 DEF Read, Still
<1>10. AgreeBefore(d', h')
  BY <1>3, <1>6, <1>8 DEF Learned, AgreeBefore, AgreeAfter, Agree, KeepsState
<1>11. ~RefusalExpected(h', h'.req)
  <2>1. b # "GET_CONFIG" BY <1>4, <1>5 DEF ToHost, IsIn, RequestFields
  <2> QED BY <1>4, <1>6, <2>1 DEF Learned, RefusalExpected
<1>12. AtRest(d', h')
  <2>1. h'.stalled = RefusalExpected(h', h'.req)
    BY <1>4, <1>6, <1>11, ServedAsExpected DEF Learned
  <2> QED
    BY <1>3, <1>6, <1>8, <1>9, <1>10, <2>1
       DEF AtRest, Learned, Serving, Settled, Quiet, Unasked, Keeps
<1>13. Known(d', h')
  <2>1. h'.codings \subseteq LineCodings /\ \E c \in h'.codings : d'.lineCoding = Coding(c)
    <3>1. CASE b = "SET_LINE_CODING"
      <4>1. v \in LineCodings BY <1>5, <3>1 DEF RequestFields
      <4>2. h'.codings = {v} BY <1>6, <3>1 DEF Learned
      <4>3. d'.lineCoding = Coding(v) BY <1>3, <1>8, <3>1 DEF Keeps
      <4> QED BY <4>1, <4>2, <4>3
    <3>2. CASE b # "SET_LINE_CODING"
      <4>1. h'.codings = h.codings BY <1>6, <3>2 DEF Learned
      <4>2. d'.lineCoding = d.lineCoding BY <1>8 DEF Keeps
      <4> QED BY <4>1, <4>2 DEF Known
    <3> QED BY <3>1, <3>2
  <2>2. h'.config \in {0, 1} /\ (h'.config # 0 => h'.address # 0)
    BY <1>4, <1>6 DEF Learned, Known, RefusalExpected
  <2> QED BY <2>1, <2>2 DEF Known
<1>14. ~d'.usbrst BY <1>2, <1>8 DEF Keeps
<1> QED BY <1>12, <1>13, <1>14 DEF Phase, InTransfer

LEMMA SendsStatusStep ==
  ASSUME IsDevice(d), IsHost(h), Known(d, h), Phase(d, h, branch), HostSendsStatus
  PROVE  Phase(d', h', branch') /\ Known(d', h')
<1>1. /\ h.stage = "statusOut" /\ d.out.armed /\ branch' = branch
      /\ d' = [d EXCEPT !.out = Arrived(@, NoPacket)]
      /\ h' = [h EXCEPT !.stage = "idle", !.got = <<>>]
  BY DEF HostSendsStatus, CanReceive
<1>2. ~d.usbrst /\ AwaitingStatus(d, h)
  <2>1. "statusOut" # "idle" /\ "statusOut" # "dataOut" /\ "statusOut" # "statusIn"
        /\ "statusOut" # "dataIn"
    OBVIOUS
  <2>2. ~Refused(d, h) /\ ~InFifo(d, h) /\ ~Fetched(d, h)
    BY <1>1 DEF Refused, InFifo, Fetched, Waiting
  <2> QED
    BY <1>1, <2>1, <2>2, Zenon DEF Phase, InTransfer, Resetting, AtRest,
       ToLoad, ToSend, Sending, Acknowledged, Stream, EndingShort, Receiving, Arriving,
       Storing, AnsweringStatus
<1>3. /\ Serving(d, h) /\ AgreeBefore(d, h) /\ Still(d.in) /\ d.out.handler = NULL
  BY <1>2 DEF AwaitingStatus, AllSent
<1>4. NoPacket \in Seq(LineCodings) BY DEF NoPacket
<1>5. OnlyOut(d', d, d'.out) /\ Took(d'.out, d.out, NoPacket) BY <1>1, <1>4, OutIsSent
<1>6. /\ h'.stage = "idle" /\ h'.codings = h.codings /\ h'.req = h.req
      /\ h'.stalled = h.stalled /\ h'.address = h.address
      /\ h'.config = h.config /\ h'.lineState = h.lineState
  BY <1>1 DEF IsHost
<1>7. Keeps(d', d) /\ KeepsState(d', d) /\ d'.in = d.in BY <1>5 DEF OnlyOut
<1>8. AgreeBefore(d', h') BY <1>3, <1>6, <1>7 DEF KeepsState, AgreeBefore, Agree
<1>9. h'.stalled = RefusalExpected(h', h'.req)
  <2>1. IsHost(h') BY <1>1 DEF IsHost, Stages
  <2>2. ~h'.stalled /\ ~RefusalExpected(h', h'.req)
    BY <1>3, <1>6 DEF Serving, RefusalExpected
  <2> QED BY <2>1, <2>2, ServedAsExpected
<1>10. AtRest(d', h')
  BY <1>3, <1>5, <1>6, <1>7, <1>8, <1>9 DEF AtRest, Serving, Settled, Unasked, Keeps, Took
<1>11. ~d'.usbrst /\ Known(d', h') BY <1>2, <1>6, <1>7 DEF Keeps, Known
<1> QED BY <1>10, <1>11 DEF Phase, InTransfer

LEMMA StallStep ==
  ASSUME IsDevice(d), IsHost(h), Known(d, h), Phase(d, h, branch), HostSeesStall,
         branch' = branch
  PROVE  Phase(d', h', branch') /\ Known(d', h')
<1>1. /\ h.stage \in {"dataIn", "statusIn"} /\ d.in.stall /\ d' = d
      /\ h' = [h EXCEPT !.stage = "idle", !.stalled = TRUE]
  BY DEF HostSeesStall
<1>2. ~d.usbrst /\ Refused(d, h)
  <2>1. h.stage # "idle" BY <1>1
  <2> QED
    BY <1>1, <2>1, Zenon DEF Phase, InTransfer, Resetting, AtRest, InFifo, Fetched, Waiting,
       ToLoad, ToSend, Sending, Acknowledged, Stream, Serving, EndingShort, AwaitingStatus,
       AllSent, Receiving, Arriving, Storing, Receptive, AnsweringStatus
<1>3. /\ h'.stage = "idle" /\ h'.codings = h.codings /\ h'.req = h.req
      /\ h'.stalled = TRUE /\ h'.address = h.address
      /\ h'.config = h.config /\ h'.lineState = h.lineState
  BY <1>1 DEF IsHost
<1>4. AgreeBefore(d', h') /\ RefusalExpected(h', h'.req) = TRUE
  BY <1>1, <1>2, <1>3 DEF Refused, AgreeBefore, Agree, RefusalExpected
<1>5. AtRest(d', h')
  BY <1>1, <1>2, <1>3, <1>4 DEF AtRest, Refused, Settled, Quiet
<1>6. Known(d', h') BY <1>1, <1>3 DEF Known
<1> QED BY <1>1, <1>2, <1>5, <1>6 DEF Phase, InTransfer

\* A reset that finds the interrupt handler at rest and no interrupt pending.
LEMMA ResetsStep ==
  ASSUME ~ResetWhenBusy, IsDevice(d), IsHost(h), Known(d, h), Phase(d, h, branch), HostResets
  PROVE  Phase(d', h', branch') /\ Known(d', h')
<1> DEFINE unsure == h.stage = "statusIn" /\ h.req.bRequest = "SET_CONTROL_LINE_STATE"
           s == IF unsure THEN NULL ELSE h.lineState
<1>1. /\ ~d.usbrst /\ ~Pending(d) /\ d' = [d EXCEPT !.usbrst = TRUE]
      /\ h' = IdleHost(h.codings, s)
  BY DEF HostResets
<1>2. /\ h'.stage = "idle" /\ h'.req = NULL /\ h'.address = 0 /\ h'.config = 0
      /\ h'.codings = h.codings /\ h'.lineState = s
  BY <1>1 DEF IdleHost
<1>3. /\ d'.usbrst /\ d'.in = d.in /\ d'.out = d.out /\ d'.setup = d.setup
      /\ d'.stup = d.stup /\ d'.lineCoding = d.lineCoding
      /\ d'.controlLineState = d.controlLineState
  BY <1>1 DEF IsDevice
<1>4. /\ ~d.in.xfrc /\ ~d.in.txfe /\ Quiet(d.out) /\ Unasked(d)
  BY <1>1 DEF Pending, Quiet, Unasked
<1>5. InTransfer(d, h, branch) BY <1>1 DEF Phase, Resetting
<1>6. d.in.left = 0
  BY <1>4, <1>5, Zenon DEF InTransfer, AtRest, InFifo, Fetched, Waiting, Refused, ToLoad, ToSend,
     Acknowledged, EndingShort, AwaitingStatus, AllSent, Receiving, Arriving, Storing, Receptive,
     AnsweringStatus, Still
<1>7. s # NULL => d.controlLineState = s
  <2>1. CASE AnsweringStatus(d, h)
    BY <2>1 DEF AnsweringStatus, AgreeAfter, Agree
  <2>2. CASE ~AnsweringStatus(d, h)
    <3>1. AgreeBefore(d, h)
      BY <1>5, <2>2, Zenon DEF InTransfer, AtRest, InFifo, Fetched, Waiting, Refused, ToLoad,
         ToSend, Sending, Acknowledged, Stream, EndingShort, AwaitingStatus, AllSent, Receiving,
         Arriving, Storing, Receptive
    <3> QED BY <3>1 DEF AgreeBefore, Agree
  <2> QED BY <2>1, <2>2
<1> HIDE DEF s
<1>8. Resetting(d', h')
  BY <1>2, <1>3, <1>4, <1>6, <1>7 DEF Resetting, Quiet, Unasked
<1>9. Known(d', h') BY <1>2, <1>3 DEF Known
<1> QED BY <1>8, <1>9 DEF Phase

----------------------------------------------------------------------------
(* The invariant and what it implies.                                       *)

LEMMA InitInv == Init => Inv
<1> SUFFICES ASSUME Init PROVE Inv OBVIOUS
<1>1. PICK v \in LineCodings, s \in LineStates :
        /\ d = [connState |-> "DEFAULT", address |-> 0, lastRequest |-> NULL,
                confNum |-> 0, lineCoding |-> Coding(v), controlLineState |-> s,
                in |-> IdleIn, out |-> IdleOut,
                setup |-> NULL, stup |-> FALSE, usbrst |-> FALSE]
        /\ h = IdleHost({v}, s)
  BY DEF Init
<1>2. /\ d.in = IdleIn /\ d.out = IdleOut /\ d.setup = NULL /\ ~d.stup /\ ~d.usbrst
      /\ d.lineCoding = Coding(v) /\ HasState(d, "DEFAULT", 0, 0, s)
  BY <1>1 DEF HasState
<1>3. /\ h.stage = "idle" /\ h.req = NULL /\ h.address = 0 /\ h.config = 0
      /\ h.codings = {v} /\ h.lineState = s
  BY <1>1 DEF IdleHost
<1>4. Still(IdleIn) /\ Settled(IdleOut) BY DEF Still, Settled, IdleIn, IdleOut
<1>5. AgreeBefore(d, h) BY <1>2, <1>3 DEF HasState, AgreeBefore, Agree
<1>6. AtRest(d, h) BY <1>2, <1>3, <1>4, <1>5 DEF AtRest, Unasked
<1>7. Known(d, h) BY <1>2, <1>3 DEF Known
<1> QED BY <1>2, <1>6, <1>7, InitType DEF Inv, Phase, InTransfer

LEMMA NextInv == ~ResetWhenBusy /\ Inv /\ [Next]_vars => Inv'
<1> SUFFICES ASSUME ~ResetWhenBusy, Inv, [Next]_vars PROVE Inv' OBVIOUS
<1>1. TypeInv' BY NextType DEF Inv
<1>2. IsDevice(d) /\ IsHost(h) /\ Phase(d, h, branch) /\ Known(d, h) BY DEF Inv, TypeInv
<1>3. Phase(d', h', branch') /\ Known(d', h')
  <2>1. CASE Handle BY <1>2, <2>1, HandleStep
  <2>2. CASE HostSetup BY <1>2, <2>2, SetupStep
  <2>3. CASE HostReadsData BY <1>2, <2>3, ReadsDataStep
  <2>4. CASE HostSendsData BY <1>2, <2>4, SendsDataStep
  <2>5. CASE HostReadsStatus BY <1>2, <2>5, ReadsStatusStep
  <2>6. CASE HostSendsStatus BY <1>2, <2>6, SendsStatusStep
  <2>7. CASE HostSeesStall BY <1>2, <2>7, StallStep DEF HostSeesStall
  <2>8. CASE HostResets BY <1>2, <2>8, ResetsStep
  <2>9. CASE UNCHANGED vars BY <1>2, <2>9 DEF vars
  <2> QED
    BY <2>1, <2>2, <2>3, <2>4, <2>5, <2>6, <2>7, <2>8, <2>9, Zenon DEF Next, HostPolls
<1> QED BY <1>1, <1>3 DEF Inv

LEMMA InvExact == Inv => DataStageExact
<1> SUFFICES ASSUME Inv, h.stage = "statusOut" PROVE h.got \in Expected(h.req)
  BY DEF DataStageExact
<1>1. IsDevice(d) /\ Phase(d, h, branch) BY DEF Inv, TypeInv
<1>2. Acknowledged(d, h) \/ AwaitingStatus(d, h)
  <2>1. "statusOut" # "idle" /\ "statusOut" # "dataOut" /\ "statusOut" # "statusIn"
        /\ "statusOut" # "dataIn"
    OBVIOUS
  <2>2. ~Refused(d, h) /\ ~InFifo(d, h) /\ ~Fetched(d, h)
    BY DEF Refused, InFifo, Fetched, Waiting
  <2> QED
    BY <1>1, <2>1, <2>2, Zenon DEF Phase, InTransfer, Resetting, AtRest, ToLoad, ToSend, Sending,
       EndingShort, Receiving, Arriving, Storing, AnsweringStatus
<1>3. CASE AwaitingStatus(d, h)
  <2>1. h.got \in ExpectedBy(h, d, h.req) BY <1>3 DEF AwaitingStatus, AllSent
  <2> QED BY <2>1, Zenon DEF ExpectedBy, Expected
<1>4. CASE Acknowledged(d, h)
  <2>1. Stream(d, h, 0) /\ d.in.dataLeft = 0 BY <1>4 DEF Acknowledged
  <2>2. Len(h.got) \in Nat /\ Len(h.got) + 0 + 0 = Wanted(d, h.req) BY <2>1 DEF Stream
  <2>3. Len(h.got) = Wanted(d, h.req) BY <2>2
  <2>4. h.got \in ExpectedBy(h, d, h.req) BY <2>1, <2>3, Zenon DEF Stream
  <2> QED BY <2>4, Zenon DEF ExpectedBy, Expected
<1> QED BY <1>2, <1>3, <1>4

\* Where a host that waits for nothing may find the device.
LEMMA IdlePhases ==
  ASSUME Inv, h.stage = "idle" PROVE Resetting(d, h) \/ (~d.usbrst /\ AtRest(d, h))
<1>1. Phase(d, h, branch) BY DEF Inv
<1> QED
  BY <1>1, Zenon DEF Phase, InTransfer, InFifo, Fetched, Waiting, Refused, ToLoad, ToSend, Sending,
     Acknowledged, EndingShort, AwaitingStatus, Receiving, Arriving, Storing, AnsweringStatus

LEMMA InvViews == Inv => ViewsAgree
<1> SUFFICES ASSUME Inv, h.stage = "idle", ~d.usbrst PROVE AgreeBefore(d, h)
  BY DEF ViewsAgree, AgreeBefore, Agree
<1> QED BY IdlePhases DEF Resetting, AtRest

LEMMA InvRefused == Inv => RefusedAsExpected
<1> SUFFICES ASSUME Inv, h.stage = "idle", h.req # NULL PROVE h.stalled = MayStall(h.req)
  BY DEF RefusedAsExpected
<1>1. AtRest(d, h) BY IdlePhases DEF Resetting
<1>2. h.stalled = RefusalExpected(h, h.req) BY <1>1 DEF AtRest
<1> QED BY <1>2, Zenon DEF RefusalExpected, MayStall

\* The bytes of every data stage, whatever the descriptors, the sizes of packets
\* and words and the lengths asked for, when resets find the handler at rest.
THEOREM DataExact == ASSUME ~ResetWhenBusy PROVE Spec => []DataStageExact
<1>1. Init => Inv BY InitInv
<1>2. Inv /\ [Next]_vars => Inv' BY NextInv
<1>3. Inv => DataStageExact BY InvExact
<1> QED BY <1>1, <1>2, <1>3, PTL DEF Spec

\* Host and device agree on what requests have set, between transfers.
THEOREM Agreement == ASSUME ~ResetWhenBusy PROVE Spec => []ViewsAgree
<1>1. Init => Inv BY InitInv
<1>2. Inv /\ [Next]_vars => Inv' BY NextInv
<1>3. Inv => ViewsAgree BY InvViews
<1> QED BY <1>1, <1>2, <1>3, PTL DEF Spec

\* The requests that are refused are those that the host expects to be.
THEOREM Refusals == ASSUME ~ResetWhenBusy PROVE Spec => []RefusedAsExpected
<1>1. Init => Inv BY InitInv
<1>2. Inv /\ [Next]_vars => Inv' BY NextInv
<1>3. Inv => RefusedAsExpected BY InvRefused
<1> QED BY <1>1, <1>2, <1>3, PTL DEF Spec
==============================================================================
