------------------------------- MODULE UsbDevice -------------------------------
(***************************************************************************)
(* Control transfers of endpoint 0: USB_IRQ_Handler of usb.c, the standard  *)
(* requests of usb_stdreq.c and the class requests of usb_vcp.c, with a     *)
(* host that follows the protocol but asks for anything in any order, and   *)
(* may reset the bus in the middle of a transfer.                           *)
(*                                                                         *)
(* A pass of the handler is a sequence of branches, each a step; the core   *)
(* and the host go on between them. Each branch is an operator on the       *)
(* device record d, as the code is a function on its variables:             *)
(*   connState, address     connState, DCFG.DAD                             *)
(*   lastRequest            the request to be handled (it is not read again)*)
(*   confNum, lineCoding, controlLineState    what the requests get and set *)
(*   in, out                endpoint 0 (see UsbEndpoints)                   *)
(*   setup, stup, usbrst    SETUP packet in the RX FIFO, its interrupt, and *)
(*                          the interrupt of a bus reset                    *)
(* The host record h: stage of the transfer, the request, the data got,     *)
(* whether it stalled, and what the host knows of the device.               *)
(***************************************************************************)
EXTENDS UsbEndpoints

CONSTANTS
  DescLen,          \* length of each descriptor, a function of <<type, index>>
  Addresses,        \* addresses a host assigns; 0 means none
  WLengths,         \* wLength of the requests for descriptors
  LineCodings,      \* values of the line coding
  LineStates,       \* values of the control line state
  LINE_CODING_LEN,  \* sizeof(LineCoding_t)
  ResetWhenBusy     \* is a reset signalled while an interrupt is being handled
                    \* or waits to be?

VARIABLES d, h, branch

vars == <<d, h, branch>>

ASSUME DeviceAssumption ==
  /\ ENDPOINT = 0
  /\ \A t \in DOMAIN DescLen : DescLen[t] \in Nat \ {0}
  /\ Addresses \subseteq 0 .. 127 /\ WLengths \subseteq Nat
  /\ LINE_CODING_LEN \in 1 .. EP_MAX_PACKET
  /\ ResetWhenBusy \in BOOLEAN

Coding(v) == [i \in 1 .. LINE_CODING_LEN |-> v]

lineCoding == <<"lineCoding", 0>>
confNum == <<"confNum", 0>>

\* What a pointer of a transfer points to.
Memory(dev, buf) ==
  IF buf = NULL THEN <<>>
  ELSE IF buf = lineCoding THEN dev.lineCoding
  ELSE IF buf = confNum THEN <<dev.confNum>>
  ELSE [i \in 1 .. DescLen[buf] |-> <<buf, i>>]

\* type and value: the high and the low byte of wValue.
Request(b, t, v, n) == [bRequest |-> b, type |-> t, value |-> v, wLength |-> n]
descriptor(req) == <<req.type, req.value>>

Descriptors == DOMAIN DescLen \cup {<<"DEVQUALIFIER", 0>>, <<"STRING", 99>>}

DescriptorRequests ==
  {Request("GET_DESCRIPTOR", t[1], t[2], n) : t \in Descriptors, n \in WLengths}

Requests ==
  {Request("SET_ADDRESS", "", a, 0) : a \in Addresses}
  \cup DescriptorRequests
  \cup {Request("GET_CONFIG", "", 0, 1)}
  \cup {Request("SET_CONFIG", "", c, 0) : c \in 0 .. 2}
  \cup {Request("SET_LINE_CODING", "", v, LINE_CODING_LEN) : v \in LineCodings}
  \cup {Request("GET_LINE_CODING", "", 0, LINE_CODING_LEN)}
  \cup {Request("SET_CONTROL_LINE_STATE", "", v, 0) : v \in LineStates}

\* NULL is no buffer, function or request, and no two buffers are one.
ASSUME NullAssumption ==
  /\ NULL \notin DOMAIN DescLen \cup {lineCoding, confNum} \cup Requests
  /\ NULL \notin {"StateStageIn", "StateStageOut"}
  /\ lineCoding \notin DOMAIN DescLen /\ confNum \notin DOMAIN DescLen

\* codings: the values the line coding may have; lineState: NULL if unknown.
IdleHost(codings, lineState) ==
  [stage |-> "idle", req |-> NULL, got |-> <<>>, stalled |-> FALSE,
   address |-> 0, config |-> 0, codings |-> codings, lineState |-> lineState]

Init ==
  /\ \E v \in LineCodings, s \in LineStates :
       /\ d = [connState |-> "DEFAULT", address |-> 0, lastRequest |-> NULL,
               confNum |-> 0, lineCoding |-> Coding(v), controlLineState |-> s,
               in |-> IdleIn, out |-> IdleOut,
               setup |-> NULL, stup |-> FALSE, usbrst |-> FALSE]
       /\ h = IdleHost({v}, s)
  /\ branch = "none"

----------------------------------------------------------------------------
(* The requests.                                                           *)

StateStageIn(dev) == [dev EXCEPT !.in = InitiateTransfer(dev.in, NULL, 0, NULL)]
StateStageOut(dev) == [dev EXCEPT !.out = InitiateReception(dev.out, NULL, 0, NULL)]
StallEP(dev) == [dev EXCEPT !.in.stall = TRUE]

Answer(dev, buf, len) ==
  [dev EXCEPT !.in = InitiateTransfer(dev.in, buf, len, "StateStageOut")]

\* The address is set with the SETUP stage; the core answers to the old one
\* until the transfer is over.
HandleSetAddress(dev, req) ==
  IF dev.connState = "CONFIGURED" THEN StallEP(dev)
  ELSE [StateStageIn(dev) EXCEPT
          !.address = req.value,
          !.connState = IF req.value = 0 THEN "DEFAULT" ELSE "ADDRESS"]

HandleGetDescriptor(dev, req) ==
  IF descriptor(req) \in DOMAIN DescLen
  THEN Answer(dev, descriptor(req), Least(req.wLength, DescLen[descriptor(req)]))
  ELSE StallEP(dev)

\* Mutant: answered only when configured.
OnlyConfigured(dev, req) ==
  IF dev.connState # "CONFIGURED" THEN StallEP(dev)
  ELSE Answer([dev EXCEPT !.confNum = 1], confNum, 1)

HandleGetConfiguration(dev, req) ==
  IF dev.connState = "DEFAULT" THEN StallEP(dev)
  ELSE Answer([dev EXCEPT !.confNum = IF dev.connState = "CONFIGURED" THEN 1 ELSE 0],
              confNum, 1)

\* (What ConfigFinishedHandler does with endpoint 2 is in UsbVcp.)
HandleSetConfiguration(dev, req) ==
  IF dev.connState = "DEFAULT" \/ req.value \notin {0, 1} THEN StallEP(dev)
  ELSE [StateStageIn(dev) EXCEPT
          !.connState = IF req.value = 0 THEN "ADDRESS" ELSE "CONFIGURED"]

HandleOtherRequests(dev, req) ==
  CASE req.bRequest = "SET_LINE_CODING" ->
         [dev EXCEPT !.out = InitiateReception(dev.out, lineCoding, LINE_CODING_LEN,
                                               "StateStageIn")]
    [] req.bRequest = "GET_LINE_CODING" -> Answer(dev, lineCoding, LINE_CODING_LEN)
    [] req.bRequest = "SET_CONTROL_LINE_STATE" ->
         StateStageIn([dev EXCEPT !.controlLineState = req.value])

HandleStandardRequest(dev, req) ==
  CASE req.bRequest = "SET_ADDRESS"    -> HandleSetAddress(dev, req)
    [] req.bRequest = "GET_DESCRIPTOR" -> HandleGetDescriptor(dev, req)
    [] req.bRequest = "GET_CONFIG"     -> HandleGetConfiguration(dev, req)
    [] req.bRequest = "SET_CONFIG"     -> HandleSetConfiguration(dev, req)
    [] OTHER                           -> HandleOtherRequests(dev, req)

----------------------------------------------------------------------------
(* The branches of the interrupt handler.                                  *)

\* RXFLVL: one packet, of data or SETUP.
ReadRxFifo(dev) ==
  IF dev.out.fifo # NoPacket
  THEN LET R == PacketRead(dev.out) IN
       [dev EXCEPT !.out = R,
          !.lineCoding = IF dev.out.data # lineCoding THEN @
                         ELSE [i \in DOMAIN @ |->
                                 IF i \in dev.out.off + 1 .. R.off
                                 THEN dev.out.fifo[i - dev.out.off] ELSE @[i]]]
  ELSE IF dev.setup # NULL
  THEN [dev EXCEPT !.lastRequest = dev.setup, !.setup = NULL, !.stup = TRUE]
  ELSE dev

\* OEPINT: XFRC, with the handler of the transfer, and then STUP.
ReceptionComplete(dev) ==
  IF ~dev.out.xfrc THEN dev
  ELSE LET after == [dev EXCEPT !.out = ReceptionEnded(dev.out)]
       IN IF dev.out.handler = "StateStageIn" THEN StateStageIn(after) ELSE after

SetupDone(dev) ==
  IF dev.stup
  THEN HandleStandardRequest([dev EXCEPT !.stup = FALSE, !.lastRequest = NULL], dev.lastRequest)
  ELSE dev

HandleOutEndpoint(dev) == SetupDone(ReceptionComplete(dev))

\* IEPINT: XFRC, and then TXFE if it was up when the branch began.
TransmissionComplete(dev) ==
  IF ~dev.in.xfrc THEN dev
  ELSE IF dev.in.packetsLeft > 0 THEN [dev EXCEPT !.in = NextPacket(dev.in)]
  ELSE LET ended == [dev EXCEPT !.in = TransferEnded(dev.in)]
           after == IF dev.in.handler = "StateStageOut" THEN StateStageOut(ended) ELSE ended
       IN [after EXCEPT !.in = ZlpIfFull(after.in)]

HandleInEndpoint(dev) ==
  LET after == TransmissionComplete(dev)
  IN IF dev.in.txfe THEN [after EXCEPT !.in = LoadDataIntoTxBuf(@, Memory(after, @.data))]
     ELSE after

\* Mutant: the address stays.
KeepsAddress(dev) ==
  IF ~dev.usbrst THEN dev
  ELSE [dev EXCEPT !.in = InAfterReset(@), !.out = OutAfterReset(@),
                   !.setup = NULL, !.stup = FALSE, !.lastRequest = NULL, !.usbrst = FALSE,
                   !.connState = "DEFAULT"]

HandleReset(dev) ==
  IF ~dev.usbrst THEN dev
  ELSE [dev EXCEPT !.in = InAfterReset(@), !.out = OutAfterReset(@),
                   !.setup = NULL, !.stup = FALSE, !.lastRequest = NULL, !.usbrst = FALSE,
                   !.address = 0, !.connState = "DEFAULT"]

Pending(dev) ==
  \/ dev.out.fifo # NoPacket \/ dev.setup # NULL
  \/ dev.out.xfrc \/ dev.stup \/ dev.in.xfrc \/ dev.in.txfe \/ dev.usbrst

\* A pass: the branches in the order of the code. The first two see what was
\* there when the interrupt was taken, at the earliest.
USB_IRQ_Handler ==
  \/ branch = "none" /\ Pending(d) /\ d' = ReadRxFifo(d) /\ branch' = "out"
  \/ branch = "out" /\ d' = HandleOutEndpoint(d) /\ branch' = "in"
  \/ branch = "in" /\ d' = HandleInEndpoint(d) /\ branch' = "reset"
  \/ branch = "reset" /\ d' = HandleReset(d) /\ branch' = "none"

Handle == USB_IRQ_Handler /\ UNCHANGED h

----------------------------------------------------------------------------
(* The host, and what the core does for it.                                *)

IsIn(req) == req.bRequest \in {"GET_DESCRIPTOR", "GET_CONFIG", "GET_LINE_CODING"}

\* A SETUP packet is accepted always. It ends a stall, and both directions
\* NAK until the request is handled.
HostSetup ==
  /\ h.stage = "idle" /\ ~d.usbrst
  /\ \E req \in Requests :
       /\ d' = [d EXCEPT !.setup = req, !.in.armed = FALSE, !.in.stall = FALSE,
                         !.out.armed = FALSE]
       /\ h' = [h EXCEPT !.req = req, !.got = <<>>, !.stalled = FALSE,
                  !.stage = IF req.wLength = 0 THEN "statusIn"
                            ELSE IF IsIn(req) THEN "dataIn" ELSE "dataOut"]
  /\ UNCHANGED branch

\* The data stage is over when as much as was asked for has come, or a packet
\* that is not full.
HostReadsData ==
  /\ h.stage = "dataIn" /\ CanSend(d.in)
  /\ LET got == h.got \o Packet(d.in)
         over == Len(Packet(d.in)) < EP_MAX_PACKET \/ Len(got) >= h.req.wLength
     IN h' = [h EXCEPT !.got = got, !.stage = IF over THEN "statusOut" ELSE "dataIn"]
  /\ d' = [d EXCEPT !.in = Sent(@)]
  /\ UNCHANGED branch

HostSendsData ==
  /\ h.stage = "dataOut" /\ CanReceive(d.out, Coding(h.req.value))
  /\ d' = [d EXCEPT !.out = Arrived(@, Coding(h.req.value))]
  /\ h' = [h EXCEPT !.stage = "statusIn", !.codings = @ \cup {h.req.value}]
  /\ UNCHANGED branch

\* The status stage: what the request has set is known to be set.
HostReadsStatus ==
  /\ h.stage = "statusIn" /\ CanSend(d.in) /\ Packet(d.in) = NoPacket
  /\ d' = [d EXCEPT !.in = Sent(@)]
  /\ h' = LET done == [h EXCEPT !.stage = "idle"]
              v == h.req.value
          IN CASE h.req.bRequest = "SET_ADDRESS" -> [done EXCEPT !.address = v]
               [] h.req.bRequest = "SET_CONFIG" -> [done EXCEPT !.config = v]
               [] h.req.bRequest = "SET_LINE_CODING" -> [done EXCEPT !.codings = {v}]
               [] h.req.bRequest = "SET_CONTROL_LINE_STATE" -> [done EXCEPT !.lineState = v]
               [] OTHER -> done
  /\ UNCHANGED branch

HostSendsStatus ==
  /\ h.stage = "statusOut" /\ CanReceive(d.out, NoPacket)
  /\ d' = [d EXCEPT !.out = Arrived(@, NoPacket)]
  /\ h' = [h EXCEPT !.stage = "idle", !.got = <<>>]
  /\ UNCHANGED branch

HostSeesStall ==
  /\ h.stage \in {"dataIn", "statusIn"} /\ d.in.stall
  /\ h' = [h EXCEPT !.stage = "idle", !.stalled = TRUE]
  /\ UNCHANGED <<d, branch>>

\* A line state that was being set may be set or not.
HostResets ==
  /\ ~d.usbrst
  /\ ResetWhenBusy \/ (branch = "none" /\ ~Pending(d))
  /\ d' = [d EXCEPT !.usbrst = TRUE]
  /\ LET unsure == h.stage = "statusIn" /\ h.req.bRequest = "SET_CONTROL_LINE_STATE"
     IN h' = IdleHost(h.codings, IF unsure THEN NULL ELSE h.lineState)
  /\ UNCHANGED branch

HostPolls ==
  HostReadsData \/ HostSendsData \/ HostReadsStatus \/ HostSendsStatus \/ HostSeesStall

----------------------------------------------------------------------------

Next == Handle \/ HostSetup \/ HostPolls \/ HostResets

Spec == Init /\ [][Next]_vars

\* The interrupt is taken, and a host in a transfer polls the device.
FairSpec == Spec /\ WF_vars(Handle) /\ WF_vars(HostPolls)

----------------------------------------------------------------------------
(* Properties.                                                             *)

TypeOK ==
  /\ d.connState \in {"DEFAULT", "ADDRESS", "CONFIGURED"}
  /\ d.address \in Addresses \cup {0} /\ d.confNum \in {0, 1}
  /\ d.lineCoding \in [1 .. LINE_CODING_LEN -> LineCodings]
  /\ d.lastRequest \in Requests \cup {NULL} /\ d.setup \in Requests \cup {NULL}
  /\ d.in.data \in DOMAIN DescLen \cup {NULL, lineCoding, confNum}
  /\ d.out.data \in {NULL, lineCoding}
  /\ d.in.size \in 0 .. EP_MAX_PACKET
  /\ branch \in {"none", "out", "in", "reset"}
  /\ h.stage \in {"idle", "dataIn", "dataOut", "statusIn", "statusOut"}
  /\ h.req \in Requests \cup {NULL}

Prefix(s, n) == SubSeq(s, 1, Least(n, Len(s)))

\* What the host should get in answer to its request.
Expected(req) ==
  CASE req.bRequest = "GET_DESCRIPTOR" -> {Prefix(Memory(d, descriptor(req)), req.wLength)}
    [] req.bRequest = "GET_CONFIG" -> {<<h.config>>}
    [] req.bRequest = "GET_LINE_CODING" -> {Coding(v) : v \in h.codings}

\* A data stage ends with exactly the bytes that were asked for, or all there
\* are: cut into packets by NextPacket, loaded by LoadDataIntoTxBuf, ended by
\* ZlpIfFull, and never mixed with those of a transfer that a reset cut off.
DataStageExact == h.stage = "statusOut" => h.got \in Expected(h.req)

\* Host and device agree on address, configuration and line state whenever no
\* transfer is under way, in spite of resets and of requests that stall.
ViewsAgree ==
  h.stage = "idle" /\ ~d.usbrst =>
    /\ d.address = h.address
    /\ d.connState = IF h.config # 0 THEN "CONFIGURED"
                     ELSE IF h.address # 0 THEN "ADDRESS" ELSE "DEFAULT"
    /\ h.lineState # NULL => d.controlLineState = h.lineState

\* The requests that a host must expect to be refused, as it sees the device.
MayStall(req) ==
  \/ req.bRequest = "SET_ADDRESS" /\ h.config # 0
  \/ req.bRequest = "GET_CONFIG" /\ h.address = 0
  \/ req.bRequest = "SET_CONFIG" /\ (h.address = 0 \/ req.value \notin {0, 1})
  \/ req.bRequest = "GET_DESCRIPTOR" /\ descriptor(req) \notin DOMAIN DescLen

\* Nothing else is refused, and these always are: no state is left over from
\* before a reset that would keep a host from enumerating the device.
RefusedAsExpected == h.stage = "idle" /\ h.req # NULL => h.stalled = MayStall(h.req)

\* "to prevent loading more than one packet of data into TX FIFO at a time"
\* (usb.c:172): endpoint 0 is given its packets one by one.
OnePacketAtATime == Len(d.in.fifo) <= d.in.size

\* Every control transfer ends: the device never NAKs for ever.
EveryTransferEnds == h.stage # "idle" ~> h.stage = "idle"
==============================================================================
