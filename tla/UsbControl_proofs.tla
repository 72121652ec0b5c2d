-------------------------- MODULE UsbControl_proofs --------------------------
(***************************************************************************)
(* Proofs about UsbControl, for any number of requests and bus resets.     *)
(*                                                                         *)
(* Once the device has met a bus reset in peace, firmware, controller and  *)
(* host take turns: exactly one of them has to act next, and what endpoint *)
(* 0 is programmed for follows from the request and the stage.  Phase      *)
(* lists these situations; it is inductive, and the properties of          *)
(* UsbControl follow from it.                                              *)
(***************************************************************************)
EXTENDS UsbControl, TLAPS

\* The packet that answers a read.
Answer(r) == IF r.op = "GET_MAX_LUN" THEN Zero ELSE Data(r)

\* The events of endpoint 0, and nothing going on.
NoEvent  == ~setUp /\ ~outDone /\ ~inDone
NothingIn == ep0.inState = "idle" /\ fifo = NoPacket

\* The last reset and the end of its enumeration have been handled.
Settled == ~usbRst /\ ~enumDone /\ "RST" \notin isr.causes /\ "ENUM" \notin isr.causes

\* A reset: until usb_dev_reset has run, and after it.
ResetPending ==
    \/ usbRst /\ isr.at = "none"
    \/ ~usbRst /\ isr.at = "reset" /\ isr.causes = {"RST"}
ResetHandled ==
    ~usbRst /\ isr.at # "reset" /\ ep0.outBuf = "setup_pkt" /\ ep0.addr = {} /\ fifo = NoPacket

InReset ==
    /\ stage = "reset" /\ hostAddr = {}
    /\ NoEvent /\ ep0.inState = "idle"
    /\ ~enumDone /\ isr.causes \subseteq {"RST"}
    /\ ResetPending \/ ResetHandled

\* Nothing is left to the firmware: the next SETUP may come, or the host has
\* yet to read an empty packet or to see a stall.
Waiting ==
    /\ NoEvent /\ ep0.inState = "idle"
    /\ ~usbRst /\ "RST" \notin isr.causes
    /\ ep0.outBuf = "setup_pkt"
    /\ \/ stage = "idle" /\ fifo = NoPacket /\ ep0.addr = hostAddr
       \/ stage = "statusIn" /\ fifo = NoPacket /\ ep0.addr = hostAddr /\ Settled /\ ep0.stall
       \/ stage = "statusIn" /\ fifo = Zero /\ ep0.addr = hostAddr \cup req.addr /\ Settled
          /\ ~ep0.stall

\* A SETUP has arrived.
Requested ==
    /\ Settled /\ ~ep0.stall /\ stage = FirstStage(req) /\ req \in Requests
    /\ setUp /\ ~outDone /\ ~inDone /\ NothingIn
    /\ setup_pkt = req
    /\ ep0.outBuf = "setup_pkt" /\ ~ep0.outEna /\ ep0.addr = hostAddr
    /\ req.op = "SET_ADDRESS" <=> req.addr # {}
    /\ req.op = "SET_ADDRESS" => hostAddr = {}

\* pkt is on its way to the host, in the stage st, or was read and then is
\* followed by the stage next.
OnItsWay(pkt, st, next) ==
    /\ ~setUp /\ ~outDone /\ ~ep0.outEna
    /\ \/ /\ ep0.inState = "armed" /\ ep0.inPkt = pkt /\ ~inDone
          /\ fifo = NoPacket /\ stage = st
       \/ /\ (ep0.inState = "fetched" /\ ~inDone) \/ (ep0.inState = "idle" /\ inDone)
          /\ (fifo = pkt /\ stage = st) \/ (fifo = NoPacket /\ stage = next)

SendingData ==
    /\ Settled /\ ~ep0.stall /\ req.op \in Reads /\ req.addr = {} /\ ep0.addr = hostAddr
    /\ ep0.state = "EP0_IN_DATA_PHASE"
    /\ OnItsWay(Answer(req), "dataIn", "statusOut")

\* The data was sent: the empty packet of the status stage is awaited.
AwaitingStatus ==
    /\ Settled /\ ~ep0.stall /\ req.op \in Reads /\ req.addr = {} /\ ep0.addr = hostAddr
    /\ ep0.state = "EP0_STATUS"
    /\ ~setUp /\ ~inDone /\ ep0.inState = "idle"
    /\ \/ stage = "dataIn" /\ fifo = Answer(req) /\ ep0.outEna /\ ~outDone
       \/ stage = "statusOut" /\ fifo = NoPacket /\ ep0.outEna /\ ~outDone
       \/ stage = "idle" /\ fifo = NoPacket /\ ~ep0.outEna /\ outDone

AwaitingData ==
    /\ Settled /\ ~ep0.stall /\ req.op \in Writes /\ req.addr = {} /\ ep0.addr = hostAddr
    /\ ep0.state = "EP0_OUT_DATA_PHASE"
    /\ ~setUp /\ ~inDone /\ NothingIn
    /\ \/ stage = "dataOut" /\ ep0.outEna /\ ~outDone
       \/ stage = "statusIn" /\ ~ep0.outEna /\ outDone

\* The empty packet of the status stage is sent; the host takes a new address
\* when it reads it.
SendingStatus ==
    /\ Settled /\ ~ep0.stall /\ req.op \in Writes \cup Commands
    /\ ep0.addr = IF stage = "statusIn" THEN hostAddr \cup req.addr ELSE hostAddr
    /\ ep0.state = "EP0_STATUS"
    /\ OnItsWay(Zero, "statusIn", "idle")

\* A request without a case: nothing happens until the next reset.
Unanswered ==
    /\ Settled /\ ~ep0.stall /\ req.op \in Unknown
    /\ stage \in {"dataIn", "statusIn"}
    /\ NoEvent /\ NothingIn /\ ~ep0.outEna

Phase == \/ InReset \/ Waiting \/ Requested \/ SendingData \/ AwaitingStatus
         \/ AwaitingData \/ SendingStatus \/ Unanswered

\* The handler's causes are read when it is entered.
IsrInv == isr.at = "none" => isr.causes = {}

PhaseInv == IsrInv /\ (Met => Phase)

-----------------------------------------------------------------------------
(* Type correctness                                                        *)

LEMMA PacketTypes == Zero \in Packets /\ \A r : r.op \in Reads => Data(r) \in Packets
  BY DEF Packets, Zero, Data

LEMMA Endpoint0Types ==
  ASSUME NEW e \in Endpoint0
  PROVE  /\ \A r \in Requests : SetupPhase(e, r) \in Endpoint0
         /\ HandleEp0(e) \in Endpoint0
         /\ DevReset(e) \in Endpoint0
         /\ EnumDone(e) \in Endpoint0
<1> USE DEF Endpoint0, OutBufs, Ep0States
<1>1. ASSUME NEW r \in Requests
      PROVE  SetupPhase(e, r) \in Endpoint0
  <2>1. r.op \in Ops /\ r.addr \in SUBSET AddressBits
    BY DEF Requests
  <2>2. CASE r.op \in Reads
    <3>1. Answer(r) \in Packets
      BY <2>2, PacketTypes DEF Answer
    <3>2. SetupPhase(e, r) = StartIn([e EXCEPT !.state = "EP0_IN_DATA_PHASE"], Answer(r))
      BY <2>1, <2>2 DEF SetupPhase, Answer, IsIn, Reads, Writes, Commands, Stalled, Unknown, UnknownReads, UnknownCommands
    <3> QED BY <3>1, <3>2 DEF StartIn
  <2>3. CASE r.op \notin Reads
    BY <2>1, <2>3, PacketTypes DEF SetupPhase, StartIn, StartOut, OutStart, Ops, Writes, Commands, Stalled, Unknown, UnknownReads, UnknownCommands
  <2> QED BY <2>2, <2>3
<1>2. HandleEp0(e) \in Endpoint0
  BY PacketTypes DEF HandleEp0, StartIn, StartOut, OutStart
<1>3. DevReset(e) \in Endpoint0
  BY DEF DevReset
<1>4. EnumDone(e) \in Endpoint0
  BY DEF EnumDone
<1> QED BY <1>1, <1>2, <1>3, <1>4

\* Before its first SETUP packet the firmware has nothing to parse.
FirstRequest ==
    setup_pkt = NoRequest =>
        ~setUp /\ ep0.outBuf = "setup_pkt" /\ ep0.state \in {"EP0_DISCONNECT", "EP0_IDLE"}

LEMMA NoRequestApart == NoRequest \notin Requests
  BY DEF NoRequest, Requests, Ops, Reads, Commands, Writes, Stalled, UnknownReads, UnknownCommands

\* The variables of the control endpoint keep their types.
THEOREM TypeCorrect == Spec => []TypeOK
<1>1. Init => TypeOK /\ FirstRequest
  <2> SUFFICES ASSUME Init PROVE TypeOK /\ FirstRequest
    OBVIOUS
  <2>1. ep0 \in Endpoint0
    BY PacketTypes DEF Init, Endpoint0, OutBufs, Ep0States
  <2>2. resets \in 1..MaxResets /\ requests \in 0..MaxRequests
    BY ControlAssumption DEF Init
  <2> QED BY <2>1, <2>2 DEF Init, TypeOK, FirstRequest
<1>2. TypeOK /\ FirstRequest /\ [Next]_vars => TypeOK' /\ FirstRequest'
  <2> SUFFICES ASSUME TypeOK, FirstRequest, [Next]_vars
               PROVE  TypeOK' /\ FirstRequest'
    OBVIOUS
  <2> USE DEF TypeOK, FirstRequest, hostVars, ctlVars
  <2>1. CASE HostReset \/ HostResetRacy
    <3>1. resets' \in 1..MaxResets
      BY <2>1, ControlAssumption DEF HostReset, HostResetRacy, BusReset
    <3>2. /\ stage' = "reset" /\ hostAddr' = {} /\ usbRst' = TRUE /\ lastReset' \in {"quiet", "racy"}
          /\ UNCHANGED <<req, requests, enumDone, setUp, outDone, inDone, fifo, setup_pkt, ep0, isr>>
      BY <2>1 DEF HostReset, HostResetRacy, BusReset
    <3> QED BY <3>1, <3>2
  <2>2. CASE SpeedFound \/ SpeedFoundRacy
    <3>1. /\ stage' = "idle" /\ enumDone' = TRUE /\ lastReset' \in {lastReset, "racy"}
          /\ UNCHANGED <<req, hostAddr, requests, resets, usbRst, setUp, outDone, inDone, fifo,
                         setup_pkt, ep0, isr>>
      BY <2>2 DEF SpeedFound, SpeedFoundRacy, EndOfReset
    <3> QED BY <3>1
  <2>3. CASE HostSetup \/ HostSetupRacy
    <3>1. PICK r \in Requests :
             /\ req' = r /\ stage' = FirstStage(r)
             /\ setup_pkt' = IF ep0.outBuf = "setup_pkt" THEN r ELSE setup_pkt
      BY <2>3 DEF HostSetup, HostSetupRacy, Setup
    <3>2. /\ requests < MaxRequests /\ requests' = requests + 1 /\ setUp' = TRUE
          /\ ep0' = [ep0 EXCEPT !.outEna = FALSE, !.outNak = TRUE, !.stall = FALSE]
          /\ lastReset' \in {lastReset, "racy"}
          /\ UNCHANGED <<hostAddr, resets, usbRst, enumDone, outDone, inDone, fifo, isr>>
      BY <2>3 DEF HostSetup, HostSetupRacy, Setup
    <3>3. ep0' \in Endpoint0
      BY <3>2 DEF Endpoint0
    <3>4. stage' \in {"dataIn", "dataOut", "statusIn"}
      BY <3>1 DEF FirstStage
    <3> QED BY <3>1, <3>2, <3>3, <3>4, ControlAssumption, NoRequestApart
  <2>4. CASE DmaFetch
    BY <2>4 DEF DmaFetch, Endpoint0
  <2>5. CASE DmaComplete
    BY <2>5 DEF DmaComplete, Endpoint0
  <2>6. CASE HostIn
    <3>1. hostAddr' \in SUBSET AddressBits
      BY <2>6 DEF HostIn, Requests, NoRequest
    <3> QED BY <2>6, <3>1 DEF HostIn
  <2>7. CASE HostOut
    BY <2>7 DEF HostOut, Endpoint0
  <2>8. CASE HostStalled
    BY <2>8 DEF HostStalled
  <2>9. CASE IsrEnter
    BY <2>9 DEF IsrEnter, GintCauses, OutPending
  <2>10. CASE IsrReset
    <3>1. ep0' \in Endpoint0
      BY <2>10, Endpoint0Types DEF IsrReset
    <3>2. ep0'.outBuf \in {"setup_pkt", ep0.outBuf} /\ ep0'.state = ep0.state
      BY <2>10 DEF IsrReset, DevReset, Endpoint0
    <3> QED BY <2>10, <3>1, <3>2 DEF IsrReset
  <2>11. CASE IsrEnum
    <3>1. ep0' \in Endpoint0
      BY <2>11, Endpoint0Types DEF IsrEnum
    <3>2. ep0'.outBuf = ep0.outBuf /\ ep0'.state \in {"EP0_IDLE", ep0.state}
      BY <2>11 DEF IsrEnum, EnumDone, Endpoint0
    <3> QED BY <2>11, <3>1, <3>2 DEF IsrEnum
  <2>12. CASE IsrOut
    <3>1. setUp => setup_pkt \in Requests
      OBVIOUS
    <3>2. ep0' \in Endpoint0
      BY <2>12, <3>1, Endpoint0Types DEF IsrOut
    <3>3. setup_pkt = NoRequest => ep0' = ep0 \/ ep0' = HandleEp0(ep0)
      BY <2>12 DEF IsrOut
    <3>4. ep0.state \in {"EP0_DISCONNECT", "EP0_IDLE"} => HandleEp0(ep0) = ep0
      BY DEF HandleEp0
    <3> QED BY <2>12, <3>2, <3>3, <3>4 DEF IsrOut
  <2>13. CASE IsrIn
    <3>1. ep0' \in Endpoint0
      BY <2>13, Endpoint0Types DEF IsrIn
    <3>2. ep0.state \in {"EP0_DISCONNECT", "EP0_IDLE"} => HandleEp0(ep0) = ep0
      BY DEF HandleEp0
    <3> QED BY <2>13, <3>1, <3>2 DEF IsrIn
  <2>14. CASE UNCHANGED vars
    BY <2>14 DEF vars
  <2> QED
    BY <2>1, <2>2, <2>3, <2>4, <2>5, <2>6, <2>7, <2>8, <2>9, <2>10, <2>11, <2>12, <2>13, <2>14 DEF Next, HostNext, CtlNext, IsrNext
<1> QED
  BY <1>1, <1>2, PTL DEF Spec

-----------------------------------------------------------------------------
(* The situations follow each other                                        *)

\* What a completed stage is followed by.
Completed(e, f) ==
    /\ e.state = "EP0_IN_DATA_PHASE" =>
         /\ f.state = "EP0_STATUS" /\ f.outEna = TRUE
         /\ f.inState = e.inState /\ f.stall = e.stall /\ f.addr = e.addr
    /\ e.state = "EP0_OUT_DATA_PHASE" =>
         /\ f.state = "EP0_STATUS" /\ f.inState = "armed" /\ f.inPkt = Zero
         /\ f.outEna = e.outEna /\ f.stall = e.stall /\ f.addr = e.addr
    /\ e.state = "EP0_STATUS" =>
         /\ f.outBuf = "setup_pkt"
         /\ f.inState = e.inState /\ f.stall = e.stall /\ f.addr = e.addr

LEMMA StageMoves ==
  ASSUME NEW e \in Endpoint0, NEW f, f = HandleEp0(e)
  PROVE  Completed(e, f)
  BY DEF Completed, HandleEp0, StartOut, StartIn, OutStart, Endpoint0

\* A read is answered.
LEMMA ReadMoves ==
  ASSUME NEW e \in Endpoint0, NEW r \in Requests, r.op \in Reads, NEW f, f = SetupPhase(e, r)
  PROVE  /\ f.state = "EP0_IN_DATA_PHASE" /\ f.inState = "armed" /\ f.inPkt = Answer(r)
         /\ f.outEna = e.outEna /\ f.stall = e.stall /\ f.addr = e.addr
  BY DEF StartIn, Answer, SetupPhase, IsIn, Reads, Writes, Commands, Stalled, Unknown, UnknownReads, UnknownCommands, Endpoint0

\* The data of a write is awaited.
LEMMA WriteMoves ==
  ASSUME NEW e \in Endpoint0, NEW r \in Requests, r.op \in Writes, NEW f, f = SetupPhase(e, r)
  PROVE  /\ f.state = "EP0_OUT_DATA_PHASE" /\ f.outEna = TRUE
         /\ f.inState = e.inState /\ f.stall = e.stall /\ f.addr = e.addr
  BY DEF StartOut, SetupPhase, IsIn, Reads, Writes, Commands, Stalled, Unknown, UnknownReads, UnknownCommands, Endpoint0

\* A command is performed and acknowledged.
LEMMA CommandMoves ==
  ASSUME NEW e \in Endpoint0, NEW r \in Requests, r.op \in Commands, NEW f, f = SetupPhase(e, r)
  PROVE  /\ f.state = "EP0_STATUS" /\ f.inState = "armed" /\ f.inPkt = Zero
         /\ f.outEna = e.outEna /\ f.stall = e.stall
         /\ f.addr = IF r.op = "SET_ADDRESS" THEN e.addr \cup r.addr ELSE e.addr
<1> USE DEF SetupPhase, IsIn, Reads, Writes, Commands, Stalled, Unknown, UnknownReads, UnknownCommands, Endpoint0
<1>1. CASE r.op = "SET_ADDRESS"
  BY <1>1 DEF StartIn
<1>2. CASE r.op # "SET_ADDRESS"
  BY <1>2 DEF StartIn
<1> QED BY <1>1, <1>2

\* A stalled request leaves endpoint 0 ready for the next one.
LEMMA StallMoves ==
  ASSUME NEW e \in Endpoint0, NEW r \in Requests, r.op \in Stalled, NEW f, f = SetupPhase(e, r)
  PROVE  /\ f.outBuf = "setup_pkt" /\ f.stall = TRUE
         /\ f.inState = e.inState /\ f.addr = e.addr
  BY DEF StartOut, OutStart, SetupPhase, IsIn, Reads, Writes, Commands, Stalled, Unknown, UnknownReads, UnknownCommands, Endpoint0

\* A request without a case changes no more than ep0state.
LEMMA UnansweredMoves ==
  ASSUME NEW e \in Endpoint0, NEW r \in Requests, r.op \in Unknown, NEW f, f = SetupPhase(e, r)
  PROVE  f.inState = e.inState /\ f.outEna = e.outEna /\ f.stall = e.stall
  BY DEF SetupPhase, IsIn, Reads, Writes, Commands, Stalled, Unknown, UnknownReads, UnknownCommands, Endpoint0

\* The stage that follows the SETUP packet of each kind of request.
LEMMA FirstStages ==
  ASSUME NEW r \in Requests
  PROVE  /\ r.op \in Reads => FirstStage(r) = "dataIn" /\ r.op # "SET_ADDRESS"
         /\ r.op \in Writes => FirstStage(r) = "dataOut" /\ r.op # "SET_ADDRESS"
         /\ r.op \in Commands \cup Stalled => FirstStage(r) = "statusIn"
         /\ r.op \in Unknown => FirstStage(r) \in {"dataIn", "statusIn"}
         /\ r.op \in Reads \cup Writes \cup Commands \cup Stalled \cup Unknown
  BY DEF Requests, Ops, FirstStage, IsIn, Reads, Writes, Commands, Stalled, Unknown, UnknownReads, UnknownCommands

LEMMA PhaseInductive ==
  ASSUME TypeOK, PhaseInv, [Next]_vars
  PROVE  PhaseInv'
<1> USE DEF hostVars, ctlVars, Met
<1>1. IsrInv /\ IsrInv'
  <2> USE DEF PhaseInv, IsrInv
  <2>1. CASE HostNext
    BY <2>1 DEF HostNext, HostReset, HostResetRacy, BusReset, HostSetup, HostSetupRacy, Setup, HostIn, HostOut, HostStalled
  <2>2. CASE CtlNext
    BY <2>2 DEF CtlNext, SpeedFound, SpeedFoundRacy, EndOfReset, DmaFetch, DmaComplete
  <2>3. CASE IsrNext
    <3>1. CASE isr.at = "none"
      BY <2>3, <3>1 DEF IsrNext, IsrEnter, IsrReset, IsrEnum, IsrOut, IsrIn
    <3>2. CASE isr.at # "none"
      <4>1. isr' = [at |-> "none", causes |-> {}] \/ \E a \in {"enum", "out", "in"} : isr' = [isr EXCEPT !.at = a]
        BY <2>3, <3>2 DEF IsrNext, IsrEnter, IsrReset, IsrEnum, IsrOut, IsrIn
      <4> QED BY <3>2, <4>1 DEF TypeOK
    <3> QED BY <3>1, <3>2
  <2>4. CASE UNCHANGED vars
    BY <2>4 DEF vars
  <2> QED BY <2>1, <2>2, <2>3, <2>4 DEF Next
<1> SUFFICES ASSUME Met'
             PROVE  Phase'
  BY <1>1 DEF PhaseInv
<1> USE <1>1 DEF PhaseInv, IsrInv
<1> USE DEF Phase, InReset, Waiting, Requested, SendingData, AwaitingStatus, AwaitingData, SendingStatus, Unanswered
<1> USE DEF NoEvent, NothingIn, ResetPending, ResetHandled, OnItsWay, Settled
<1>2. CASE HostReset
  BY <1>2 DEF HostReset, BusReset, Quiet, GintCauses, OutPending
<1>3. CASE HostResetRacy \/ SpeedFoundRacy \/ HostSetupRacy
  BY <1>3 DEF HostResetRacy, SpeedFoundRacy, HostSetupRacy
<1>4. CASE SpeedFound
  BY <1>4 DEF SpeedFound, EndOfReset, FirstStage
<1> USE DEF TypeOK, Endpoint0
<1>5. CASE HostSetup
  BY <1>5 DEF HostSetup, Setup, Recovered, FirstStage
<1>6. CASE DmaFetch
  BY <1>6 DEF DmaFetch
<1>7. CASE DmaComplete
  BY <1>7 DEF DmaComplete
<1>8. CASE HostIn
  BY <1>8 DEF HostIn
<1>9. CASE HostOut
  BY <1>9 DEF HostOut
<1>10. CASE HostStalled
  BY <1>10 DEF HostStalled
<1>11. CASE IsrEnter
  BY <1>11 DEF IsrEnter, GintCauses, OutPending
<1>12. CASE IsrReset
  <2>1. /\ isr.at = "reset" /\ isr'.at = "enum" /\ isr'.causes = isr.causes
        /\ UNCHANGED <<hostVars, usbRst, enumDone, setUp, outDone, inDone, setup_pkt>>
    BY <1>12 DEF IsrReset
  <2>2. CASE "RST" \in isr.causes
    <3>1. ep0' = DevReset(ep0) /\ fifo' = NoPacket
      BY <1>12, <2>2 DEF IsrReset
    <3>2. ep0'.inState = "idle" /\ ep0'.outBuf = "setup_pkt" /\ ep0'.addr = {}
      BY <3>1 DEF DevReset
    <3>3. InReset
      BY <2>1, <2>2
    <3>4. InReset'
      BY <2>1, <3>1, <3>2, <3>3
    <3> QED BY <3>4
  <2>3. CASE "RST" \notin isr.causes
    <3>1. UNCHANGED <<ep0, fifo>>
      BY <1>12, <2>3 DEF IsrReset
    <3> QED BY <2>1, <2>3, <3>1
  <2> QED BY <2>2, <2>3
<1>13. CASE IsrEnum
  BY <1>13 DEF IsrEnum, EnumDone
<1>14. CASE IsrOut
  <2>1. /\ isr'.causes = isr.causes /\ isr'.at = "in" /\ isr.at = "out"
        /\ UNCHANGED <<hostVars, usbRst, enumDone, inDone, fifo, setup_pkt>>
    BY <1>14 DEF IsrOut
  <2>2. CASE "OUT" \in isr.causes /\ setUp
    <3>1. Requested
      BY <2>1, <2>2
    <3>2. ep0' = SetupPhase(ep0, req) /\ setUp' = FALSE /\ outDone' = FALSE
      BY <1>14, <2>2, <3>1 DEF IsrOut
    <3>3. req \in Requests /\ ep0 \in Endpoint0
      BY <3>1
    <3> HIDE DEF Endpoint0
    <3>4. CASE req.op \in Reads
      <4>1. /\ ep0'.state = "EP0_IN_DATA_PHASE" /\ ep0'.inState = "armed" /\ ep0'.inPkt = Answer(req)
            /\ ep0'.outEna = ep0.outEna /\ ep0'.stall = ep0.stall /\ ep0'.addr = ep0.addr
        <5> HIDE DEF TypeOK, PhaseInv, IsrInv, Phase, Met, InReset, Waiting, Requested, SendingData, AwaitingStatus, AwaitingData, SendingStatus, Unanswered
        <5> QED BY <3>2, <3>3, <3>4, ReadMoves
      <4>2. SendingData'
        BY <2>1, <3>1, <3>2, <3>3, <3>4, <4>1, FirstStages
      <4> QED BY <4>2
    <3>5. CASE req.op \in Writes
      <4>1. /\ ep0'.state = "EP0_OUT_DATA_PHASE" /\ ep0'.outEna = TRUE
            /\ ep0'.inState = ep0.inState /\ ep0'.stall = ep0.stall /\ ep0'.addr = ep0.addr
        <5> HIDE DEF TypeOK, PhaseInv, IsrInv, Phase, Met, InReset, Waiting, Requested, SendingData, AwaitingStatus, AwaitingData, SendingStatus, Unanswered
        <5> QED BY <3>2, <3>3, <3>5, WriteMoves
      <4>2. AwaitingData'
        BY <2>1, <3>1, <3>2, <3>3, <3>5, <4>1, FirstStages
      <4> QED BY <4>2
    <3>6. CASE req.op \in Commands
      <4>1. /\ ep0'.state = "EP0_STATUS" /\ ep0'.inState = "armed" /\ ep0'.inPkt = Zero
            /\ ep0'.outEna = ep0.outEna /\ ep0'.stall = ep0.stall
            /\ ep0'.addr = IF req.op = "SET_ADDRESS" THEN ep0.addr \cup req.addr ELSE ep0.addr
        <5> HIDE DEF TypeOK, PhaseInv, IsrInv, Phase, Met, InReset, Waiting, Requested, SendingData, AwaitingStatus, AwaitingData, SendingStatus, Unanswered
        <5> QED BY <3>2, <3>3, <3>6, CommandMoves
      <4>2. SendingStatus'
        BY <2>1, <3>1, <3>2, <3>3, <3>6, <4>1, FirstStages
      <4> QED BY <4>2
    <3>7. CASE req.op \in Stalled
      <4>1. /\ ep0'.outBuf = "setup_pkt" /\ ep0'.stall = TRUE
            /\ ep0'.inState = ep0.inState /\ ep0'.addr = ep0.addr
        <5> HIDE DEF TypeOK, PhaseInv, IsrInv, Phase, Met, InReset, Waiting, Requested, SendingData, AwaitingStatus, AwaitingData, SendingStatus, Unanswered
        <5> QED BY <3>2, <3>3, <3>7, StallMoves
      <4>2. Waiting'
        BY <2>1, <3>1, <3>2, <3>3, <3>7, <4>1, FirstStages
      <4> QED BY <4>2
    <3>8. CASE req.op \in Unknown
      <4>1. /\ ep0'.inState = ep0.inState /\ ep0'.outEna = ep0.outEna /\ ep0'.stall = ep0.stall
        <5> HIDE DEF TypeOK, PhaseInv, IsrInv, Phase, Met, InReset, Waiting, Requested, SendingData, AwaitingStatus, AwaitingData, SendingStatus, Unanswered
        <5> QED BY <3>2, <3>3, <3>8, UnansweredMoves
      <4>2. Unanswered'
        BY <2>1, <3>1, <3>2, <3>3, <3>8, <4>1, FirstStages
      <4> QED BY <4>2
    <3> QED BY <3>3, <3>4, <3>5, <3>6, <3>7, <3>8, FirstStages
  <2>3. CASE "OUT" \in isr.causes /\ ~setUp /\ outDone
    <3>1. ep0' = HandleEp0(ep0) /\ setUp' = FALSE /\ outDone' = FALSE /\ ep0 \in Endpoint0
      BY <1>14, <2>3 DEF IsrOut
    <3> HIDE DEF Endpoint0
    <3>2. CASE AwaitingStatus
      <4>1. /\ ep0'.outBuf = "setup_pkt"
            /\ ep0'.inState = ep0.inState /\ ep0'.stall = ep0.stall /\ ep0'.addr = ep0.addr
        <5>1. ep0.state = "EP0_STATUS"
          BY <3>2
        <5>2. Completed(ep0, ep0')
          <6> HIDE DEF TypeOK, PhaseInv, IsrInv, Phase, Met, InReset, Waiting, Requested, SendingData, AwaitingStatus, AwaitingData, SendingStatus, Unanswered
          <6> QED BY <3>1, StageMoves
        <5> HIDE DEF TypeOK, PhaseInv, IsrInv, Phase, Met, InReset, Waiting, Requested, SendingData, AwaitingStatus, AwaitingData, SendingStatus, Unanswered
        <5> QED BY <5>1, <5>2 DEF Completed
      <4>2. Waiting'
        BY <2>1, <2>3, <3>1, <3>2, <4>1
      <4> QED BY <4>2
    <3>3. CASE AwaitingData
      <4>1. /\ ep0'.state = "EP0_STATUS" /\ ep0'.inState = "armed" /\ ep0'.inPkt = Zero
            /\ ep0'.outEna = ep0.outEna /\ ep0'.stall = ep0.stall /\ ep0'.addr = ep0.addr
        <5>1. ep0.state = "EP0_OUT_DATA_PHASE"
          BY <3>3
        <5>2. Completed(ep0, ep0')
          <6> HIDE DEF TypeOK, PhaseInv, IsrInv, Phase, Met, InReset, Waiting, Requested, SendingData, AwaitingStatus, AwaitingData, SendingStatus, Unanswered
          <6> QED BY <3>1, StageMoves
        <5> HIDE DEF TypeOK, PhaseInv, IsrInv, Phase, Met, InReset, Waiting, Requested, SendingData, AwaitingStatus, AwaitingData, SendingStatus, Unanswered
        <5> QED BY <5>1, <5>2 DEF Completed
      <4>2. SendingStatus'
        BY <2>1, <2>3, <3>1, <3>3, <4>1
      <4> QED BY <4>2
    <3> QED BY <2>1, <2>3, <3>2, <3>3
  <2>4. CASE "OUT" \notin isr.causes \/ ~(setUp \/ outDone)
    BY <1>14, <2>4 DEF IsrOut
  <2> QED BY <2>2, <2>3, <2>4
<1>15. CASE IsrIn
  <2>1. /\ isr'.causes = {} /\ isr'.at = "none" /\ isr.at = "in"
        /\ UNCHANGED <<hostVars, usbRst, enumDone, setUp, outDone, fifo, setup_pkt>>
    BY <1>15 DEF IsrIn
  <2>2. CASE "IN" \in isr.causes /\ inDone
    <3>1. ep0' = HandleEp0(ep0) /\ inDone' = FALSE /\ ep0 \in Endpoint0
      BY <1>15, <2>2 DEF IsrIn
    <3> HIDE DEF Endpoint0
    <3>2. CASE SendingData
      <4>1. /\ ep0'.state = "EP0_STATUS" /\ ep0'.outEna = TRUE
            /\ ep0'.inState = ep0.inState /\ ep0'.stall = ep0.stall /\ ep0'.addr = ep0.addr
        <5>1. ep0.state = "EP0_IN_DATA_PHASE"
          BY <3>2
        <5>2. Completed(ep0, ep0')
          <6> HIDE DEF TypeOK, PhaseInv, IsrInv, Phase, Met, InReset, Waiting, Requested, SendingData, AwaitingStatus, AwaitingData, SendingStatus, Unanswered
          <6> QED BY <3>1, StageMoves
        <5> HIDE DEF TypeOK, PhaseInv, IsrInv, Phase, Met, InReset, Waiting, Requested, SendingData, AwaitingStatus, AwaitingData, SendingStatus, Unanswered
        <5> QED BY <5>1, <5>2 DEF Completed
      <4>2. AwaitingStatus'
        BY <2>1, <2>2, <3>1, <3>2, <4>1
      <4> QED BY <4>2
    <3>3. CASE SendingStatus
      <4>1. /\ ep0'.outBuf = "setup_pkt"
            /\ ep0'.inState = ep0.inState /\ ep0'.stall = ep0.stall /\ ep0'.addr = ep0.addr
        <5>1. ep0.state = "EP0_STATUS"
          BY <3>3
        <5>2. Completed(ep0, ep0')
          <6> HIDE DEF TypeOK, PhaseInv, IsrInv, Phase, Met, InReset, Waiting, Requested, SendingData, AwaitingStatus, AwaitingData, SendingStatus, Unanswered
          <6> QED BY <3>1, StageMoves
        <5> HIDE DEF TypeOK, PhaseInv, IsrInv, Phase, Met, InReset, Waiting, Requested, SendingData, AwaitingStatus, AwaitingData, SendingStatus, Unanswered
        <5> QED BY <5>1, <5>2 DEF Completed
      <4>2. Waiting'
        BY <2>1, <2>2, <3>1, <3>3, <4>1
      <4> QED BY <4>2
    <3> QED BY <2>1, <2>2, <3>2, <3>3
  <2>3. CASE ~("IN" \in isr.causes /\ inDone)
    BY <1>15, <2>3 DEF IsrIn
  <2> QED BY <2>2, <2>3
<1>16. CASE UNCHANGED vars
  BY <1>16 DEF vars
<1> QED
  BY <1>2, <1>3, <1>4, <1>5, <1>6, <1>7, <1>8, <1>9, <1>10, <1>11, <1>12, <1>13, <1>14, <1>15, <1>16 DEF Next, HostNext, CtlNext, IsrNext

\* What holds of endpoint 0 once the device has met a bus reset in peace.
LEMMA PhaseHolds == Spec => []PhaseInv
<1>1. Init => PhaseInv
  BY DEF Init, PhaseInv, IsrInv, Phase, InReset, ResetPending, NoEvent
<1>2. TypeOK /\ PhaseInv /\ [Next]_vars => PhaseInv'
  BY PhaseInductive
<1> QED
  BY <1>1, <1>2, TypeCorrect, PTL DEF Spec

-----------------------------------------------------------------------------
(* The properties                                                          *)

\* The request that is parsed is the one the host made last.
THEOREM RequestNotStale == Spec => []RequestIntact
<1>1. PhaseInv => RequestIntact
  BY DEF PhaseInv, RequestIntact, Phase, InReset, Waiting, Requested, SendingData, AwaitingStatus, AwaitingData, SendingStatus, Unanswered, NoEvent, OnItsWay
<1> QED
  BY <1>1, PhaseHolds, PTL

\* What is sent is for the stage the host is in.
THEOREM PacketsMatchStages == Spec => []PacketForStage
<1>1. PhaseInv => PacketForStage
  BY DEF PhaseInv, PacketForStage, Phase, InReset, Waiting, Requested, SendingData, AwaitingStatus, AwaitingData, SendingStatus, Unanswered, NothingIn, OnItsWay, Answer
<1> QED
  BY <1>1, PhaseHolds, PTL

\* Between transfers host and device agree on the address.
THEOREM AddressesAgree == Spec => []AddressAgreed
<1>1. PhaseInv => AddressAgreed
  BY DEF PhaseInv, AddressAgreed, Phase, InReset, Waiting, Requested, SendingData, AwaitingStatus, AwaitingData, SendingStatus, Unanswered, NothingIn, OnItsWay, FirstStage
<1> QED
  BY <1>1, PhaseHolds, PTL

\* Whenever endpoint 0 waits for a SETUP, it has the buffer for it.
THEOREM SetupBufferReady == Spec => []WaitsForSetup
<1>1. PhaseInv => WaitsForSetup
  BY DEF PhaseInv, WaitsForSetup, EnabledForSetup, Phase, InReset, Waiting, Requested, SendingData, AwaitingStatus, AwaitingData, SendingStatus, Unanswered, OnItsWay
<1> QED
  BY <1>1, PhaseHolds, PTL
=============================================================================
