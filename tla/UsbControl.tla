----------------------------- MODULE UsbControl -----------------------------
(***************************************************************************)
(* Control transfers on endpoint 0: setup_phase, handle_ep0, the bus reset *)
(* and the end of speed enumeration, as bsp_usb_handler dispatches them    *)
(* (usbdevice_interrupt.c), with the host and the controller (external).   *)
(*                                                                         *)
(* A control transfer is a SETUP packet, an optional data stage and a      *)
(* status stage in the other direction.  The firmware follows it with      *)
(* ep0state and starts one stage at a time.  The bulk endpoints that       *)
(* SET_CONFIGURATION starts are in UsbDevice.                              *)
(*                                                                         *)
(* Assumed of the controller: a SETUP waits until endpoint 0 OUT is        *)
(* enabled and then goes to the buffer the endpoint was given; a bus reset *)
(* clears no interrupt bit of an endpoint; a SETUP clears a stall.         *)
(***************************************************************************)
EXTENDS Naturals, FiniteSets

CONSTANTS
    AddressBits,  \* bits of a device address
    MaxRequests,  \* bound: requests the host makes
    MaxResets     \* bound: bus resets

ASSUME ControlAssumption == MaxRequests \in Nat /\ MaxResets \in Nat \ {0}

VARIABLES
    \* the host
    stage,      \* "reset", "idle" or the stage of its control transfer
    req,        \* its last request
    hostAddr,   \* the address it uses for the device
    requests,   \* requests so far
    resets,     \* bus resets so far
    lastReset,  \* "quiet" or "racy": see HostReset and HostResetRacy
    \* the controller
    usbRst,     \* GINTSTS.USBRst
    enumDone,   \* GINTSTS.EnumDone
    setUp,      \* DOEPINT0.SetUp
    outDone,    \* DOEPINT0.XferCompl
    inDone,     \* DIEPINT0.XferCompl
    fifo,       \* the packet in the transmit FIFO of endpoint 0
    \* the firmware
    setup_pkt,  \* usbcb.setup_pkt
    ep0,        \* ep0state and the registers of endpoint 0
    isr         \* where bsp_usb_handler is, and the causes it read

hostVars == <<stage, req, hostAddr, requests, resets, lastReset>>
ctlVars  == <<usbRst, enumDone, setUp, outDone, inDone, fifo>>
vars     == <<hostVars, ctlVars, setup_pkt, ep0, isr>>

-----------------------------------------------------------------------------
(* Requests.  One name per case of setup_phase; the class requests of HID  *)
(* share the codes of standard ones and are told apart by their type.      *)

\* Requests with an IN data stage that setup_phase answers.
Reads == {"GET_DESCRIPTOR", "GET_CONFIGURATION", "GET_INTERFACE",
          "GET_REPORT", "GET_IDLE", "GET_PROTOCOL", "GET_MAX_LUN"}
\* Requests without a data stage that it acknowledges.
Commands == {"SET_ADDRESS", "SET_CONFIGURATION", "SET_INTERFACE", "SET_IDLE",
             "CLEAR_FEATURE", "SET_FEATURE", "BULK_RESET"}
\* Requests with an OUT data stage that it takes.
Writes == {"SET_REPORT"}
\* A bulk-only reset with a value, index or length is stalled.
Stalled == {"BAD_BULK_RESET"}
\* Requests nothing is started for: GET_STATUS and the like with an IN data
\* stage, CLEAR_FEATURE of an interface and the like without one, and
\* SET_FEATURE of a test mode that does not exist.
UnknownReads == {"GET_STATUS"}
UnknownCommands == {"CLEAR_INTERFACE_FEATURE", "BAD_TEST_MODE"}

Ops     == Reads \cup Commands \cup Writes \cup Stalled \cup UnknownReads \cup UnknownCommands
Unknown == UnknownReads \cup UnknownCommands

Requests == [op : Ops, addr : SUBSET AddressBits]
NoRequest == [op |-> "none", addr |-> {}]

\* The direction bit of the request, XferDir.
IsIn(r) == r.op \in Reads \cup UnknownReads

\* The stage that follows the SETUP of a request.
FirstStage(r) ==
    IF IsIn(r) THEN "dataIn" ELSE IF r.op \in Writes THEN "dataOut" ELSE "statusIn"

\* Packets of endpoint 0 IN: the data that answers a request, or an empty one.
Zero    == [data |-> "none"]
Data(r) == [data |-> r.op]
Packets == {Zero} \cup {[data |-> op] : op \in Reads}
NoPacket == [data |-> "nothing"]

-----------------------------------------------------------------------------
(* Endpoint 0, as the firmware programs it.                                *)

Ep0States == {"EP0_DISCONNECT", "EP0_IDLE", "EP0_IN_DATA_PHASE", "EP0_OUT_DATA_PHASE", "EP0_STATUS"}
OutBufs   == {"setup_pkt", "status", "tmpbuf"}

Endpoint0 == [state : Ep0States,            \* usbcb.ep0state
              outBuf : OutBufs,             \* DOEPDMA0
              outEna : BOOLEAN,             \* DOEPCTL0.EPEna
              outNak : BOOLEAN,             \* DOEPCTL0.NAKSts
              inPkt : Packets,              \* DIEPDMA0 and DIEPTSIZ0
              inState : {"idle", "armed", "fetched"},  \* DIEPCTL0.EPEna
              stall : BOOLEAN,              \* DIEPCTL0.Stall
              addr : SUBSET AddressBits]    \* DCFG.DevAddr

\* dwc_otg_ep0_start_transfer, in either direction.
StartIn(e, pkt) == [e EXCEPT !.inPkt = pkt, !.inState = "armed"]
StartOut(e, buf) == [e EXCEPT !.outBuf = buf, !.outEna = TRUE, !.outNak = FALSE]

\* ep0_out_start: endpoint 0 waits for the next SETUP.
OutStart(e) == [StartOut(e, "setup_pkt") EXCEPT !.state = "EP0_IDLE"]

\* Faulty variant: requests without a data stage are not told from writes.
SetupPhase_NoStatus(e, r) ==
    LET f == [e EXCEPT !.state = IF IsIn(r) THEN "EP0_IN_DATA_PHASE" ELSE "EP0_OUT_DATA_PHASE"]
    IN  CASE r.op \in Reads -> StartIn(f, IF r.op = "GET_MAX_LUN" THEN Zero ELSE Data(r))
          [] r.op \in Writes -> StartOut(f, "tmpbuf")
          [] r.op \in Commands -> StartIn(f, Zero)
          [] OTHER -> f

\* Faulty variant: every answered request is answered with data.
SetupPhase_AllData(e, r) ==
    LET f == [e EXCEPT !.state = IF IsIn(r) THEN "EP0_IN_DATA_PHASE" ELSE "EP0_STATUS"]
    IN  CASE r.op \in Reads \cup Commands -> StartIn(f, Data(r))
          [] r.op \in Writes -> StartOut(f, "tmpbuf")
          [] OTHER -> f

\* setup_phase.  SET_ADDRESS adds the new address to the bits of DCFG.
SetupPhase(e, r) ==
    LET f == [e EXCEPT !.state = IF IsIn(r) THEN "EP0_IN_DATA_PHASE" ELSE "EP0_OUT_DATA_PHASE"]
        s == [StartIn(f, Zero) EXCEPT !.state = "EP0_STATUS"]
    IN  CASE r.op \in Reads -> StartIn(f, IF r.op = "GET_MAX_LUN" THEN Zero ELSE Data(r))
          [] r.op \in Writes -> StartOut(f, "tmpbuf")
          [] r.op = "SET_ADDRESS" -> [s EXCEPT !.addr = @ \cup r.addr]
          [] r.op \in Commands \ {"SET_ADDRESS"} -> s
          [] r.op \in Stalled -> OutStart([f EXCEPT !.stall = TRUE])
          [] r.op \in Unknown ->
               IF r.op = "BAD_TEST_MODE" THEN [f EXCEPT !.state = "EP0_STATUS"] ELSE f

\* Faulty variant: the end of a status stage does not re-arm the endpoint.
HandleEp0_NoOutStart(e) ==
    CASE e.state = "EP0_IN_DATA_PHASE" -> [StartOut(e, "status") EXCEPT !.state = "EP0_STATUS"]
      [] e.state = "EP0_OUT_DATA_PHASE" -> [StartIn(e, Zero) EXCEPT !.state = "EP0_STATUS"]
      [] e.state = "EP0_STATUS" -> [e EXCEPT !.state = "EP0_IDLE", !.outEna = TRUE]
      [] e.state \in {"EP0_IDLE", "EP0_DISCONNECT"} -> e

\* Faulty variant: an OUT data stage is not followed by a status stage.
HandleEp0_NoWriteStatus(e) ==
    CASE e.state = "EP0_IN_DATA_PHASE" -> [StartOut(e, "status") EXCEPT !.state = "EP0_STATUS"]
      [] e.state \in {"EP0_OUT_DATA_PHASE", "EP0_STATUS"} -> OutStart(e)
      [] e.state \in {"EP0_IDLE", "EP0_DISCONNECT"} -> e

\* handle_ep0: a stage of the transfer is complete.
HandleEp0(e) ==
    CASE e.state = "EP0_IN_DATA_PHASE" -> [StartOut(e, "status") EXCEPT !.state = "EP0_STATUS"]
      [] e.state = "EP0_OUT_DATA_PHASE" -> [StartIn(e, Zero) EXCEPT !.state = "EP0_STATUS"]
      [] e.state = "EP0_STATUS" -> OutStart(e)
      [] e.state \in {"EP0_IDLE", "EP0_DISCONNECT"} -> e

\* Faulty variant: the address survives a bus reset.
DevReset_KeepsAddress(e) ==
    [e EXCEPT !.outNak = TRUE, !.inState = "idle", !.outBuf = "setup_pkt"]

\* Faulty variant: endpoint 0 OUT keeps its buffer.
DevReset_KeepsBuffer(e) == [e EXCEPT !.outNak = TRUE, !.inState = "idle", !.addr = {}]

\* usb_dev_reset: NAK on OUT, an enabled IN endpoint disabled, address 0 and
\* the setup buffer; ep0state and the enable bit of OUT are left alone.
DevReset(e) ==
    [e EXCEPT !.outNak = TRUE, !.inState = "idle", !.outBuf = "setup_pkt", !.addr = {}]

\* device_int_enum_done.
EnumDone(e) == [e EXCEPT !.state = "EP0_IDLE", !.outEna = TRUE]

Init ==
    /\ stage = "reset" /\ req = NoRequest /\ hostAddr = {}
    /\ requests = 0 /\ resets = 1 /\ lastReset = "quiet"
    /\ usbRst = TRUE /\ enumDone = FALSE
    /\ setUp = FALSE /\ outDone = FALSE /\ inDone = FALSE /\ fifo = NoPacket
    /\ setup_pkt = NoRequest
    /\ ep0 = [state |-> "EP0_DISCONNECT", outBuf |-> "setup_pkt", outEna |-> FALSE,
              outNak |-> FALSE, inPkt |-> Zero, inState |-> "idle",
              stall |-> FALSE, addr |-> {}]
    /\ isr = [at |-> "none", causes |-> {}]

-----------------------------------------------------------------------------
(* The host and the controller (external).                                 *)

\* The causes GINTSTS shows, of those the handler acts on.
OutPending == setUp \/ outDone
GintCauses ==
    (IF usbRst THEN {"RST"} ELSE {}) \cup (IF enumDone THEN {"ENUM"} ELSE {})
      \cup (IF OutPending THEN {"OUT"} ELSE {}) \cup (IF inDone THEN {"IN"} ELSE {})

\* A bus reset: the transfer in progress and the address are forgotten.
BusReset ==
    /\ resets < MaxResets
    /\ resets' = resets + 1
    /\ stage' = "reset" /\ hostAddr' = {}
    /\ usbRst' = TRUE
    /\ UNCHANGED <<req, requests, enumDone, setUp, outDone, inDone, fifo, setup_pkt, ep0, isr>>

\* The device has nothing to report or to send, and the handler has returned.
Quiet ==
    /\ GintCauses = {} /\ ep0.inState = "idle"
    /\ isr.at = "none"

\* A host resets the bus when the device has been silent for long.
HostReset == Quiet /\ BusReset /\ lastReset' = "quiet"

\* A host resets the bus while the device is handling its request.
HostResetRacy == ~Quiet /\ BusReset /\ lastReset' = "racy"

\* The reset ends: the controller has found the speed of the bus.
EndOfReset ==
    /\ stage = "reset"
    /\ stage' = "idle"
    /\ enumDone' = TRUE
    /\ UNCHANGED <<req, hostAddr, requests, resets, usbRst, setUp, outDone, inDone, fifo,
                   setup_pkt, ep0, isr>>

\* A reset lasts ten milliseconds: the handler has run meanwhile ...
SpeedFound == ~usbRst /\ isr.at = "none" /\ EndOfReset /\ UNCHANGED lastReset

\* ... unless a bulk command, which runs with the interrupt masked, takes longer.
SpeedFoundRacy == usbRst /\ EndOfReset /\ lastReset' = "racy"

\* A control transfer starts with a SETUP packet: the DMA writes it where
\* DOEPDMA0 points.  A host that has given the device an address does not
\* give it another one before the next reset.
Setup ==
    /\ stage = "idle" /\ requests < MaxRequests
    /\ ep0.outEna /\ ep0.addr = hostAddr
    /\ \E r \in Requests :
         /\ (r.op = "SET_ADDRESS") <=> (r.addr # {})
         /\ r.op = "SET_ADDRESS" => hostAddr = {}
         /\ req' = r
         /\ stage' = FirstStage(r)
         /\ setup_pkt' = IF ep0.outBuf = "setup_pkt" THEN r ELSE setup_pkt
    /\ requests' = requests + 1
    /\ setUp' = TRUE
    /\ ep0' = [ep0 EXCEPT !.outEna = FALSE, !.outNak = TRUE, !.stall = FALSE]
    /\ UNCHANGED <<hostAddr, resets, usbRst, enumDone, outDone, inDone, fifo, isr>>

\* The host leaves the device ten milliseconds after the end of a reset, and
\* the handler has run meanwhile, unless a bulk command takes longer.
Recovered == ~enumDone /\ "ENUM" \notin isr.causes

HostSetup     == Recovered /\ Setup /\ UNCHANGED lastReset
HostSetupRacy == ~Recovered /\ Setup /\ lastReset' = "racy"

\* The DMA copies the packet of endpoint 0 IN to the transmit FIFO ...
DmaFetch ==
    /\ ep0.inState = "armed" /\ fifo = NoPacket
    /\ fifo' = ep0.inPkt
    /\ ep0' = [ep0 EXCEPT !.inState = "fetched"]
    /\ UNCHANGED <<hostVars, usbRst, enumDone, setUp, outDone, inDone, setup_pkt, isr>>

\* ... and reports the transfer complete, before or after the host reads it.
DmaComplete ==
    /\ ep0.inState = "fetched"
    /\ ep0' = [ep0 EXCEPT !.inState = "idle"]
    /\ inDone' = TRUE
    /\ UNCHANGED <<hostVars, usbRst, enumDone, setUp, outDone, fifo, setup_pkt, isr>>

\* The host reads a packet, in a data stage or in a status stage.
HostIn ==
    /\ stage \in {"dataIn", "statusIn"}
    /\ ~ep0.stall /\ fifo # NoPacket
    /\ fifo' = NoPacket
    /\ stage' = IF stage = "dataIn" THEN "statusOut" ELSE "idle"
    /\ hostAddr' = IF stage = "statusIn" THEN hostAddr \cup req.addr ELSE hostAddr
    /\ UNCHANGED <<req, requests, resets, lastReset, usbRst, enumDone, setUp, outDone,
                   inDone, setup_pkt, ep0, isr>>

\* The host writes a packet: its data, or the empty one of a status stage.
HostOut ==
    /\ stage \in {"dataOut", "statusOut"}
    /\ ep0.outEna /\ ~ep0.outNak
    /\ ep0' = [ep0 EXCEPT !.outEna = FALSE]
    /\ outDone' = TRUE
    /\ stage' = IF stage = "dataOut" THEN "statusIn" ELSE "idle"
    /\ UNCHANGED <<req, hostAddr, requests, resets, lastReset, usbRst, enumDone, setUp,
                   inDone, fifo, setup_pkt, isr>>

\* The host finds the endpoint stalled and gives the request up.
HostStalled ==
    /\ stage \in {"dataIn", "statusIn"} /\ ep0.stall
    /\ stage' = "idle"
    /\ UNCHANGED <<req, hostAddr, requests, resets, lastReset, ctlVars, setup_pkt, ep0, isr>>

-----------------------------------------------------------------------------
(* bsp_usb_handler.                                                        *)

\* GINTSTS is read and written back, which clears the bits of its own.
IsrEnter ==
    /\ isr.at = "none" /\ GintCauses # {}
    /\ isr' = [at |-> "reset", causes |-> GintCauses]
    /\ usbRst' = FALSE /\ enumDone' = FALSE
    /\ UNCHANGED <<hostVars, setUp, outDone, inDone, fifo, setup_pkt, ep0>>

\* usb_dev_reset, which also flushes the transmit FIFO.
IsrReset ==
    /\ isr.at = "reset"
    /\ isr' = [isr EXCEPT !.at = "enum"]
    /\ IF "RST" \in isr.causes
         THEN ep0' = DevReset(ep0) /\ fifo' = NoPacket
         ELSE UNCHANGED <<ep0, fifo>>
    /\ UNCHANGED <<hostVars, usbRst, enumDone, setUp, outDone, inDone, setup_pkt>>

\* device_int_enum_done.
IsrEnum ==
    /\ isr.at = "enum"
    /\ isr' = [isr EXCEPT !.at = "out"]
    /\ ep0' = IF "ENUM" \in isr.causes THEN EnumDone(ep0) ELSE ep0
    /\ UNCHANGED <<hostVars, ctlVars, setup_pkt>>

\* device_int_out_ep, endpoint 0: a SETUP first, then a completed transfer.
IsrOut ==
    /\ isr.at = "out"
    /\ isr' = [isr EXCEPT !.at = "in"]
    /\ IF "OUT" \in isr.causes
         THEN LET e == IF setUp THEN SetupPhase(ep0, setup_pkt) ELSE ep0
              IN  /\ ep0' = IF outDone THEN HandleEp0(e) ELSE e
                  /\ setUp' = FALSE /\ outDone' = FALSE
         ELSE UNCHANGED <<ep0, setUp, outDone>>
    /\ UNCHANGED <<hostVars, usbRst, enumDone, inDone, fifo, setup_pkt>>

\* device_int_in_ep, endpoint 0.  The handler returns.
IsrIn ==
    /\ isr.at = "in"
    /\ isr' = [at |-> "none", causes |-> {}]
    /\ IF "IN" \in isr.causes /\ inDone
         THEN ep0' = HandleEp0(ep0) /\ inDone' = FALSE
         ELSE UNCHANGED <<ep0, inDone>>
    /\ UNCHANGED <<hostVars, usbRst, enumDone, setUp, outDone, fifo, setup_pkt>>

-----------------------------------------------------------------------------
HostNext == \/ HostReset \/ HostResetRacy \/ HostSetup \/ HostSetupRacy
            \/ HostIn \/ HostOut \/ HostStalled
CtlNext  == SpeedFound \/ SpeedFoundRacy \/ DmaFetch \/ DmaComplete
IsrNext  == IsrEnter \/ IsrReset \/ IsrEnum \/ IsrOut \/ IsrIn

Next == HostNext \/ CtlNext \/ IsrNext

Spec == Init /\ [][Next]_vars

\* The handler runs, the controller makes progress, and the host goes on with
\* the transfer it has started.  Nothing obliges it to start one.
Fairness ==
    /\ WF_vars(IsrNext) /\ WF_vars(SpeedFound) /\ WF_vars(DmaFetch) /\ WF_vars(DmaComplete)
    /\ WF_vars(HostIn) /\ WF_vars(HostOut) /\ WF_vars(HostStalled)

FairSpec == Spec /\ Fairness

-----------------------------------------------------------------------------
(* Properties                                                              *)

\* Every variable has its type.
TypeOK ==
    /\ stage \in {"reset", "idle", "dataIn", "dataOut", "statusIn", "statusOut"}
    /\ req \in Requests \cup {NoRequest}
    /\ hostAddr \in SUBSET AddressBits
    /\ requests \in 0..MaxRequests /\ resets \in 1..MaxResets
    /\ lastReset \in {"quiet", "racy"}
    /\ usbRst \in BOOLEAN /\ enumDone \in BOOLEAN
    /\ setUp \in BOOLEAN /\ outDone \in BOOLEAN /\ inDone \in BOOLEAN
    /\ fifo \in Packets \cup {NoPacket}
    /\ setup_pkt \in Requests \cup {NoRequest}
    /\ ep0 \in Endpoint0
    /\ isr \in [at : {"none", "reset", "enum", "out", "in"},
                causes : SUBSET {"RST", "ENUM", "OUT", "IN"}]

\* The device has met the last bus reset in peace, however it met those before,
\* and the host has gone on without haste.
Met == lastReset = "quiet"

\* The firmware never acts on anything but the request the host made last.
RequestIntact == Met /\ setUp => setup_pkt = req

\* What the firmware sends is for the stage the host is in: the data of the
\* host's own request in a data stage, an empty packet in a status stage.
PacketForStage ==
    Met =>
      /\ stage = "dataIn" /\ fifo # NoPacket =>
           fifo = IF req.op = "GET_MAX_LUN" THEN Zero ELSE Data(req)
      /\ stage = "statusIn" /\ fifo # NoPacket => fifo = Zero
      /\ stage \notin {"dataIn", "statusIn", "reset"} => fifo = NoPacket

\* Between control transfers host and device agree on the device's address.
AddressAgreed ==
    Met /\ stage = "idle" /\ ~usbRst /\ isr.at = "none" => ep0.addr = hostAddr

\* Every request that setup_phase has a case for comes to the end of its
\* status stage, or of its stall, unless the host resets the bus.
RequestsCompleted ==
    Met /\ stage \notin {"idle", "reset"} /\ req.op \notin Unknown
      ~> stage \in {"idle", "reset"} \/ ~Met

\* Endpoint 0 waits for a SETUP in the setup buffer, at address 0.
Ready == ep0.outEna /\ ep0.outBuf = "setup_pkt" /\ ep0.addr = {}

\* Whatever requests and resets came before, a bus reset the device meets in
\* peace makes it ready for the host's next request.
ResetRecovers == Met /\ stage = "reset" ~> Ready \/ ~Met

\* device_int_enum_done, on its last assignments: "enable ep0 to receive
\* setup packets".
EnabledForSetup == ep0.state = "EP0_IDLE" /\ ep0.outEna => ep0.outBuf = "setup_pkt"

\* After a bus reset it has met in peace, the device has that buffer whenever it
\* waits for a SETUP, whatever the resets before have left behind.
WaitsForSetup == Met /\ stage # "reset" => EnabledForSetup
=============================================================================
