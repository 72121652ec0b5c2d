----------------------------- MODULE UsbDevice -----------------------------
(***************************************************************************)
(* The bulk command engine of the GPIO board firmware: the USB OTG         *)
(* interrupt service routine (usbdevice_interrupt.c), the USB task         *)
(* (USBSrvTask in telnet.c, USBQHandle in usb.c, ata_cbw and CMD_Parsing   *)
(* in usb_ata.c), the one-slot CBW and CSW buffers they share, and the     *)
(* controller and the host at the other end of the cable (external).       *)
(*                                                                         *)
(* A host writes a command block (CBW) to bulk endpoint 2.  The interrupt  *)
(* service routine masks the USB interrupt and posts a message to USBQ;    *)
(* the USB task parses the command in the CBW buffer, builds the response  *)
(* in the CSW buffer, starts the transfer on bulk endpoint 1 and unmasks   *)
(* the interrupt; the completion of that transfer re-arms endpoint 2.      *)
(*                                                                         *)
(* A command is a sequence number and a type.  A response carries the      *)
(* sequence number and the type it echoes, and in "body" the number of     *)
(* the command whose outcome its Length, bCSWStatus and data fields hold.  *)
(***************************************************************************)
EXTENDS Naturals, Sequences

CONSTANTS
    Types,        \* values of the Type byte the host uses
    Supported,    \* the ones CMD_Parsing has a case for
    MaxCmds,      \* bound: commands the host sends
    MaxDisturb,   \* bound: resets and reconfigurations of a configured device
    QSize         \* slots of USBMsg, the storage of USBQ

ASSUME ConstantsAssumption ==
    /\ Supported \subseteq Types
    /\ MaxCmds \in Nat
    /\ MaxDisturb \in Nat
    /\ QSize \in Nat \ {0}

VARIABLES
    \* the host and the controller
    host,       \* "detached", "default", "configuring", "configured"
    sent,       \* commands the host has sent; the last one's SEQ
    rcvd,       \* responses the host has read, in order
    disturbed,  \* resets and reconfigurations of a configured device so far
    attached,   \* DCTL.SftDiscon clear and GAHBCFG.GlblIntrMsk set
    usbRst,     \* GINTSTS.USBRst
    setup,      \* DOEPINT0.SetUp: a SET_CONFIGURATION is in setup_pkt
    epsOn,      \* DAINTMSK lets endpoint 1 IN and endpoint 2 OUT interrupt
    outReady,   \* DOEPCTL2.EPEna and no NAK: the CBW buffer may be written
    outDone,    \* DOEPINT2.XferCompl
    inState,    \* endpoint 1 IN: "idle", "armed" (EPEna) or "fetched" (EPEna)
    inDone,     \* DIEPINT1.XferCompl
    txfifo,     \* responses in the transmit FIFO of endpoint 1
    \* shared memory
    CBW,        \* usbcb.CBW, the buffer of the OUT transfer
    CSW,        \* usbcb.CSW, the buffer of the IN transfer
    epstate,    \* usbcb.epstate
    USBQ,       \* the queue between the interrupt and the task
    \* the CPU
    isr,        \* where bsp_usb_handler is, and its snapshots of the causes
    irqMasked,  \* the USB bit of ESTATUS.IM is clear
    taskIe,     \* the interrupt enable bit the USB task runs with
    cpu_sr,     \* the global variable OS_ENTER_CRITICAL saves it to
    pc          \* where USBSrvTask is

hostVars == <<host, sent, rcvd, disturbed>>
ctlVars  == <<attached, usbRst, setup, epsOn, outReady, outDone, inState, inDone, txfifo>>
memVars  == <<CBW, CSW, epstate, USBQ>>
cpuVars  == <<isr, irqMasked, taskIe, cpu_sr, pc>>
vars     == <<hostVars, ctlVars, memVars, cpuVars>>

NoType   == "none"           \* the Type byte of a buffer nobody has filled
Seqs     == 0..MaxCmds
Commands == [seq : Seqs, type : Types \cup {NoType}]
Replies  == [seq : Seqs, type : Types \cup {NoType}, body : Seqs]

NoCommand == [seq |-> 0, type |-> NoType]
NoReply   == [seq |-> 0, type |-> NoType, body |-> 0]

IsrSteps  == {"none", "reset", "out0", "out2", "in"}
IsrCauses == {"RST", "OUT", "OUT0", "OUT2", "IN"}
TaskSteps == {"init", "pend", "enter", "header", "exec", "send", "unmask", "exit"}

Init ==
    /\ host = "detached" /\ sent = 0 /\ rcvd = <<>> /\ disturbed = 0
    /\ attached = FALSE /\ usbRst = FALSE /\ setup = FALSE /\ epsOn = FALSE
    /\ outReady = FALSE /\ outDone = FALSE
    /\ inState = "idle" /\ inDone = FALSE /\ txfifo = <<>>
    /\ CBW = NoCommand /\ CSW = NoReply /\ epstate = "EP_CBW" /\ USBQ = <<>>
    /\ isr = [at |-> "none", causes |-> {}]
    /\ irqMasked = TRUE /\ taskIe = TRUE /\ cpu_sr = TRUE /\ pc = "init"

-----------------------------------------------------------------------------
(* The host and the controller (external).                                 *)

\* The host resets the bus: on attachment, and while it is enumerating.
HostReset ==
    /\ attached
    /\ host # "configured"
    /\ host' = "default"
    /\ usbRst' = TRUE
    /\ UNCHANGED <<sent, rcvd, disturbed, attached, setup, epsOn, outReady,
                   outDone, inState, inDone, txfifo, memVars, cpuVars>>

\* The host sends SET_CONFIGURATION to endpoint 0.  It leaves the device ten
\* milliseconds after a reset, which one run of the handler never lasts: a
\* handler that has not seen the reset has returned.
HostConfigure ==
    /\ host = "default"
    /\ usbRst => isr.at = "none"
    /\ host' = "configuring"
    /\ setup' = TRUE
    /\ UNCHANGED <<sent, rcvd, disturbed, attached, usbRst, epsOn, outReady,
                   outDone, inState, inDone, txfifo, memVars, cpuVars>>

\* The host sends a command and the controller's DMA writes it to the CBW.
HostSend ==
    /\ attached /\ host = "configured" /\ outReady
    /\ sent < MaxCmds
    /\ sent' = sent + 1
    /\ \E t \in Types : CBW' = [seq |-> sent + 1, type |-> t]
    /\ outReady' = FALSE
    /\ outDone' = TRUE
    /\ UNCHANGED <<host, rcvd, disturbed, attached, usbRst, setup, epsOn,
                   inState, inDone, txfifo, CSW, epstate, USBQ, cpuVars>>

\* The DMA copies the response from the CSW buffer to the transmit FIFO.
DmaFetch ==
    /\ inState = "armed" /\ txfifo = <<>>
    /\ txfifo' = <<CSW>>
    /\ inState' = "fetched"
    /\ UNCHANGED <<hostVars, attached, usbRst, setup, epsOn, outReady, outDone,
                   inDone, memVars, cpuVars>>

\* The controller reports the transfer complete, before or after the host
\* has taken the packet from the FIFO.
DmaComplete ==
    /\ inState = "fetched"
    /\ inState' = "idle"
    /\ inDone' = TRUE
    /\ UNCHANGED <<hostVars, attached, usbRst, setup, epsOn, outReady, outDone,
                   txfifo, memVars, cpuVars>>

\* The host reads a response.
HostRead ==
    /\ attached /\ host = "configured"
    /\ txfifo # <<>>
    /\ rcvd' = Append(rcvd, Head(txfifo))
    /\ txfifo' = Tail(txfifo)
    /\ UNCHANGED <<host, sent, disturbed, attached, usbRst, setup, epsOn,
                   outReady, outDone, inState, inDone, memVars, cpuVars>>

\* A host that resets a configured device, or configures it once more,
\* whatever the device is doing.
HostDisturb ==
    /\ attached /\ host = "configured"
    /\ disturbed < MaxDisturb
    /\ disturbed' = disturbed + 1
    /\ \/ host' = "default" /\ usbRst' = TRUE /\ UNCHANGED setup
       \/ host' = "configuring" /\ setup' = TRUE /\ UNCHANGED usbRst
    /\ UNCHANGED <<sent, rcvd, attached, epsOn, outReady, outDone, inState,
                   inDone, txfifo, memVars, cpuVars>>

-----------------------------------------------------------------------------
(* The interrupt service routine, bsp_usb_handler.                         *)

\* The USB task has given up the CPU: in OSQPend, or in the OSTimeDly of
\* the wait for endpoint 1.  The other tasks run with interrupts enabled.
TaskBlocked ==
    \/ pc = "pend" /\ USBQ = <<>>
    \/ pc = "send" /\ inState # "idle"

\* The causes GINTSTS shows: the endpoint bits come from DAINT & DAINTMSK.
OutCauses == (IF setup THEN {"OUT0"} ELSE {}) \cup (IF epsOn /\ outDone THEN {"OUT2"} ELSE {})
GintCauses ==
    (IF usbRst THEN {"RST"} ELSE {})
      \cup (IF OutCauses # {} THEN {"OUT"} ELSE {})
      \cup (IF epsOn /\ inDone THEN {"IN"} ELSE {})

\* bsp_usb_handler is entered, reads GINTSTS and writes it back to clear it.
IsrEnter ==
    /\ isr.at = "none"
    /\ attached /\ ~irqMasked
    /\ taskIe \/ TaskBlocked
    /\ GintCauses # {}
    /\ isr' = [at |-> "reset", causes |-> GintCauses]
    /\ usbRst' = FALSE
    /\ UNCHANGED <<hostVars, attached, setup, epsOn, outReady, outDone, inState,
                   inDone, txfifo, memVars, irqMasked, taskIe, cpu_sr, pc>>

\* usb_dev_reset: NAK on every OUT endpoint, every enabled IN endpoint
\* disabled, FIFO 0 flushed (whether endpoint 1's packet survives is the
\* controller's choice), only endpoint 0 left in DAINTMSK.  No endpoint
\* interrupt bit is cleared and epstate is left alone.
IsrReset ==
    /\ isr.at = "reset"
    /\ IF "RST" \in isr.causes
         THEN /\ outReady' = FALSE
              /\ inState' = "idle"
              /\ txfifo' \in {txfifo, <<>>}
              /\ epsOn' = FALSE
         ELSE UNCHANGED <<outReady, inState, txfifo, epsOn>>
    /\ isr' = [isr EXCEPT !.at = "out0"]
    /\ UNCHANGED <<hostVars, attached, usbRst, setup, outDone, inDone, memVars,
                   irqMasked, taskIe, cpu_sr, pc>>

\* device_int_out_ep reads DAINT and handles endpoint 0: setup_phase of
\* SET_CONFIGURATION activates both bulk endpoints and arms endpoint 2.
IsrOut0 ==
    /\ isr.at = "out0"
    /\ LET eps == IF "OUT" \in isr.causes THEN OutCauses ELSE {}
       IN  /\ IF "OUT0" \in eps
                THEN /\ setup' = FALSE
                     /\ epsOn' = TRUE
                     /\ outReady' = TRUE
                     /\ host' = IF host = "configuring" THEN "configured" ELSE host
                ELSE UNCHANGED <<setup, epsOn, outReady, host>>
           /\ isr' = [at |-> "out2", causes |-> isr.causes \cup eps]
    /\ UNCHANGED <<sent, rcvd, disturbed, attached, usbRst, outDone, inState,
                   inDone, txfifo, memVars, irqMasked, taskIe, cpu_sr, pc>>

\* Faulty variant: the interrupt is not masked when a command is posted.
IsrOut2_NoMask ==
    /\ isr.at = "out2"
    /\ IF "OUT2" \in isr.causes
         THEN /\ outDone' = FALSE
              /\ USBQ' = Append(USBQ, "USB_CBW")
         ELSE UNCHANGED <<outDone, USBQ>>
    /\ isr' = [isr EXCEPT !.at = "in"]
    /\ UNCHANGED <<hostVars, attached, usbRst, setup, epsOn, outReady, inState,
                   inDone, txfifo, CBW, CSW, epstate, irqMasked, taskIe, cpu_sr, pc>>

\* device_int_out_ep, endpoint 2: a completed OUT transfer in state EP_CBW
\* masks the USB interrupt and posts USB_CBW; the result of OSQPost is not
\* looked at.
IsrOut2 ==
    /\ isr.at = "out2"
    /\ IF "OUT2" \in isr.causes
         THEN /\ outDone' = FALSE
              /\ IF epstate = "EP_CBW"
                   THEN /\ irqMasked' = TRUE
                        /\ USBQ' = IF Len(USBQ) < QSize THEN Append(USBQ, "USB_CBW") ELSE USBQ
                   ELSE UNCHANGED <<irqMasked, USBQ>>
         ELSE UNCHANGED <<outDone, irqMasked, USBQ>>
    /\ isr' = [isr EXCEPT !.at = "in"]
    /\ UNCHANGED <<hostVars, attached, usbRst, setup, epsOn, outReady, inState,
                   inDone, txfifo, CBW, CSW, epstate, taskIe, cpu_sr, pc>>

\* Faulty variant: the completion of a response does not re-arm endpoint 2.
IsrIn_NoRearm ==
    /\ isr.at = "in"
    /\ inDone' = IF "IN" \in isr.causes THEN FALSE ELSE inDone
    /\ isr' = [at |-> "none", causes |-> {}]
    /\ UNCHANGED <<hostVars, attached, usbRst, setup, epsOn, outReady, outDone,
                   inState, txfifo, memVars, irqMasked, taskIe, cpu_sr, pc>>

\* device_int_in_ep, endpoint 1: a completed IN transfer re-arms endpoint 2
\* for the next command.  The handler returns.
IsrIn ==
    /\ isr.at = "in"
    /\ IF "IN" \in isr.causes /\ epsOn /\ inDone
         THEN /\ inDone' = FALSE
              /\ epstate' = "EP_CBW"
              /\ outReady' = TRUE
         ELSE UNCHANGED <<inDone, epstate, outReady>>
    /\ isr' = [at |-> "none", causes |-> {}]
    /\ UNCHANGED <<hostVars, attached, usbRst, setup, epsOn, outDone, inState,
                   txfifo, CBW, CSW, USBQ, irqMasked, taskIe, cpu_sr, pc>>

-----------------------------------------------------------------------------
(* The USB task.  It runs only when the handler does not.                  *)

TaskAt(step) == pc = step /\ isr.at = "none"

\* USBSrvTask before its loop: otg_usb_disabled, otg_usb_init (with
\* usb_dev_init) and otg_usb_enabled.
TaskInit ==
    /\ TaskAt("init")
    /\ epstate' = "EP_CBW"
    /\ attached' = TRUE
    /\ irqMasked' = FALSE
    /\ pc' = "pend"
    /\ UNCHANGED <<hostVars, usbRst, setup, epsOn, outReady, outDone, inState,
                   inDone, txfifo, CBW, CSW, USBQ, isr, taskIe, cpu_sr>>

\* OSQPend returns a message.
TaskPend ==
    /\ TaskAt("pend")
    /\ USBQ # <<>>
    /\ USBQ' = Tail(USBQ)
    /\ pc' = "enter"
    /\ UNCHANGED <<hostVars, ctlVars, CBW, CSW, epstate, isr, irqMasked, taskIe, cpu_sr>>

\* OS_ENTER_CRITICAL of USBSrvTask saves the enable bit in the global cpu_sr.
TaskEnter ==
    /\ TaskAt("enter")
    /\ cpu_sr' = taskIe
    /\ taskIe' = FALSE
    /\ pc' = "header"
    /\ UNCHANGED <<hostVars, ctlVars, memVars, isr, irqMasked>>

\* Faulty variant: the response is numbered one too high.
TaskHeader_OffByOne ==
    /\ TaskAt("header")
    /\ CSW' = [CSW EXCEPT !.seq = CBW.seq + 1, !.type = CBW.type]
    /\ cpu_sr' = taskIe
    /\ taskIe' = FALSE
    /\ pc' = "exec"
    /\ UNCHANGED <<hostVars, ctlVars, CBW, epstate, USBQ, isr, irqMasked>>

\* CMD_Parsing echoes the header and enters the nested critical section,
\* which saves the enable bit in the same variable.
TaskHeader ==
    /\ TaskAt("header")
    /\ CSW' = [CSW EXCEPT !.seq = CBW.seq, !.type = CBW.type]
    /\ cpu_sr' = taskIe
    /\ taskIe' = FALSE
    /\ pc' = "exec"
    /\ UNCHANGED <<hostVars, ctlVars, CBW, epstate, USBQ, isr, irqMasked>>

\* Faulty variant: a case of the dispatch forgets to fill the CSW.
TaskExec_StaleStatus ==
    /\ TaskAt("exec")
    /\ taskIe' = cpu_sr
    /\ pc' = "send"
    /\ UNCHANGED <<hostVars, ctlVars, memVars, isr, irqMasked, cpu_sr>>

\* Faulty variant: a type without a case is not answered.
TaskExec_Unanswered ==
    /\ TaskAt("exec")
    /\ CSW' = IF CBW.type \in Supported THEN [CSW EXCEPT !.body = CBW.seq] ELSE CSW
    /\ taskIe' = cpu_sr
    /\ pc' = IF CBW.type \in Supported THEN "send" ELSE "unmask"
    /\ UNCHANGED <<hostVars, ctlVars, CBW, epstate, USBQ, isr, irqMasked, cpu_sr>>

\* CMD_Parsing dispatches on the type, fills Length, bCSWStatus and data of
\* the CSW for the types it supports, and leaves the critical section.
TaskExec ==
    /\ TaskAt("exec")
    /\ CSW' = IF CBW.type \in Supported THEN [CSW EXCEPT !.body = CBW.seq] ELSE CSW
    /\ taskIe' = cpu_sr
    /\ pc' = "send"
    /\ UNCHANGED <<hostVars, ctlVars, CBW, epstate, USBQ, isr, irqMasked, cpu_sr>>

\* dwc_otg_ep_start_transfer: endpoint 1 is free and is given the response.
TaskSend ==
    /\ TaskAt("send")
    /\ inState = "idle"
    /\ inState' = "armed"
    /\ pc' = "unmask"
    /\ UNCHANGED <<hostVars, attached, usbRst, setup, epsOn, outReady, outDone,
                   inDone, txfifo, memVars, isr, irqMasked, taskIe, cpu_sr>>

\* dwc_otg_ep_start_transfer: endpoint 1 stayed enabled for ten seconds;
\* otg_usb_disabled disconnects the device and the response is dropped.
TaskSendTimeout ==
    /\ TaskAt("send")
    /\ inState # "idle"
    /\ attached' = FALSE
    /\ irqMasked' = TRUE
    /\ host' = "detached"
    /\ pc' = "unmask"
    /\ UNCHANGED <<sent, rcvd, disturbed, usbRst, setup, epsOn, outReady, outDone,
                   inState, inDone, txfifo, memVars, isr, taskIe, cpu_sr>>

\* Faulty variant: endpoint 2 is re-armed as soon as the response is started.
TaskUnmask_Rearm ==
    /\ TaskAt("unmask")
    /\ irqMasked' = FALSE
    /\ outReady' = TRUE
    /\ pc' = "exit"
    /\ UNCHANGED <<hostVars, attached, usbRst, setup, epsOn, outDone, inState,
                   inDone, txfifo, memVars, isr, taskIe, cpu_sr>>

\* Faulty variant: the interrupt is left masked.
TaskUnmask_Forgotten ==
    /\ TaskAt("unmask")
    /\ pc' = "exit"
    /\ UNCHANGED <<hostVars, ctlVars, memVars, isr, irqMasked, taskIe, cpu_sr>>

\* ata_cbw unmasks the USB interrupt.
TaskUnmask ==
    /\ TaskAt("unmask")
    /\ irqMasked' = FALSE
    /\ pc' = "exit"
    /\ UNCHANGED <<hostVars, ctlVars, memVars, isr, taskIe, cpu_sr>>

\* OS_EXIT_CRITICAL of USBSrvTask; the message is freed and the loop repeats.
TaskExit ==
    /\ TaskAt("exit")
    /\ taskIe' = cpu_sr
    /\ pc' = "pend"
    /\ UNCHANGED <<hostVars, ctlVars, memVars, isr, irqMasked, cpu_sr>>

-----------------------------------------------------------------------------
HostNext == HostReset \/ HostConfigure \/ HostSend \/ HostRead
CtlNext  == DmaFetch \/ DmaComplete
IsrNext  == IsrEnter \/ IsrReset \/ IsrOut0 \/ IsrOut2 \/ IsrIn
TaskNext ==
    \/ TaskInit \/ TaskPend \/ TaskEnter \/ TaskHeader \/ TaskExec
    \/ TaskSend \/ TaskSendTimeout \/ TaskUnmask \/ TaskExit

Next == HostNext \/ CtlNext \/ IsrNext \/ TaskNext

\* The host enumerates the device once and then only sends commands and
\* reads responses.
Spec == Init /\ [][Next]_vars

\* The host also resets and reconfigures the device while it is in use.
DisturbSpec == Init /\ [][Next \/ HostDisturb]_vars

-----------------------------------------------------------------------------
(* Fairness.  The USB task has the highest priority of the tasks that run  *)
(* and the CPU does not starve it; a pending, unmasked interrupt is taken; *)
(* the DMA makes progress; the host finishes the enumeration it started    *)
(* and reads what it is offered.  Nothing obliges it to send commands.     *)
DeviceFairness == WF_vars(IsrNext) /\ WF_vars(TaskNext) /\ WF_vars(DmaFetch) /\ WF_vars(DmaComplete)
HostFairness   == WF_vars(HostConfigure) /\ WF_vars(HostRead)

DisturbFairSpec == DisturbSpec /\ DeviceFairness /\ HostFairness /\ WF_vars(HostSend)

-----------------------------------------------------------------------------
(* Properties                                                              *)

HostTypeOK ==
    /\ host \in {"detached", "default", "configuring", "configured"}
    /\ sent \in Seqs
    /\ rcvd \in Seq(Replies)
    /\ disturbed \in 0..MaxDisturb
CtlTypeOK ==
    /\ attached \in BOOLEAN /\ usbRst \in BOOLEAN /\ setup \in BOOLEAN
    /\ epsOn \in BOOLEAN /\ outReady \in BOOLEAN /\ outDone \in BOOLEAN
    /\ inState \in {"idle", "armed", "fetched"}
    /\ inDone \in BOOLEAN
    /\ txfifo \in Seq(Replies)
MemTypeOK ==
    /\ CBW \in Commands
    /\ CSW \in Replies
    /\ epstate \in {"EP_CBW", "EP_CSW"}
    /\ USBQ \in Seq({"USB_CBW"})
CpuTypeOK ==
    /\ isr \in [at : IsrSteps, causes : SUBSET IsrCauses]
    /\ irqMasked \in BOOLEAN /\ taskIe \in BOOLEAN /\ cpu_sr \in BOOLEAN
    /\ pc \in TaskSteps

\* Every variable of the host, the controller, the shared memory and the CPU
\* has its type.
TypeOK == HostTypeOK /\ CtlTypeOK /\ MemTypeOK /\ CpuTypeOK

\* The task holds a message it has not answered yet.
Serving == pc \in {"enter", "header", "exec", "send", "unmask"}

\* Whatever the host does, the USB interrupt stays masked from the posting
\* of a command to the start of its response, so at most one message is ever
\* between the interrupt and the end of ata_cbw: the unchecked OSQPost of
\* device_int_out_ep cannot meet a full queue, and no second command is
\* posted while the first one is parsed.
OneInFlight ==
    /\ USBQ # <<>> \/ Serving => irqMasked
    /\ Len(USBQ) <= 1
    /\ ~(USBQ # <<>> /\ Serving)

\* Whatever the host does, a masked USB interrupt is unmasked again: no path
\* of the task or of the handler returns to waiting with the mask set.
MaskReleased == irqMasked ~> ~irqMasked

\* A host that in the end leaves the device configured can send it all its
\* commands, whatever resets and reconfigurations it went through before:
\* endpoint 2 is always armed again, unless the device has disconnected
\* itself because a response was left unread for ten seconds.
NeverWedged == <>[](host = "configured") => <>(sent = MaxCmds)

\* The command in the CBW buffer has not been performed yet; the response in
\* the CSW buffer has not been fetched by the controller yet.
Requested == outDone \/ USBQ # <<>> \/ pc \in {"enter", "header", "exec"}
Responding == pc = "send" \/ inState = "armed"

\* Places the right to use the command buffers can be in.
Baton == <<outReady, outDone, USBQ # <<>>, pc \in {"enter", "header", "exec", "send"},
           inState # "idle", inDone>>

OneBaton == \A i, j \in DOMAIN Baton : Baton[i] /\ Baton[j] => i = j

\* Until the host disturbs it, the device never has the buffers in use
\* twice: endpoint 2 is armed, or a command is received, queued, served or
\* its response is being sent or completed, and never two of these at once.
SingleBaton == disturbed = 0 => OneBaton

\* Until the host disturbs the device, the command buffer does not change
\* between the reception of a command and the end of its parsing, where header
\* and data are read in several steps while the controller could write; and
\* the response buffer does not change from the start of its transfer until
\* the controller has fetched it: there is one of each, and no double
\* buffering as for the data buffers.
InUse == outDone \/ USBQ # <<>> \/ pc \in {"enter", "header", "exec"}
BuffersIntact ==
    [][disturbed' = 0 => /\ InUse => CBW' = CBW
                         /\ inState = "armed" => CSW' = CSW]_vars

\* Every command is answered, unless the host disturbs the device.
EveryCommandAnswered == \A n \in 1..MaxCmds : sent = n ~> Len(rcvd) >= n \/ disturbed > 0

\* os_cpu.h, on the method of OS_ENTER_CRITICAL this port uses: it preserves
\* "the state of interrupts".  The USB task starts with interrupts enabled,
\* so outside its critical section it should have them enabled.
InterruptStatePreserved == pc \in {"init", "pend", "enter"} => taskIe

-----------------------------------------------------------------------------
(* Inductive invariants.                                                   *)

\* Why at most one command is in flight: only an unmasked interrupt starts
\* the handler, and the handler posts only while it has not masked it.
MaskInv ==
    /\ OneInFlight
    /\ isr.at \in {"reset", "out0", "out2"} => ~irqMasked
    /\ pc = "init" => irqMasked /\ USBQ = <<>>

\* Nothing of the bulk endpoints is in use before the configuration, and a
\* configured device has no reset and no SET_CONFIGURATION to handle.
ConfigInv ==
    /\ epstate = "EP_CBW"
    /\ pc = "init" => ~attached /\ host = "detached" /\ isr.at = "none"
    /\ host = "detached" => ~setup /\ ~usbRst
    /\ host # "configured" =>
         /\ sent = 0 /\ ~outDone /\ USBQ = <<>> /\ pc \in {"init", "pend"}
         /\ inState = "idle" /\ ~inDone /\ txfifo = <<>>
    /\ host = "configuring" /\ isr.at # "none" => ~usbRst
    /\ host = "configured" => ~usbRst /\ ~setup /\ epsOn

\* What the handler's snapshots of the causes still say.
SnapshotInv ==
    /\ isr.at \in {"reset", "out0"} => isr.causes \subseteq {"RST", "OUT", "IN"}
    /\ isr.at = "reset" /\ host = "configured" => "RST" \notin isr.causes
    /\ isr.at = "out2" /\ "OUT2" \in isr.causes => outDone

\* The buffers belong to the command being served.
BufferInv ==
    /\ Requested => CBW.seq = sent /\ sent > 0
    /\ pc = "exec" => CSW.seq = CBW.seq /\ CSW.type = CBW.type
    /\ Len(txfifo) <= 1

\* Why the buffers are used by one party at a time.
EngineInv == OneBaton /\ ConfigInv /\ SnapshotInv /\ BufferInv

-----------------------------------------------------------------------------
(* Refinement: the engine implements CommandChannel.                       *)

Channel == INSTANCE CommandChannel WITH
    request <- IF Requested THEN CBW ELSE NoCommand,
    last    <- CSW.body,
    outbox  <- txfifo \o (IF Responding THEN <<CSW>> ELSE <<>>),
    broken  <- disturbed > 0

\* The commands of a host are served one at a time, in order, and answered
\* exactly once with their own outcome, until it resets or reconfigures the
\* device in use.
ImplementsChannel == Channel!Spec
=============================================================================
