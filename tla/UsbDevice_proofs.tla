-------------------------- MODULE UsbDevice_proofs --------------------------
(***************************************************************************)
(* Proofs about the bulk command engine, for every set of command types,   *)
(* every number of commands and disturbances and every size of USBQ.       *)
(***************************************************************************)
EXTENDS UsbDevice, SequenceTheorems, TLAPS

DisturbNext == Next \/ HostDisturb

-----------------------------------------------------------------------------
(* Types                                                                   *)

\* A group of variables that does not change keeps its types.
LEMMA Unchanged ==
    /\ HostTypeOK /\ UNCHANGED hostVars => HostTypeOK'
    /\ CtlTypeOK /\ UNCHANGED ctlVars => CtlTypeOK'
    /\ MemTypeOK /\ UNCHANGED memVars => MemTypeOK'
    /\ CpuTypeOK /\ UNCHANGED cpuVars => CpuTypeOK'
<1>1. HostTypeOK /\ UNCHANGED hostVars => HostTypeOK'
  BY DEF HostTypeOK, hostVars
<1>2. CtlTypeOK /\ UNCHANGED ctlVars => CtlTypeOK'
  BY DEF CtlTypeOK, ctlVars
<1>3. MemTypeOK /\ UNCHANGED memVars => MemTypeOK'
  BY DEF MemTypeOK, memVars
<1>4. CpuTypeOK /\ UNCHANGED cpuVars => CpuTypeOK'
  BY DEF CpuTypeOK, cpuVars
<1> QED BY <1>1, <1>2, <1>3, <1>4

\* Every variable keeps its type, whatever the host does.
THEOREM TypeCorrect == DisturbSpec => []TypeOK
<1> USE ConstantsAssumption DEF ConstantsAssumption
<1>1. Init => TypeOK
  <2> SUFFICES ASSUME Init PROVE TypeOK
    OBVIOUS
  <2>1. HostTypeOK BY DEF Init, HostTypeOK, Seqs
  <2>2. CtlTypeOK  BY EmptySeq DEF Init, CtlTypeOK
  <2>3. MemTypeOK
    <3>1. 0 \in Seqs  BY DEF Seqs
    <3>2. CBW \in Commands  BY <3>1 DEF Init, Commands, NoCommand
    <3>3. CSW \in Replies  BY <3>1 DEF Init, Replies, NoReply
    <3> QED BY <3>2, <3>3 DEF Init, MemTypeOK
  <2>4. CpuTypeOK BY DEF Init, CpuTypeOK, IsrSteps, TaskSteps
  <2> QED BY <2>1, <2>2, <2>3, <2>4 DEF TypeOK
<1>2. TypeOK /\ [DisturbNext]_vars => TypeOK'
  <2> SUFFICES ASSUME HostTypeOK, CtlTypeOK, MemTypeOK, CpuTypeOK, [DisturbNext]_vars
               PROVE HostTypeOK' /\ CtlTypeOK' /\ MemTypeOK' /\ CpuTypeOK'
    BY DEF TypeOK
  <2>1. CASE HostReset
    <3>1. MemTypeOK' /\ CpuTypeOK'  BY <2>1, Unchanged DEF HostReset
    <3>2. HostTypeOK'  BY <2>1 DEF HostReset, HostTypeOK
    <3>3. CtlTypeOK'  BY <2>1 DEF HostReset, CtlTypeOK
    <3> QED BY <3>1, <3>2, <3>3
  <2>2. CASE HostConfigure
    <3>1. MemTypeOK' /\ CpuTypeOK'  BY <2>2, Unchanged DEF HostConfigure
    <3>2. HostTypeOK'  BY <2>2 DEF HostConfigure, HostTypeOK
    <3>3. CtlTypeOK'  BY <2>2 DEF HostConfigure, CtlTypeOK
    <3> QED BY <3>1, <3>2, <3>3
  <2>3. CASE HostSend
    <3>1. CpuTypeOK'  BY <2>3, Unchanged DEF HostSend
    <3> sent + 1 \in Seqs  BY <2>3 DEF HostSend, HostTypeOK, Seqs
    <3>2. HostTypeOK'  BY <2>3 DEF HostSend, HostTypeOK
    <3>3. CtlTypeOK'  BY <2>3 DEF HostSend, CtlTypeOK
    <3>4. MemTypeOK'
      <4>1. CBW' \in Commands  BY <2>3 DEF HostSend, Commands
      <4> QED BY <4>1, <2>3 DEF HostSend, MemTypeOK
    <3> QED BY <3>1, <3>2, <3>3, <3>4
  <2>4. CASE HostRead
    <3>1. MemTypeOK' /\ CpuTypeOK'  BY <2>4, Unchanged DEF HostRead
    <3> Head(txfifo) \in Replies /\ Tail(txfifo) \in Seq(Replies)
      BY <2>4, HeadTailProperties DEF HostRead, CtlTypeOK
    <3>2. HostTypeOK'
      <4>1. rcvd' \in Seq(Replies)  BY <2>4, AppendProperties DEF HostRead, HostTypeOK
      <4> QED BY <4>1, <2>4 DEF HostRead, HostTypeOK
    <3>3. CtlTypeOK'  BY <2>4 DEF HostRead, CtlTypeOK
    <3> QED BY <3>1, <3>2, <3>3
  <2>5. CASE DmaFetch
    <3>1. HostTypeOK' /\ MemTypeOK' /\ CpuTypeOK'  BY <2>5, Unchanged DEF DmaFetch
    <3>2. CtlTypeOK'
      <4>1. txfifo' \in Seq(Replies)  BY <2>5 DEF DmaFetch, MemTypeOK
      <4> QED BY <4>1, <2>5 DEF DmaFetch, CtlTypeOK
    <3> QED BY <3>1, <3>2
  <2>6. CASE DmaComplete
    <3>1. HostTypeOK' /\ MemTypeOK' /\ CpuTypeOK'  BY <2>6, Unchanged DEF DmaComplete
    <3>2. CtlTypeOK'  BY <2>6 DEF DmaComplete, CtlTypeOK
    <3> QED BY <3>1, <3>2
  <2>7. CASE HostDisturb
    <3>1. MemTypeOK' /\ CpuTypeOK'  BY <2>7, Unchanged DEF HostDisturb
    <3>2. HostTypeOK'  BY <2>7 DEF HostDisturb, HostTypeOK
    <3>3. CtlTypeOK'  BY <2>7 DEF HostDisturb, CtlTypeOK
    <3> QED BY <3>1, <3>2, <3>3
  <2>8. CASE IsrEnter
    <3>1. HostTypeOK' /\ MemTypeOK'  BY <2>8, Unchanged DEF IsrEnter
    <3>2. CtlTypeOK'  BY <2>8 DEF IsrEnter, CtlTypeOK
    <3>3. CpuTypeOK'  BY <2>8 DEF IsrEnter, CpuTypeOK, GintCauses, OutCauses, IsrSteps, IsrCauses
    <3> QED BY <3>1, <3>2, <3>3
  <2>9. CASE IsrReset
    <3>1. HostTypeOK' /\ MemTypeOK'  BY <2>9, Unchanged DEF IsrReset
    <3>2. CtlTypeOK'
      <4>1. txfifo' \in Seq(Replies)  BY <2>9, EmptySeq DEF IsrReset, CtlTypeOK
      <4> QED BY <4>1, <2>9 DEF IsrReset, CtlTypeOK
    <3>3. CpuTypeOK'  BY <2>9 DEF IsrReset, CpuTypeOK, IsrSteps
    <3> QED BY <3>1, <3>2, <3>3
  <2>10. CASE IsrOut0
    <3>1. MemTypeOK'  BY <2>10, Unchanged DEF IsrOut0
    <3>2. HostTypeOK'  BY <2>10 DEF IsrOut0, HostTypeOK
    <3>3. CtlTypeOK'  BY <2>10 DEF IsrOut0, CtlTypeOK
    <3>4. CpuTypeOK'  BY <2>10 DEF IsrOut0, CpuTypeOK, OutCauses, IsrSteps, IsrCauses
    <3> QED BY <3>1, <3>2, <3>3, <3>4
  <2>11. CASE IsrOut2
    <3>1. HostTypeOK'  BY <2>11, Unchanged DEF IsrOut2
    <3>2. CtlTypeOK'  BY <2>11 DEF IsrOut2, CtlTypeOK
    <3>3. MemTypeOK'  BY <2>11 DEF IsrOut2, MemTypeOK
    <3>4. CpuTypeOK'  BY <2>11 DEF IsrOut2, CpuTypeOK, IsrSteps
    <3> QED BY <3>1, <3>2, <3>3, <3>4
  <2>12. CASE IsrIn
    <3>1. HostTypeOK'  BY <2>12, Unchanged DEF IsrIn
    <3>2. CtlTypeOK'  BY <2>12 DEF IsrIn, CtlTypeOK
    <3>3. MemTypeOK'  BY <2>12 DEF IsrIn, MemTypeOK
    <3>4. CpuTypeOK'  BY <2>12 DEF IsrIn, CpuTypeOK, IsrSteps
    <3> QED BY <3>1, <3>2, <3>3, <3>4
  <2>13. CASE TaskInit
    <3>1. HostTypeOK'  BY <2>13, Unchanged DEF TaskInit
    <3>2. CtlTypeOK'  BY <2>13 DEF TaskInit, CtlTypeOK
    <3>3. MemTypeOK'  BY <2>13 DEF TaskInit, MemTypeOK
    <3>4. CpuTypeOK'  BY <2>13 DEF TaskInit, CpuTypeOK, TaskAt, TaskSteps
    <3> QED BY <3>1, <3>2, <3>3, <3>4
  <2>14. CASE TaskPend
    <3>1. HostTypeOK' /\ CtlTypeOK'  BY <2>14, Unchanged DEF TaskPend
    <3>2. MemTypeOK'  BY <2>14 DEF TaskPend, MemTypeOK
    <3>3. CpuTypeOK'  BY <2>14 DEF TaskPend, CpuTypeOK, TaskAt, TaskSteps
    <3> QED BY <3>1, <3>2, <3>3
  <2>15. CASE TaskEnter
    <3>1. HostTypeOK' /\ CtlTypeOK' /\ MemTypeOK'  BY <2>15, Unchanged DEF TaskEnter
    <3>2. CpuTypeOK'  BY <2>15 DEF TaskEnter, CpuTypeOK, TaskAt, TaskSteps
    <3> QED BY <3>1, <3>2
  <2>16. CASE TaskHeader
    <3>1. HostTypeOK' /\ CtlTypeOK'  BY <2>16, Unchanged DEF TaskHeader
    <3>2. MemTypeOK'  BY <2>16 DEF TaskHeader, MemTypeOK, Commands, Replies
    <3>3. CpuTypeOK'  BY <2>16 DEF TaskHeader, CpuTypeOK, TaskAt, TaskSteps
    <3> QED BY <3>1, <3>2, <3>3
  <2>17. CASE TaskExec
    <3>1. HostTypeOK' /\ CtlTypeOK'  BY <2>17, Unchanged DEF TaskExec
    <3>2. MemTypeOK'  BY <2>17 DEF TaskExec, MemTypeOK, Commands, Replies
    <3>3. CpuTypeOK'  BY <2>17 DEF TaskExec, CpuTypeOK, TaskAt, TaskSteps
    <3> QED BY <3>1, <3>2, <3>3
  <2>18. CASE TaskSend
    <3>1. HostTypeOK' /\ MemTypeOK'  BY <2>18, Unchanged DEF TaskSend
    <3>2. CtlTypeOK'  BY <2>18 DEF TaskSend, CtlTypeOK
    <3>3. CpuTypeOK'  BY <2>18 DEF TaskSend, CpuTypeOK, TaskAt, TaskSteps
    <3> QED BY <3>1, <3>2, <3>3
  <2>19. CASE TaskSendTimeout
    <3>1. MemTypeOK'  BY <2>19, Unchanged DEF TaskSendTimeout
    <3>2. HostTypeOK'  BY <2>19 DEF TaskSendTimeout, HostTypeOK
    <3>3. CtlTypeOK'  BY <2>19 DEF TaskSendTimeout, CtlTypeOK
    <3>4. CpuTypeOK'  BY <2>19 DEF TaskSendTimeout, CpuTypeOK, TaskAt, TaskSteps
    <3> QED BY <3>1, <3>2, <3>3, <3>4
  <2>20. CASE TaskUnmask
    <3>1. HostTypeOK' /\ CtlTypeOK' /\ MemTypeOK'  BY <2>20, Unchanged DEF TaskUnmask
    <3>2. CpuTypeOK'  BY <2>20 DEF TaskUnmask, CpuTypeOK, TaskAt, TaskSteps
    <3> QED BY <3>1, <3>2
  <2>21. CASE TaskExit
    <3>1. HostTypeOK' /\ CtlTypeOK' /\ MemTypeOK'  BY <2>21, Unchanged DEF TaskExit
    <3>2. CpuTypeOK'  BY <2>21 DEF TaskExit, CpuTypeOK, TaskAt, TaskSteps
    <3> QED BY <3>1, <3>2
  <2>22. CASE UNCHANGED vars
    BY <2>22, Unchanged DEF vars
  <2> QED
    BY <2>1, <2>2, <2>3, <2>4, <2>5, <2>6, <2>7, <2>8, <2>9, <2>10, <2>11, <2>12,
       <2>13, <2>14, <2>15, <2>16, <2>17, <2>18, <2>19, <2>20, <2>21, <2>22
    DEF DisturbNext, Next, HostNext, CtlNext, IsrNext, TaskNext
<1> QED
  BY <1>1, <1>2, PTL DEF DisturbSpec, DisturbNext

-----------------------------------------------------------------------------
(* One command in flight                                                   *)

\* MaskInv is inductive: the handler that posts a command masks the interrupt
\* in the same step, and only the task that answered it unmasks it.
LEMMA MaskInductive == TypeOK /\ MaskInv /\ [DisturbNext]_vars => MaskInv'
<1> USE ConstantsAssumption DEF ConstantsAssumption
<1> SUFFICES ASSUME TypeOK, MaskInv, [DisturbNext]_vars PROVE MaskInv'
  OBVIOUS
<1> Len(USBQ) \in Nat /\ isr = [at |-> isr.at, causes |-> isr.causes]
  BY LenProperties DEF TypeOK, MemTypeOK, CpuTypeOK
<1>1. CASE UNCHANGED <<isr, irqMasked, pc, USBQ>>
  BY <1>1 DEF MaskInv, OneInFlight, Serving
<1>2. CASE HostNext \/ CtlNext \/ HostDisturb
  BY <1>1, <1>2
  DEF HostNext, CtlNext, HostReset, HostConfigure, HostSend, HostRead, DmaFetch, DmaComplete, HostDisturb, memVars, cpuVars
<1>3. CASE IsrEnter
  BY <1>3 DEF IsrEnter, MaskInv, OneInFlight, Serving, memVars, cpuVars
<1>4. CASE IsrReset
  BY <1>4 DEF IsrReset, MaskInv, OneInFlight, Serving, memVars, cpuVars
<1>5. CASE IsrOut0
  BY <1>5 DEF IsrOut0, MaskInv, OneInFlight, Serving, memVars, cpuVars
<1>6. CASE IsrOut2
  BY <1>6 DEF IsrOut2, MaskInv, OneInFlight, Serving, memVars, cpuVars
<1>7. CASE IsrIn
  BY <1>7 DEF IsrIn, MaskInv, OneInFlight, Serving, memVars, cpuVars
<1>8. CASE TaskInit
  BY <1>8 DEF TaskInit, TaskAt, MaskInv, OneInFlight, Serving, memVars, cpuVars
<1>9. CASE TaskPend
  BY <1>9 DEF TaskPend, TaskAt, MaskInv, OneInFlight, Serving, memVars, cpuVars
<1>10. CASE TaskEnter
  BY <1>10 DEF TaskEnter, TaskAt, MaskInv, OneInFlight, Serving, memVars, cpuVars
<1>11. CASE TaskHeader
  BY <1>11 DEF TaskHeader, TaskAt, MaskInv, OneInFlight, Serving, memVars, cpuVars
<1>12. CASE TaskExec
  BY <1>12 DEF TaskExec, TaskAt, MaskInv, OneInFlight, Serving, memVars, cpuVars
<1>13. CASE TaskSend
  BY <1>13 DEF TaskSend, TaskAt, MaskInv, OneInFlight, Serving, memVars, cpuVars
<1>14. CASE TaskSendTimeout
  BY <1>14 DEF TaskSendTimeout, TaskAt, MaskInv, OneInFlight, Serving, memVars, cpuVars
<1>15. CASE TaskUnmask
  BY <1>15 DEF TaskUnmask, TaskAt, MaskInv, OneInFlight, Serving, memVars, cpuVars
<1>16. CASE TaskExit
  BY <1>16 DEF TaskExit, TaskAt, MaskInv, OneInFlight, Serving, memVars, cpuVars
<1>17. CASE UNCHANGED vars
  BY <1>1, <1>17 DEF vars, memVars, cpuVars
<1> QED
  BY <1>2, <1>3, <1>4, <1>5, <1>6, <1>7, <1>8, <1>9, <1>10, <1>11, <1>12, <1>13, <1>14, <1>15, <1>16, <1>17
  DEF DisturbNext, Next, IsrNext, TaskNext

\* Whatever the host does, at most one command is between the interrupt and
\* the end of ata_cbw.
THEOREM OneCommandInFlight == DisturbSpec => []OneInFlight
<1>1. Init => MaskInv
  BY DEF Init, MaskInv, OneInFlight, Serving
<1>2. TypeOK /\ MaskInv /\ [DisturbNext]_vars => MaskInv'
  BY MaskInductive
<1>3. MaskInv => OneInFlight
  BY DEF MaskInv
<1> QED
  BY <1>1, <1>2, <1>3, TypeCorrect, PTL DEF DisturbSpec, DisturbNext

-----------------------------------------------------------------------------
(* Until the host disturbs the device                                      *)

\* OneBaton without the tuple.
Parsing == pc \in {"enter", "header", "exec", "send"}
Exclusive ==
    /\ outReady => ~outDone /\ USBQ = <<>> /\ ~Parsing /\ inState = "idle" /\ ~inDone
    /\ outDone => USBQ = <<>> /\ ~Parsing /\ inState = "idle" /\ ~inDone
    /\ USBQ # <<>> => ~Parsing /\ inState = "idle" /\ ~inDone
    /\ Parsing => inState = "idle" /\ ~inDone
    /\ inState # "idle" => ~inDone

LEMMA BatonExclusive == (OneBaton <=> Exclusive) /\ (OneBaton' <=> Exclusive')
<1> DEFINE Pairs(b) ==
      /\ b[1] => ~b[2] /\ ~b[3] /\ ~b[4] /\ ~b[5] /\ ~b[6]
      /\ b[2] => ~b[3] /\ ~b[4] /\ ~b[5] /\ ~b[6]
      /\ b[3] => ~b[4] /\ ~b[5] /\ ~b[6]
      /\ b[4] => ~b[5] /\ ~b[6]
      /\ b[5] => ~b[6]
<1>1. ASSUME NEW b, DOMAIN b = 1..6
      PROVE  (\A i, j \in DOMAIN b : b[i] /\ b[j] => i = j) <=> Pairs(b)
  <2>1. ASSUME \A i, j \in DOMAIN b : b[i] /\ b[j] => i = j PROVE Pairs(b)
    BY <1>1, <2>1
  <2>2. ASSUME Pairs(b), NEW i \in 1..6, NEW j \in 1..6, b[i], b[j] PROVE i = j
    BY <2>2
  <2> QED BY <1>1, <2>1, <2>2
<1>2. DOMAIN Baton = 1..6 /\ (OneBaton <=> Pairs(Baton))
  <2>1. DOMAIN Baton = 1..6  BY DEF Baton
  <2> QED BY <1>1, <2>1 DEF OneBaton
<1>3. DOMAIN Baton' = 1..6 /\ (OneBaton' <=> Pairs(Baton'))
  <2>1. DOMAIN Baton' = 1..6  BY DEF Baton
  <2> QED BY <1>1, <2>1 DEF OneBaton
<1>4. Pairs(Baton) <=> Exclusive
  BY DEF Baton, Exclusive, Parsing
<1>5. Pairs(Baton') <=> Exclusive'
  BY DEF Baton, Exclusive, Parsing
<1> QED BY <1>2, <1>3, <1>4, <1>5

\* EngineInv is inductive.  Only HostConfigure and IsrOut0 move the host
\* towards "configured", and every other step that takes one of the buffers
\* takes it from the place that had it.
LEMMA EngineInductive == TypeOK /\ OneInFlight /\ EngineInv /\ [Next]_vars => EngineInv'
<1> USE ConstantsAssumption DEF ConstantsAssumption
<1> SUFFICES ASSUME HostTypeOK, CtlTypeOK, MemTypeOK, CpuTypeOK, OneInFlight, Exclusive, ConfigInv, SnapshotInv, BufferInv, [Next]_vars
             PROVE  Exclusive' /\ ConfigInv' /\ SnapshotInv' /\ BufferInv'
  BY BatonExclusive DEF EngineInv, TypeOK
<1> isr = [at |-> isr.at, causes |-> isr.causes]
  BY DEF CpuTypeOK
<1>1. CASE HostReset
  <2>1. Exclusive'  BY <1>1 DEF HostReset, Exclusive, Parsing, ConfigInv, SnapshotInv, hostVars, ctlVars, memVars, cpuVars
  <2>2. ConfigInv'  BY <1>1 DEF HostReset, ConfigInv, SnapshotInv, Exclusive, Parsing, hostVars, ctlVars, memVars, cpuVars
  <2>3. SnapshotInv'  BY <1>1 DEF HostReset, SnapshotInv, ConfigInv, hostVars, ctlVars, memVars, cpuVars
  <2>4. BufferInv'  BY <1>1 DEF HostReset, BufferInv, SnapshotInv, Requested, hostVars, ctlVars, memVars, cpuVars
  <2> QED BY <2>1, <2>2, <2>3, <2>4
<1>2. CASE HostConfigure
  <2>1. Exclusive'  BY <1>2 DEF HostConfigure, Exclusive, Parsing, ConfigInv, SnapshotInv, hostVars, ctlVars, memVars, cpuVars
  <2>2. ConfigInv'  BY <1>2 DEF HostConfigure, ConfigInv, SnapshotInv, Exclusive, Parsing, hostVars, ctlVars, memVars, cpuVars
  <2>3. SnapshotInv'  BY <1>2 DEF HostConfigure, SnapshotInv, ConfigInv, hostVars, ctlVars, memVars, cpuVars
  <2>4. BufferInv'  BY <1>2 DEF HostConfigure, BufferInv, SnapshotInv, Requested, hostVars, ctlVars, memVars, cpuVars
  <2> QED BY <2>1, <2>2, <2>3, <2>4
<1>3. CASE HostSend
  <2>0. sent + 1 > 0  BY DEF HostTypeOK, Seqs
  <2>1. Exclusive'  BY <1>3, <2>0 DEF HostSend, Exclusive, Parsing, ConfigInv, SnapshotInv, hostVars, ctlVars, memVars, cpuVars
  <2>2. ConfigInv'  BY <1>3, <2>0 DEF HostSend, ConfigInv, SnapshotInv, Exclusive, Parsing, hostVars, ctlVars, memVars, cpuVars
  <2>3. SnapshotInv'  BY <1>3, <2>0 DEF HostSend, SnapshotInv, ConfigInv, hostVars, ctlVars, memVars, cpuVars
  <2>4. BufferInv'  BY <1>3, <2>0 DEF HostSend, BufferInv, SnapshotInv, Requested, Exclusive, Parsing, hostVars, ctlVars, memVars, cpuVars
  <2> QED BY <2>1, <2>2, <2>3, <2>4
<1>4. CASE HostRead
  <2>1. Exclusive'  BY <1>4 DEF HostRead, Exclusive, Parsing, ConfigInv, SnapshotInv, hostVars, ctlVars, memVars, cpuVars
  <2>2. ConfigInv'  BY <1>4 DEF HostRead, ConfigInv, SnapshotInv, Exclusive, Parsing, hostVars, ctlVars, memVars, cpuVars
  <2>3. SnapshotInv'  BY <1>4 DEF HostRead, SnapshotInv, ConfigInv, hostVars, ctlVars, memVars, cpuVars
  <2>4. BufferInv'  BY <1>4 DEF HostRead, BufferInv, SnapshotInv, Requested, hostVars, ctlVars, memVars, cpuVars
  <2> QED BY <2>1, <2>2, <2>3, <2>4
<1>5. CASE DmaFetch
  <2>1. Exclusive'  BY <1>5 DEF DmaFetch, Exclusive, Parsing, ConfigInv, SnapshotInv, hostVars, ctlVars, memVars, cpuVars
  <2>2. ConfigInv'  BY <1>5 DEF DmaFetch, ConfigInv, SnapshotInv, Exclusive, Parsing, hostVars, ctlVars, memVars, cpuVars
  <2>3. SnapshotInv'  BY <1>5 DEF DmaFetch, SnapshotInv, ConfigInv, hostVars, ctlVars, memVars, cpuVars
  <2>4. BufferInv'  BY <1>5 DEF DmaFetch, BufferInv, SnapshotInv, Requested, hostVars, ctlVars, memVars, cpuVars
  <2> QED BY <2>1, <2>2, <2>3, <2>4
<1>6. CASE DmaComplete
  <2>1. Exclusive'  BY <1>6 DEF DmaComplete, Exclusive, Parsing, ConfigInv, SnapshotInv, hostVars, ctlVars, memVars, cpuVars
  <2>2. ConfigInv'  BY <1>6 DEF DmaComplete, ConfigInv, SnapshotInv, Exclusive, Parsing, hostVars, ctlVars, memVars, cpuVars
  <2>3. SnapshotInv'  BY <1>6 DEF DmaComplete, SnapshotInv, ConfigInv, hostVars, ctlVars, memVars, cpuVars
  <2>4. BufferInv'  BY <1>6 DEF DmaComplete, BufferInv, SnapshotInv, Requested, hostVars, ctlVars, memVars, cpuVars
  <2> QED BY <2>1, <2>2, <2>3, <2>4
<1>7. CASE IsrEnter
  <2>1. Exclusive'  BY <1>7 DEF IsrEnter, GintCauses, OutCauses, Exclusive, Parsing, ConfigInv, SnapshotInv, hostVars, ctlVars, memVars, cpuVars
  <2>2. ConfigInv'  BY <1>7 DEF IsrEnter, GintCauses, OutCauses, ConfigInv, SnapshotInv, Exclusive, Parsing, hostVars, ctlVars, memVars, cpuVars
  <2>3. SnapshotInv'  BY <1>7 DEF IsrEnter, GintCauses, OutCauses, SnapshotInv, ConfigInv, hostVars, ctlVars, memVars, cpuVars
  <2>4. BufferInv'  BY <1>7 DEF IsrEnter, BufferInv, SnapshotInv, Requested, hostVars, ctlVars, memVars, cpuVars
  <2> QED BY <2>1, <2>2, <2>3, <2>4
<1>8. CASE IsrReset
  <2>1. Exclusive'  BY <1>8 DEF IsrReset, Exclusive, Parsing, ConfigInv, SnapshotInv, hostVars, ctlVars, memVars, cpuVars
  <2>2. ConfigInv'  BY <1>8 DEF IsrReset, ConfigInv, SnapshotInv, Exclusive, Parsing, hostVars, ctlVars, memVars, cpuVars
  <2>3. SnapshotInv'  BY <1>8 DEF IsrReset, SnapshotInv, ConfigInv, hostVars, ctlVars, memVars, cpuVars
  <2>4. BufferInv'  BY <1>8 DEF IsrReset, BufferInv, SnapshotInv, Requested, hostVars, ctlVars, memVars, cpuVars
  <2> QED BY <2>1, <2>2, <2>3, <2>4
<1>9. CASE IsrOut0
  <2>1. Exclusive'  BY <1>9 DEF IsrOut0, GintCauses, OutCauses, Exclusive, Parsing, ConfigInv, SnapshotInv, hostVars, ctlVars, memVars, cpuVars
  <2>2. ConfigInv'  BY <1>9 DEF IsrOut0, GintCauses, OutCauses, ConfigInv, SnapshotInv, Exclusive, Parsing, hostVars, ctlVars, memVars, cpuVars
  <2>3. SnapshotInv'  BY <1>9 DEF IsrOut0, GintCauses, OutCauses, SnapshotInv, ConfigInv, hostVars, ctlVars, memVars, cpuVars
  <2>4. BufferInv'  BY <1>9 DEF IsrOut0, BufferInv, SnapshotInv, Requested, hostVars, ctlVars, memVars, cpuVars
  <2> QED BY <2>1, <2>2, <2>3, <2>4
<1>10. CASE IsrOut2
  <2>1. Exclusive'  BY <1>10 DEF IsrOut2, Exclusive, Parsing, ConfigInv, SnapshotInv, hostVars, ctlVars, memVars, cpuVars
  <2>2. ConfigInv'  BY <1>10 DEF IsrOut2, ConfigInv, SnapshotInv, Exclusive, Parsing, hostVars, ctlVars, memVars, cpuVars
  <2>3. SnapshotInv'  BY <1>10 DEF IsrOut2, SnapshotInv, ConfigInv, hostVars, ctlVars, memVars, cpuVars
  <2>4. BufferInv'  BY <1>10 DEF IsrOut2, BufferInv, SnapshotInv, Requested, hostVars, ctlVars, memVars, cpuVars
  <2> QED BY <2>1, <2>2, <2>3, <2>4
<1>11. CASE IsrIn
  <2>1. Exclusive'  BY <1>11 DEF IsrIn, Exclusive, Parsing, ConfigInv, SnapshotInv, hostVars, ctlVars, memVars, cpuVars
  <2>2. ConfigInv'  BY <1>11 DEF IsrIn, ConfigInv, SnapshotInv, Exclusive, Parsing, hostVars, ctlVars, memVars, cpuVars
  <2>3. SnapshotInv'  BY <1>11 DEF IsrIn, SnapshotInv, ConfigInv, hostVars, ctlVars, memVars, cpuVars
  <2>4. BufferInv'  BY <1>11 DEF IsrIn, BufferInv, SnapshotInv, Requested, hostVars, ctlVars, memVars, cpuVars
  <2> QED BY <2>1, <2>2, <2>3, <2>4
<1>12. CASE TaskInit
  <2>1. Exclusive'  BY <1>12 DEF TaskInit, TaskAt, Exclusive, Parsing, ConfigInv, SnapshotInv, hostVars, ctlVars, memVars, cpuVars
  <2>2. ConfigInv'  BY <1>12 DEF TaskInit, TaskAt, ConfigInv, SnapshotInv, Exclusive, Parsing, hostVars, ctlVars, memVars, cpuVars
  <2>3. SnapshotInv'  BY <1>12 DEF TaskInit, TaskAt, SnapshotInv, ConfigInv, hostVars, ctlVars, memVars, cpuVars
  <2>4. BufferInv'  BY <1>12 DEF TaskInit, TaskAt, BufferInv, SnapshotInv, Requested, hostVars, ctlVars, memVars, cpuVars
  <2> QED BY <2>1, <2>2, <2>3, <2>4
<1>13. CASE TaskPend
  <2>0. USBQ' = <<>>
    BY <1>13, HeadTailProperties, EmptySeq DEF TaskPend, OneInFlight, MemTypeOK
  <2>1. Exclusive'  BY <1>13, <2>0 DEF TaskPend, TaskAt, Exclusive, Parsing, ConfigInv, SnapshotInv, hostVars, ctlVars, memVars, cpuVars
  <2>2. ConfigInv'  BY <1>13, <2>0 DEF TaskPend, TaskAt, ConfigInv, SnapshotInv, Exclusive, Parsing, hostVars, ctlVars, memVars, cpuVars
  <2>3. SnapshotInv'  BY <1>13, <2>0 DEF TaskPend, TaskAt, SnapshotInv, ConfigInv, hostVars, ctlVars, memVars, cpuVars
  <2>4. BufferInv'  BY <1>13, <2>0 DEF TaskPend, TaskAt, BufferInv, SnapshotInv, Requested, hostVars, ctlVars, memVars, cpuVars
  <2> QED BY <2>1, <2>2, <2>3, <2>4
<1>14. CASE TaskEnter
  <2>1. Exclusive'  BY <1>14 DEF TaskEnter, TaskAt, Exclusive, Parsing, ConfigInv, SnapshotInv, hostVars, ctlVars, memVars, cpuVars
  <2>2. ConfigInv'  BY <1>14 DEF TaskEnter, TaskAt, ConfigInv, SnapshotInv, Exclusive, Parsing, hostVars, ctlVars, memVars, cpuVars
  <2>3. SnapshotInv'  BY <1>14 DEF TaskEnter, TaskAt, SnapshotInv, ConfigInv, hostVars, ctlVars, memVars, cpuVars
  <2>4. BufferInv'  BY <1>14 DEF TaskEnter, TaskAt, BufferInv, SnapshotInv, Requested, hostVars, ctlVars, memVars, cpuVars
  <2> QED BY <2>1, <2>2, <2>3, <2>4
<1>15. CASE TaskHeader
  <2>1. Exclusive'  BY <1>15 DEF TaskHeader, TaskAt, Exclusive, Parsing, ConfigInv, SnapshotInv, hostVars, ctlVars, memVars, cpuVars
  <2>2. ConfigInv'  BY <1>15 DEF TaskHeader, TaskAt, ConfigInv, SnapshotInv, Exclusive, Parsing, hostVars, ctlVars, memVars, cpuVars
  <2>3. SnapshotInv'  BY <1>15 DEF TaskHeader, TaskAt, SnapshotInv, ConfigInv, hostVars, ctlVars, memVars, cpuVars
  <2>4. BufferInv'  BY <1>15 DEF TaskHeader, TaskAt, BufferInv, SnapshotInv, Requested, hostVars, ctlVars, memVars, cpuVars
  <2> QED BY <2>1, <2>2, <2>3, <2>4
<1>16. CASE TaskExec
  <2>1. Exclusive'  BY <1>16 DEF TaskExec, TaskAt, Exclusive, Parsing, ConfigInv, SnapshotInv, hostVars, ctlVars, memVars, cpuVars
  <2>2. ConfigInv'  BY <1>16 DEF TaskExec, TaskAt, ConfigInv, SnapshotInv, Exclusive, Parsing, hostVars, ctlVars, memVars, cpuVars
  <2>3. SnapshotInv'  BY <1>16 DEF TaskExec, TaskAt, SnapshotInv, ConfigInv, hostVars, ctlVars, memVars, cpuVars
  <2>4. BufferInv'  BY <1>16 DEF TaskExec, TaskAt, BufferInv, SnapshotInv, Requested, hostVars, ctlVars, memVars, cpuVars
  <2> QED BY <2>1, <2>2, <2>3, <2>4
<1>17. CASE TaskSend
  <2>1. Exclusive'  BY <1>17 DEF TaskSend, TaskAt, Exclusive, Parsing, ConfigInv, SnapshotInv, hostVars, ctlVars, memVars, cpuVars
  <2>2. ConfigInv'  BY <1>17 DEF TaskSend, TaskAt, ConfigInv, SnapshotInv, Exclusive, Parsing, hostVars, ctlVars, memVars, cpuVars
  <2>3. SnapshotInv'  BY <1>17 DEF TaskSend, TaskAt, SnapshotInv, ConfigInv, hostVars, ctlVars, memVars, cpuVars
  <2>4. BufferInv'  BY <1>17 DEF TaskSend, TaskAt, BufferInv, SnapshotInv, Requested, hostVars, ctlVars, memVars, cpuVars
  <2> QED BY <2>1, <2>2, <2>3, <2>4
<1>18. CASE TaskSendTimeout
  <2>1. Exclusive'  BY <1>18 DEF TaskSendTimeout, TaskAt, Exclusive, Parsing, ConfigInv, SnapshotInv, hostVars, ctlVars, memVars, cpuVars
  <2>2. ConfigInv'  BY <1>18 DEF TaskSendTimeout, TaskAt, ConfigInv, SnapshotInv, Exclusive, Parsing, hostVars, ctlVars, memVars, cpuVars
  <2>3. SnapshotInv'  BY <1>18 DEF TaskSendTimeout, TaskAt, SnapshotInv, ConfigInv, hostVars, ctlVars, memVars, cpuVars
  <2>4. BufferInv'  BY <1>18 DEF TaskSendTimeout, TaskAt, BufferInv, SnapshotInv, Requested, hostVars, ctlVars, memVars, cpuVars
  <2> QED BY <2>1, <2>2, <2>3, <2>4
<1>19. CASE TaskUnmask
  <2>1. Exclusive'  BY <1>19 DEF TaskUnmask, TaskAt, Exclusive, Parsing, ConfigInv, SnapshotInv, hostVars, ctlVars, memVars, cpuVars
  <2>2. ConfigInv'  BY <1>19 DEF TaskUnmask, TaskAt, ConfigInv, SnapshotInv, Exclusive, Parsing, hostVars, ctlVars, memVars, cpuVars
  <2>3. SnapshotInv'  BY <1>19 DEF TaskUnmask, TaskAt, SnapshotInv, ConfigInv, hostVars, ctlVars, memVars, cpuVars
  <2>4. BufferInv'  BY <1>19 DEF TaskUnmask, TaskAt, BufferInv, SnapshotInv, Requested, hostVars, ctlVars, memVars, cpuVars
  <2> QED BY <2>1, <2>2, <2>3, <2>4
<1>20. CASE TaskExit
  <2>1. Exclusive'  BY <1>20 DEF TaskExit, TaskAt, Exclusive, Parsing, ConfigInv, SnapshotInv, hostVars, ctlVars, memVars, cpuVars
  <2>2. ConfigInv'  BY <1>20 DEF TaskExit, TaskAt, ConfigInv, SnapshotInv, Exclusive, Parsing, hostVars, ctlVars, memVars, cpuVars
  <2>3. SnapshotInv'  BY <1>20 DEF TaskExit, TaskAt, SnapshotInv, ConfigInv, hostVars, ctlVars, memVars, cpuVars
  <2>4. BufferInv'  BY <1>20 DEF TaskExit, TaskAt, BufferInv, SnapshotInv, Requested, hostVars, ctlVars, memVars, cpuVars
  <2> QED BY <2>1, <2>2, <2>3, <2>4
<1>21. CASE UNCHANGED vars
  BY <1>21 DEF vars, hostVars, ctlVars, memVars, cpuVars, Exclusive, Parsing, ConfigInv, SnapshotInv, BufferInv, Requested
<1> QED
  BY <1>1, <1>2, <1>3, <1>4, <1>5, <1>6, <1>7, <1>8, <1>9, <1>10, <1>11, <1>12, <1>13, <1>14, <1>15, <1>16, <1>17, <1>18, <1>19, <1>20, <1>21 DEF Next, HostNext, CtlNext, IsrNext, TaskNext

\* A step after which the device is undisturbed is one of the engine with an
\* undisturbed host.
LEMMA QuietStep == TypeOK /\ [DisturbNext]_vars /\ disturbed' = 0 => [Next]_vars /\ disturbed = 0
<1> SUFFICES ASSUME disturbed \in Nat, [DisturbNext]_vars, disturbed' = 0
             PROVE  [Next]_vars /\ disturbed = 0
  BY ConstantsAssumption DEF ConstantsAssumption, TypeOK, HostTypeOK
<1>1. ~HostDisturb
  BY DEF HostDisturb
<1>2. [Next]_vars
  BY <1>1 DEF DisturbNext
<1>3. disturbed' = disturbed
  BY <1>2 DEF Next, HostNext, CtlNext, IsrNext, TaskNext, HostReset, HostConfigure, HostSend, HostRead, DmaFetch, DmaComplete, IsrEnter, IsrReset, IsrOut0, IsrOut2, IsrIn, TaskInit, TaskPend, TaskEnter, TaskHeader, TaskExec, TaskSend, TaskSendTimeout, TaskUnmask, TaskExit, vars, hostVars
<1> QED BY <1>2, <1>3

LEMMA EngineCorrect == DisturbSpec => [](disturbed = 0 => EngineInv)
<1>1. Init => EngineInv
  <2>1. Init => Exclusive  BY DEF Init, Exclusive, Parsing
  <2>2. Init => ConfigInv /\ SnapshotInv  BY DEF Init, ConfigInv, SnapshotInv
  <2>3. Init => BufferInv  BY EmptySeq DEF Init, BufferInv, Requested
  <2> QED BY <2>1, <2>2, <2>3, BatonExclusive DEF EngineInv
<1> DEFINE Quiet == disturbed = 0 => EngineInv
<1>2. TypeOK /\ OneInFlight /\ Quiet /\ [DisturbNext]_vars => Quiet'
  BY EngineInductive, QuietStep
<1>3. Init => Quiet
  BY <1>1
<1> HIDE DEF Quiet
<1>4. DisturbSpec => []Quiet
  BY <1>2, <1>3, TypeCorrect, OneCommandInFlight, PTL DEF DisturbSpec, DisturbNext
<1> QED
  BY <1>4 DEF Quiet

\* Until the host disturbs the device, the command buffers are never used by
\* two parties at once.
THEOREM BuffersExclusive == DisturbSpec => []SingleBaton
<1>1. (disturbed = 0 => EngineInv) => SingleBaton
  BY DEF EngineInv, SingleBaton
<1> QED
  BY <1>1, EngineCorrect, PTL

\* The command buffer is not overwritten between the reception of a command
\* and the end of its parsing.
LEMMA CommandKept == Exclusive /\ [Next]_vars /\ InUse => CBW' = CBW
<1> SUFFICES ASSUME Exclusive, [Next]_vars, ~UNCHANGED CBW
             PROVE  ~InUse
  OBVIOUS
<1>1. HostSend
  BY DEF Next, HostNext, CtlNext, IsrNext, TaskNext, HostReset, HostConfigure, HostRead, DmaFetch, DmaComplete, IsrEnter, IsrReset, IsrOut0, IsrOut2, IsrIn, TaskInit, TaskPend, TaskEnter, TaskHeader, TaskExec, TaskSend, TaskSendTimeout, TaskUnmask, TaskExit, vars, memVars
<1> QED BY <1>1 DEF HostSend, Exclusive, Parsing, InUse

\* The response buffer does not change while its transfer has not fetched it.
LEMMA ResponseKept == Exclusive /\ [Next]_vars /\ inState = "armed" => CSW' = CSW
<1> SUFFICES ASSUME Exclusive, [Next]_vars, ~UNCHANGED CSW
             PROVE  inState # "armed"
  OBVIOUS
<1>1. TaskHeader \/ TaskExec
  BY DEF Next, HostNext, CtlNext, IsrNext, TaskNext, HostReset, HostConfigure, HostSend, HostRead, DmaFetch, DmaComplete, IsrEnter, IsrReset, IsrOut0, IsrOut2, IsrIn, TaskInit, TaskPend, TaskEnter, TaskSend, TaskSendTimeout, TaskUnmask, TaskExit, vars, memVars
<1> QED BY <1>1 DEF TaskHeader, TaskExec, TaskAt, Exclusive, Parsing

\* Until the host disturbs the device, neither buffer changes under the party
\* that uses it.
THEOREM BuffersNotOverwritten == DisturbSpec => BuffersIntact
<1>1. EngineInv => Exclusive
  BY BatonExclusive DEF EngineInv
<1>2. TypeOK /\ (disturbed = 0 => EngineInv) /\ [DisturbNext]_vars
        => [disturbed' = 0 => /\ InUse => CBW' = CBW
                              /\ inState = "armed" => CSW' = CSW]_vars
  BY <1>1, CommandKept, ResponseKept, QuietStep
<1> QED
  BY <1>2, EngineCorrect, TypeCorrect, PTL DEF DisturbSpec, DisturbNext, BuffersIntact

-----------------------------------------------------------------------------
(* The engine implements CommandChannel                                    *)

Req == IF Requested THEN CBW ELSE NoCommand
Out == IF Responding THEN Append(txfifo, CSW) ELSE txfifo

LEMMA AppendAsConcat ==
  ASSUME NEW S, NEW s \in Seq(S), NEW e \in S
  PROVE  s \o <<e>> = Append(s, e) /\ s \o <<>> = s
  OBVIOUS

LEMMA HeadTailOfAppend ==
  ASSUME NEW S, NEW s \in Seq(S), NEW e \in S, s # <<>>
  PROVE  Head(Append(s, e)) = Head(s) /\ Tail(Append(s, e)) = Append(Tail(s), e)
  OBVIOUS

\* The steps of the channel in the engine's own variables.
ChannelAccept ==
    /\ Req = NoCommand
    /\ sent < MaxCmds
    /\ sent' = sent + 1
    /\ \E t \in Types : Req' = [seq |-> sent + 1, type |-> t]
    /\ UNCHANGED <<CSW.body, Out, rcvd>>
ChannelServe ==
    /\ Req # NoCommand
    /\ CSW'.body = IF Req.type \in Supported THEN Req.seq ELSE CSW.body
    /\ Out' = Append(Out, [seq |-> Req.seq, type |-> Req.type, body |-> CSW'.body])
    /\ Req' = NoCommand
    /\ UNCHANGED <<sent, rcvd>>
ChannelDeliver ==
    /\ Out # <<>>
    /\ rcvd' = Append(rcvd, Head(Out))
    /\ Out' = Tail(Out)
    /\ UNCHANGED <<sent, Req, CSW.body>>
ChannelStutter == UNCHANGED <<sent, Req, CSW.body, Out, rcvd>>
ChannelStep == ChannelAccept \/ ChannelServe \/ ChannelDeliver \/ ChannelStutter

LEMMA ChannelMapping ==
  ASSUME TypeOK, TypeOK', UNCHANGED disturbed
  PROVE  ChannelStep => [Channel!Next]_(Channel!vars)
<1>1. Out = txfifo \o (IF Responding THEN <<CSW>> ELSE <<>>)
  BY AppendAsConcat DEF TypeOK, CtlTypeOK, MemTypeOK, Out
<1>2. Out' = txfifo' \o (IF Responding' THEN <<CSW'>> ELSE <<>>)
  BY AppendAsConcat DEF TypeOK, CtlTypeOK, MemTypeOK, Out
<1>3. NoCommand = [seq |-> 0, type |-> "none"]
  BY DEF NoCommand, NoType
<1>4. ChannelAccept => Channel!Accept
  BY <1>1, <1>2, <1>3 DEF ChannelAccept, Channel!Accept, Channel!NoCommand, Req
<1>5. ChannelServe => Channel!Serve
  BY <1>1, <1>2, <1>3 DEF ChannelServe, Channel!Serve, Channel!NoCommand, Req
<1>6. ChannelDeliver => Channel!Deliver
  BY <1>1, <1>2 DEF ChannelDeliver, Channel!Deliver, Req
<1>7. ChannelStutter => UNCHANGED Channel!vars
  BY <1>1, <1>2 DEF ChannelStutter, Channel!vars, Req
<1>8. (disturbed > 0)' = (disturbed > 0)
  OBVIOUS
<1> QED BY <1>4, <1>5, <1>6, <1>7, <1>8 DEF ChannelStep, Channel!Next

\* HostSend is Accept, TaskExec is Serve, HostRead is Deliver, and every other
\* step of the engine leaves the channel as it is.
LEMMA ChannelSteps == TypeOK /\ TypeOK' /\ OneInFlight /\ EngineInv /\ [Next]_vars => ChannelStep
<1> USE ConstantsAssumption DEF ConstantsAssumption
<1> SUFFICES ASSUME HostTypeOK, CtlTypeOK, MemTypeOK, CpuTypeOK, MemTypeOK', Exclusive, ConfigInv, SnapshotInv, BufferInv, OneInFlight, [Next]_vars
             PROVE  ChannelStep
  BY BatonExclusive DEF EngineInv, TypeOK
<1> DEFINE Same == UNCHANGED <<sent, rcvd, Req, CSW.body, Out>>
<1> Same => ChannelStep
  BY DEF ChannelStep, ChannelStutter
<1>1. CASE HostReset
  BY <1>1 DEF HostReset, Exclusive, Parsing, ConfigInv, SnapshotInv, BufferInv, Req, Requested, Responding, hostVars, ctlVars, memVars, cpuVars, Out
<1>2. CASE HostConfigure
  BY <1>2 DEF HostConfigure, Exclusive, Parsing, ConfigInv, SnapshotInv, BufferInv, Req, Requested, Responding, hostVars, ctlVars, memVars, cpuVars, Out
<1>3. CASE HostSend
  <2>1. ChannelAccept
    BY <1>3 DEF HostSend, ChannelAccept, Exclusive, Parsing, Req, Out, Requested, Responding, memVars, cpuVars
  <2> QED BY <2>1 DEF ChannelStep
<1>4. CASE HostRead
  <2>1. Out # <<>> /\ Head(Out) = Head(txfifo) /\ Out' = Tail(Out)
    <3>1. CASE Responding
      <4>1. CSW \in Replies /\ txfifo \in Seq(Replies) /\ txfifo # <<>>
        BY <1>4 DEF HostRead, MemTypeOK, CtlTypeOK
      <4>2. Out = Append(txfifo, CSW) /\ Out' = Append(Tail(txfifo), CSW)
        BY <1>4, <3>1 DEF HostRead, Out, Responding, memVars, cpuVars
      <4>3. Append(txfifo, CSW) # <<>>
        BY <4>1, AppendProperties
      <4> QED BY <4>1, <4>2, <4>3, HeadTailOfAppend
    <3>2. CASE ~Responding
      BY <1>4, <3>2 DEF HostRead, Out, Responding, memVars, cpuVars
    <3> QED BY <3>1, <3>2
  <2>2. ChannelDeliver
    BY <1>4, <2>1 DEF HostRead, ChannelDeliver, Req, Requested, memVars, cpuVars
  <2> QED BY <2>2 DEF ChannelStep
<1>5. CASE DmaFetch
  <2>1. Out = <<CSW>> /\ Out' = <<CSW>>
    BY <1>5 DEF DmaFetch, Out, Exclusive, Parsing, Responding, memVars, cpuVars
  <2> QED BY <1>5, <2>1 DEF DmaFetch, Req, Requested, hostVars, memVars, cpuVars
<1>6. CASE DmaComplete
  BY <1>6 DEF DmaComplete, Exclusive, Parsing, ConfigInv, SnapshotInv, BufferInv, Req, Requested, Responding, hostVars, ctlVars, memVars, cpuVars, Out
<1>7. CASE IsrEnter
  BY <1>7 DEF IsrEnter, Exclusive, Parsing, ConfigInv, SnapshotInv, BufferInv, Req, Requested, Responding, hostVars, ctlVars, memVars, cpuVars, Out
<1>8. CASE IsrReset
  BY <1>8 DEF IsrReset, Exclusive, Parsing, ConfigInv, SnapshotInv, BufferInv, Req, Requested, Responding, hostVars, ctlVars, memVars, cpuVars, Out
<1>9. CASE IsrOut0
  BY <1>9 DEF IsrOut0, Exclusive, Parsing, ConfigInv, SnapshotInv, BufferInv, Req, Requested, Responding, hostVars, ctlVars, memVars, cpuVars, Out
<1>10. CASE IsrOut2
  BY <1>10 DEF IsrOut2, Exclusive, Parsing, ConfigInv, SnapshotInv, BufferInv, Req, Requested, Responding, hostVars, ctlVars, memVars, cpuVars, Out
<1>11. CASE IsrIn
  BY <1>11 DEF IsrIn, Exclusive, Parsing, ConfigInv, SnapshotInv, BufferInv, Req, Requested, Responding, hostVars, ctlVars, memVars, cpuVars, Out
<1>12. CASE TaskInit
  BY <1>12 DEF TaskInit, TaskAt, Exclusive, Parsing, ConfigInv, SnapshotInv, BufferInv, Req, Requested, Responding, hostVars, ctlVars, memVars, cpuVars, Out
<1>13. CASE TaskPend
  BY <1>13 DEF TaskPend, TaskAt, Exclusive, Parsing, ConfigInv, SnapshotInv, BufferInv, Req, Requested, Responding, hostVars, ctlVars, memVars, cpuVars, Out
<1>14. CASE TaskEnter
  BY <1>14 DEF TaskEnter, TaskAt, Exclusive, Parsing, ConfigInv, SnapshotInv, BufferInv, Req, Requested, Responding, hostVars, ctlVars, memVars, cpuVars, Out
<1>15. CASE TaskHeader
  <2>1. CSW'.body = CSW.body
    BY <1>15 DEF TaskHeader, MemTypeOK, Replies
  <2> QED
    BY <1>15, <2>1 DEF TaskHeader, TaskAt, Exclusive, Parsing, Req, Requested, Out, Responding, hostVars, ctlVars
<1>16. CASE TaskExec
  <2>0. CBW # NoCommand
    <3>1. NoCommand.seq = 0  BY DEF NoCommand
    <3> QED BY <1>16, <3>1 DEF TaskExec, TaskAt, BufferInv, Requested
  <2>1. Req = CBW /\ Req' = NoCommand /\ Req # NoCommand
    BY <1>16, <2>0 DEF TaskExec, TaskAt, Exclusive, Parsing, Req, Requested, ctlVars
  <2>2. Out = txfifo /\ Out' = Append(txfifo, CSW')
    BY <1>16 DEF TaskExec, TaskAt, Exclusive, Parsing, Out, Responding, hostVars, ctlVars, memVars, cpuVars
  <2>3. CSW'.body = IF CBW.type \in Supported THEN CBW.seq ELSE CSW.body
    BY <1>16 DEF TaskExec, MemTypeOK, Replies
  <2>4. CSW' = [seq |-> CBW.seq, type |-> CBW.type, body |-> CSW'.body]
    BY <1>16 DEF TaskExec, TaskAt, BufferInv, MemTypeOK, Replies
  <2>5. ChannelServe
    BY <1>16, <2>1, <2>2, <2>3, <2>4 DEF TaskExec, ChannelServe, hostVars
  <2> QED BY <2>5 DEF ChannelStep
<1>17. CASE TaskSend
  BY <1>17 DEF TaskSend, TaskAt, Exclusive, Parsing, ConfigInv, SnapshotInv, BufferInv, Req, Requested, Responding, hostVars, ctlVars, memVars, cpuVars, Out
<1>18. CASE TaskSendTimeout
  BY <1>18 DEF TaskSendTimeout, TaskAt, Exclusive, Parsing, ConfigInv, SnapshotInv, BufferInv, Req, Requested, Responding, hostVars, ctlVars, memVars, cpuVars, Out
<1>19. CASE TaskUnmask
  BY <1>19 DEF TaskUnmask, TaskAt, Exclusive, Parsing, ConfigInv, SnapshotInv, BufferInv, Req, Requested, Responding, hostVars, ctlVars, memVars, cpuVars, Out
<1>20. CASE TaskExit
  BY <1>20 DEF TaskExit, TaskAt, Exclusive, Parsing, ConfigInv, SnapshotInv, BufferInv, Req, Requested, Responding, hostVars, ctlVars, memVars, cpuVars, Out
<1>21. CASE UNCHANGED vars
  BY <1>21 DEF vars, hostVars, ctlVars, memVars, cpuVars, Req, Out, Requested, Responding
<1> QED
  BY <1>1, <1>2, <1>3, <1>4, <1>5, <1>6, <1>7, <1>8, <1>9, <1>10, <1>11, <1>12, <1>13, <1>14, <1>15, <1>16, <1>17, <1>18, <1>19, <1>20, <1>21 DEF Next, HostNext, CtlNext, IsrNext, TaskNext

\* Until the host disturbs the device, its commands are served one at a time,
\* in order, and answered exactly once with their own outcome; the host that
\* disturbs it breaks the channel.
THEOREM EngineImplementsChannel == DisturbSpec => ImplementsChannel
<1>1. Init => Channel!Init
  BY DEF Init, Channel!Init, Channel!NoCommand, Requested, Responding, NoCommand, NoReply, NoType
<1>2. ASSUME TypeOK, TypeOK', OneInFlight, disturbed = 0 => EngineInv, [DisturbNext]_vars
      PROVE  [Channel!Next]_(Channel!vars)
  <2>1. CASE disturbed' = 0
    <3>1. [Next]_vars /\ disturbed = 0
      BY <1>2, <2>1, QuietStep
    <3>2. ChannelStep
      BY <1>2, <3>1, ChannelSteps
    <3> QED BY <1>2, <2>1, <3>1, <3>2, ChannelMapping
  <2>2. CASE disturbed' # 0
    <3>1. disturbed' \in Nat
      BY <1>2, ConstantsAssumption DEF ConstantsAssumption, TypeOK, HostTypeOK
    <3>2. (disturbed > 0)'
      BY <2>2, <3>1
    <3> QED BY <3>2 DEF Channel!Next, Channel!Break
  <2> QED BY <2>1, <2>2
<1> QED
  BY <1>1, <1>2, TypeCorrect, OneCommandInFlight, EngineCorrect, PTL
  DEF DisturbSpec, DisturbNext, ImplementsChannel, Channel!Spec
=============================================================================
