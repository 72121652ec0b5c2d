--------------------------- MODULE TestIo_proofs ---------------------------
(***************************************************************************)
(* Proofs about TestIo, whatever the batch and however late the target     *)
(* answers: the variables keep their types, the accesses of the firmware   *)
(* never overlap on the target, only what write commands name changes, and *)
(* a batch nothing was late in has done what it asks.                      *)
(***************************************************************************)
EXTENDS TestIo, SequenceTheorems, Iteration_proofs, TLAPS

-----------------------------------------------------------------------------
(* Bits and words                                                          *)

\* The bits of words and double words, and that a word's are a double word's.
LEMMA BitsFacts ==
  /\ ByteBits \in Nat \ {0}
  /\ Bits("dword") = 0..4 * ByteBits - 1 /\ Bits("word") = 0..2 * ByteBits - 1
  /\ WordBits = 0..2 * ByteBits - 1
  /\ WordBits \subseteq Bits("dword")
  /\ \A size \in {"word", "dword"} : Bits(size) \subseteq Bits("dword")
<1>1. ByteBits \in Nat \ {0}
  BY TestIoAssumption
<1>2. Bits("dword") = 0..4 * ByteBits - 1 /\ Bits("word") = 0..2 * ByteBits - 1
  BY DEF Bits
<1>3. 0..2 * ByteBits - 1 \subseteq 0..4 * ByteBits - 1
  BY <1>1
<1> QED BY <1>1, <1>2, <1>3 DEF WordBits

\* Half a double word is a word.
LEMMA HalfType == \A value, h : Half(value, h) \subseteq WordBits
BY DEF Half

\* A word put at either half stays inside a double word.
LEMMA AtHalfType ==
  ASSUME NEW word, NEW h \in {0, 1}, word \subseteq Bits("dword"), h = 1 => word \subseteq WordBits
  PROVE  AtHalf(word, h) \subseteq Bits("dword")
<1>1. CASE h = 0
  BY <1>1, BitsFacts DEF AtHalf
<1>2. CASE h = 1
  <2>1. \A b \in WordBits : b + 1 * 2 * ByteBits \in Bits("dword")
    BY BitsFacts
  <2> QED BY <1>2, <2>1 DEF AtHalf
<1> QED BY <1>1, <1>2

\* What a command of the constants is made of.
LEMMA CommandFacts ==
  ASSUME NEW c \in Commands
  PROVE  /\ c.rw \in Ops /\ c.channel \in {"ocp"} \cup Channels /\ c.mode \in Modes
         /\ c.size \in {"word", "dword"} /\ c.dev \in Devs /\ c.addr \in Words /\ c.addr \in Nat
         /\ c.data \subseteq Bits("dword") /\ c.lbit \in Bits("dword") /\ c.hbit \in Bits("dword")
         /\ c.lbit <= c.hbit /\ c.hbit \in Bits(c.size)
         /\ c.size = "dword" => c.addr + 1 \in Words
         /\ c.channel # "ocp" => c.mode = "alive" /\ c.size = "word"
         /\ Space(c) \in Spaces /\ Size(c) \in {1, 2}
         /\ c.channel # "ocp" => Space(c) \in Channels
<1>1. c \in CommandType
  BY TestIoAssumption
<1>2. Words \subseteq Nat
  BY TestIoAssumption
<1> QED BY <1>1, <1>2, TestIoAssumption DEF CommandType, Space, Spaces, Size

\* An access of c: only a stalled double word has a second half, only what is
\* for a channel starts or polls it, and only a write stores anything.
Fits(a, c) ==
    /\ a.half = 1 => c.mode = "stall" /\ c.size = "dword"
    /\ a.for = "ocp" <=> c.channel = "ocp"
    /\ a.for = "enable" => a.op = "write"
    /\ a.op = "write" /\ a.for # "read" => c.rw = "write"

\* What a command's accesses are.
LEMMA AccessesType ==
  ASSUME NEW c \in Commands
  PROVE  /\ Accesses(c) \in Seq(AccessType)
         /\ \A n \in 1..Len(Accesses(c)) : Fits(Accesses(c)[n], c)
         /\ Accesses(c) # <<>>
<1> DEFINE access(op, h, for) == [op |-> op, half |-> h, for |-> for]
           each(op) == IF c.channel # "ocp" THEN <<access("write", 0, op), access("read", 0, op)>>
                       ELSE IF c.mode = "alive" THEN <<access(op, 0, "ocp")>>
                       ELSE [i \in 1..Size(c) |-> access(op, i - 1, "ocp")]
           enable == IF c.channel = "efuse" THEN <<access("write", 0, "enable")>> ELSE <<>>
           F == {a \in AccessType : Fits(a, c)}
<1>1. \A op \in Ops : (op = "write" => c.rw = "write") => each(op) \in Seq(F) /\ each(op) # <<>>
  <2> SUFFICES ASSUME NEW op \in Ops, op = "write" => c.rw = "write"
               PROVE  each(op) \in Seq(F) /\ each(op) # <<>>
    OBVIOUS
  <2>1. CASE c.channel # "ocp"
    <3>1. access("write", 0, op) \in F /\ access("read", 0, op) \in F
      BY <2>1 DEF AccessType, Ops, Fits
    <3> QED BY <2>1, <3>1
  <2>2. CASE c.channel = "ocp" /\ c.mode = "alive"
    <3>1. access(op, 0, "ocp") \in F
      BY <2>2 DEF AccessType, Ops, Fits
    <3> QED BY <2>2, <3>1
  <2>3. CASE c.channel = "ocp" /\ c.mode # "alive"
    <3>1. c.mode = "stall" /\ Size(c) \in {1, 2} /\ (Size(c) = 2 => c.size = "dword")
      BY <2>3, CommandFacts DEF Modes, Size
    <3>2. \A i \in 1..Size(c) : access(op, i - 1, "ocp") \in F
      BY <2>3, <3>1 DEF AccessType, Ops, Fits
    <3>3. each(op) = [i \in 1..Size(c) |-> access(op, i - 1, "ocp")]
      BY <2>3
    <3> HIDE DEF access, F, each
    <3>4. each(op) \in [1..Size(c) -> F] /\ Size(c) \in Nat /\ Size(c) # 0
      BY <3>1, <3>2, <3>3
    <3> QED BY <3>4
  <2> QED BY <2>1, <2>2, <2>3
<1>2. c.rw = "write" => enable \in Seq(F)
  <2> SUFFICES ASSUME c.rw = "write" PROVE enable \in Seq(F)
    OBVIOUS
  <2>1. CASE c.channel = "efuse"
    <3>1. access("write", 0, "enable") \in F
      BY <2>1 DEF AccessType, Ops, Fits
    <3> QED BY <2>1, <3>1
  <2>2. CASE c.channel # "efuse"
    BY <2>2
  <2> QED BY <2>1, <2>2
<1>3. Accesses(c) = IF c.rw = "read" THEN each("read")
                    ELSE enable \o (IF Partial(c) THEN each("read") ELSE <<>>) \o each("write")
  BY DEF Accesses
<1> HIDE DEF each, enable
<1>4. Accesses(c) \in Seq(F) /\ Accesses(c) # <<>>
  <2>1. CASE c.rw = "read"
    BY <1>1, <1>3, <2>1 DEF Ops
  <2>2. CASE c.rw # "read"
    <3>0. c.rw = "write"
      BY <2>2, CommandFacts DEF Ops
    <3> DEFINE first == IF Partial(c) THEN each("read") ELSE <<>>
    <3>1. first \in Seq(F) /\ each("write") \in Seq(F) /\ each("write") # <<>>
      BY <1>1, <3>0 DEF Ops
    <3>2. Accesses(c) = enable \o first \o each("write")
      BY <1>3, <2>2
    <3> HIDE DEF first, F
    <3>3. enable \o first \in Seq(F)
      BY <1>2, <3>0, <3>1
    <3>4. Len(each("write")) >= 1 /\ Len(enable \o first) >= 0
      BY <3>1, <3>3
    <3>5. Len(Accesses(c)) >= 1 /\ Accesses(c) \in Seq(F)
      BY <3>1, <3>2, <3>3, <3>4
    <3> QED BY <3>5
  <2> QED BY <2>1, <2>2
<1>5. \A n \in 1..Len(Accesses(c)) : Accesses(c)[n] \in F
  <2> HIDE DEF F
  <2> QED BY <1>4
<1>6. F \subseteq AccessType
  OBVIOUS
<1>7. Accesses(c) \in Seq(AccessType)
  <2> HIDE DEF F
  <2> QED BY <1>4, <1>6
<1> QED BY <1>4, <1>5, <1>7

-----------------------------------------------------------------------------
(* Types                                                                   *)

\* What a unit has been started for: the words of an MCU it names exist, and
\* only the alive unit reaches a channel, with a word of data at most.
JobFits(m, j) ==
    /\ m = "stall" => j.for = "ocp" /\ j.words = 1
    /\ j.for = "ocp" => \A h \in 0..j.words - 1 : j.addr + h \in Words
    /\ j.for # "ocp" => j.dev \in Channels /\ j.addr \in Words
    /\ j.for = "enable" => j.op = "write"
    /\ j.for # "ocp" /\ j.op = "write" => result["alive"] \subseteq WordBits

\* The command in progress has the accesses that are left of it.
LoopOK ==
    /\ pc \in {"idle", "next"} => todo = <<>>
    /\ pc \in {"start", "poll"} => k > 0 /\ todo # <<>> /\ \A n \in 1..Len(todo) : Fits(todo[n], cmd)

\* TypeOK, with what it needs to be inductive.
TypeInv ==
    /\ ptestio_cmd \in Seq(Commands) /\ Len(ptestio_cmd) <= MaxSet
    /\ k \in 0..Len(ptestio_cmd)
    /\ todo \in Seq(AccessType) /\ LoopOK
    /\ pc \in {"idle", "next", "start", "poll"}
    /\ RetVal \subseteq Bits("dword")
    /\ polls \in 0..MaxPolls - 1
    /\ answer \in [0 .. 2 * MaxSet - 1 -> SUBSET SUBSET WordBits]
    /\ received \in 0..MaxCommands
    /\ mem \in [Spaces -> [Words -> SUBSET WordBits]]
    /\ chan \in [Channels -> [op : Ops, done : BOOLEAN, reg : Nat, data : SUBSET WordBits]]
    /\ \A ch \in Channels : chan[ch].done \/ chan[ch].reg \in Words
    /\ job \in [Modes -> SUBSET JobType]
    /\ \A m \in Modes : \A j \in job[m] : JobFits(m, j)
    /\ result \in [Modes -> SUBSET Bits("dword")] /\ result["stall"] \subseteq WordBits
    /\ earlier \subseteq Commands /\ late \in BOOLEAN

\* The invariant implies the type invariant.
LEMMA TypeInvType == TypeInv => TypeOK
<1> SUFFICES ASSUME TypeInv PROVE TypeOK
  OBVIOUS
<1>1. \A n \in 1..Len(ptestio_cmd) : ptestio_cmd[n] \in Commands
  BY DEF TypeInv
<1>2. todo = <<>> \/ Head(todo) \in AccessType
  BY DEF TypeInv
<1>3. \A m \in Modes : job[m] \subseteq JobType
  BY DEF TypeInv
<1> QED BY <1>1, <1>2, <1>3 DEF TypeInv, TypeOK, LoopOK

\* It holds initially.
LEMMA TypeInit == Init => TypeInv
<1> SUFFICES ASSUME Init PROVE TypeInv
  OBVIOUS
<1>1. MaxPolls \in Nat \ {0} /\ MaxSet \in Nat /\ MaxCommands \in Nat
      /\ Images \subseteq [Spaces -> [Words -> SUBSET WordBits]]
  BY TestIoAssumption
<1>2. job \in [Modes -> SUBSET JobType] /\ \A m \in Modes : job[m] = {}
  BY DEF Init, NoJob
<1>3. result \in [Modes -> SUBSET Bits("dword")] /\ result["stall"] = {}
  BY DEF Init, Modes
<1>4. chan \in [Channels -> [op : Ops, done : BOOLEAN, reg : Nat, data : SUBSET WordBits]]
      /\ \A ch \in Channels : chan[ch].done
  BY DEF Init, Ops
<1>5. answer \in [0 .. 2 * MaxSet - 1 -> SUBSET SUBSET WordBits]
  BY DEF Init, NoAnswer
<1>6. ptestio_cmd = <<>> /\ todo = <<>> /\ k = 0 /\ pc = "idle" /\ RetVal = {} /\ polls = 0
      /\ received = 0 /\ mem \in Images /\ earlier = {} /\ late = FALSE
  BY DEF Init
<1>7. /\ ptestio_cmd \in Seq(Commands) /\ Len(ptestio_cmd) <= MaxSet /\ k \in 0..Len(ptestio_cmd)
      /\ todo \in Seq(AccessType) /\ LoopOK
  BY <1>1, <1>6 DEF LoopOK
<1>8. polls \in 0..MaxPolls - 1 /\ received \in 0..MaxCommands
  BY <1>1, <1>6
<1>9. mem \in [Spaces -> [Words -> SUBSET WordBits]]
  BY <1>1, <1>6
<1> QED BY <1>2, <1>3, <1>4, <1>5, <1>6, <1>7, <1>8, <1>9 DEF TypeInv

\* A step that leaves the loop alone.
LEMMA LoopKept ==
  ASSUME LoopOK, UNCHANGED <<ptestio_cmd, k, todo>>,
         pc' = pc \/ {pc, pc'} \subseteq {"start", "poll"} \/ {pc, pc'} \subseteq {"idle", "next"}
  PROVE  LoopOK'
BY DEF LoopOK, cmd

\* What a command is while it is in progress.
LEMMA CmdType ==
  ASSUME TypeInv, pc \in {"start", "poll"}
  PROVE  /\ cmd \in Commands
         /\ todo # <<>> /\ Head(todo) \in AccessType /\ Fits(Head(todo), cmd)
         /\ Tail(todo) \in Seq(AccessType)
         /\ \A n \in 1..Len(Tail(todo)) : Fits(Tail(todo)[n], cmd)
<1>1. ptestio_cmd \in Seq(Commands) /\ k \in 1..Len(ptestio_cmd)
  BY DEF TypeInv, LoopOK
<1>2. todo \in Seq(AccessType) /\ todo # <<>> /\ \A n \in 1..Len(todo) : Fits(todo[n], cmd)
  BY DEF TypeInv, LoopOK
<1>3. /\ Head(todo) = todo[1] /\ 1 \in 1..Len(todo) /\ Len(Tail(todo)) = Len(todo) - 1
      /\ \A n \in 1..Len(todo) - 1 : Tail(todo)[n] = todo[n + 1] /\ n + 1 \in 1..Len(todo)
  BY <1>2
<1>4. todo[1] \in AccessType /\ Tail(todo) \in Seq(AccessType)
  BY <1>2, <1>3
<1> QED BY <1>1, <1>2, <1>3, <1>4 DEF cmd

\* A batch arrives: its commands are of their type, and so is what is left over.
LEMMA TypeReceive == TypeInv /\ Receive => TypeInv'
<1> SUFFICES ASSUME TypeInv, Receive PROVE TypeInv'
  OBVIOUS
<1>1. PICK n \in 0..MaxSet : \E cmds \in [1..n -> Commands] :
         received + n <= MaxCommands /\ ptestio_cmd' = cmds /\ received' = received + n
  BY DEF Receive
<1>2. n \in Nat /\ ptestio_cmd' \in [1..n -> Commands] /\ n <= MaxSet
  BY <1>1, TestIoAssumption
<1>3. ptestio_cmd' \in Seq(Commands) /\ Len(ptestio_cmd') = n
  BY <1>2
<1>4. received' \in 0..MaxCommands
  BY <1>1, <1>2, TestIoAssumption DEF TypeInv
<1>5. earlier' \subseteq Commands /\ late' \in BOOLEAN
  <2>1. earlier' \subseteq earlier \cup {ptestio_cmd[i] : i \in 1..k} /\ late' = (earlier' # {})
    BY DEF Receive
  <2>2. \A i \in 1..k : ptestio_cmd[i] \in Commands
    BY DEF TypeInv
  <2> QED BY <2>1, <2>2 DEF TypeInv
<1>6. answer' \in [0 .. 2 * MaxSet - 1 -> SUBSET SUBSET WordBits]
  BY DEF Receive, NoAnswer
<1>7. todo = <<>> /\ UNCHANGED <<todo, RetVal, polls, mem, chan, job, result>> /\ k' = 0 /\ pc' = "next"
  BY DEF TypeInv, LoopOK, Receive, targetVars
<1>8. LoopOK'
  BY <1>7 DEF LoopOK
<1>9. \A m \in Modes : \A j \in job'[m] : JobFits(m, j)'
  BY <1>7 DEF TypeInv, JobFits
<1> QED BY <1>2, <1>3, <1>4, <1>5, <1>6, <1>7, <1>8, <1>9 DEF TypeInv

\* The next command: its accesses are of their type and fit it.
LEMMA TypeNextCommand == TypeInv /\ NextCommand => TypeInv'
<1> SUFFICES ASSUME TypeInv, NextCommand PROVE TypeInv'
  OBVIOUS
<1>1. /\ UNCHANGED <<ptestio_cmd, polls, answer, received, mem, chan, job, result, earlier, late>>
      /\ RetVal' = {} /\ pc = "next" /\ todo = <<>>
  BY DEF NextCommand, targetVars, history
<1>2. \A m \in Modes : \A j \in job'[m] : JobFits(m, j)'
  BY <1>1 DEF TypeInv, JobFits
<1>3. CASE k < Len(ptestio_cmd)
  <2>1. k' = k + 1 /\ todo' = Accesses(ptestio_cmd[k + 1]) /\ pc' = "start"
    BY <1>3 DEF NextCommand
  <2>2. k' \in 0..Len(ptestio_cmd) /\ k' > 0 /\ ptestio_cmd[k + 1] \in Commands /\ cmd' = ptestio_cmd[k + 1]
    BY <1>1, <1>3, <2>1 DEF TypeInv, cmd
  <2>3. todo' \in Seq(AccessType) /\ todo' # <<>> /\ \A n \in 1..Len(todo') : Fits(todo'[n], cmd')
    BY <2>1, <2>2, AccessesType
  <2>4. LoopOK'
    BY <2>1, <2>2, <2>3 DEF LoopOK
  <2> QED BY <1>1, <1>2, <2>1, <2>2, <2>3, <2>4 DEF TypeInv
<1>4. CASE ~(k < Len(ptestio_cmd))
  <2>1. UNCHANGED <<k, todo>> /\ pc' = "idle"
    BY <1>4 DEF NextCommand
  <2>2. LoopOK'
    BY <1>1, <2>1 DEF LoopOK
  <2> QED BY <1>1, <1>2, <2>1, <2>2 DEF TypeInv
<1> QED BY <1>3, <1>4

\* A start: the unit is given an access that fits it, and data inside its register.
LEMMA TypeStart == TypeInv /\ Start => TypeInv'
<1> SUFFICES ASSUME TypeInv, Start PROVE TypeInv'
  OBVIOUS
<1> DEFINE a     == Head(todo)
           value == SetVal(cmd, RetVal)
           data  == IF cmd.mode = "stall" THEN Half(value, a.half)
                    ELSE IF a.for \in {"read", "enable"} THEN {}
                    ELSE value \cap Bits(cmd.size)
           stall == cmd.mode = "stall"
           started == [op |-> a.op, for |-> a.for,
                       dev |-> IF a.for = "ocp" THEN Selected(a) ELSE Space(cmd),
                       addr |-> cmd.addr + a.half,
                       words |-> IF stall THEN 1 ELSE Size(cmd),
                       enabled |-> IF stall THEN WordBits ELSE Enabled(cmd)]
<1>1. /\ pc = "start" /\ pc' = "poll" /\ polls' = 0
      /\ UNCHANGED <<ptestio_cmd, k, todo, RetVal, answer, received, mem, chan, earlier, late>>
      /\ job' = [job EXCEPT !["stall"] = {}, ![cmd.mode] = {started}]
      /\ result' = IF a.op = "write" THEN [result EXCEPT ![cmd.mode] = data] ELSE result
  BY DEF Start, history
<1>2. cmd \in Commands /\ a \in AccessType /\ Fits(a, cmd)
  BY <1>1, CmdType
<1>3. /\ cmd.mode \in Modes /\ cmd.dev \in Devs /\ cmd.size \in {"word", "dword"}
      /\ cmd.addr \in Words /\ cmd.addr \in Nat /\ Space(cmd) \in Spaces /\ Size(cmd) \in {1, 2}
      /\ cmd.size = "dword" => cmd.addr + 1 \in Words
      /\ Size(cmd) = 2 => cmd.size = "dword"
      /\ cmd.channel # "ocp" => cmd.mode = "alive" /\ cmd.size = "word" /\ Space(cmd) \in Channels
  BY <1>2, CommandFacts DEF Size
<1>4. a.op \in Ops /\ a.for \in {"ocp", "enable"} \cup Ops /\ a.half \in {0, 1}
  BY <1>2 DEF AccessType
<1>5. \A op \in {"ocp", "enable"} \cup Ops : op # "ocp" <=> op \in {"read", "write", "enable"}
  BY DEF Ops
<1>6. data \subseteq Bits("dword") /\ (stall \/ a.for # "ocp" => data \subseteq WordBits)
  <2>1. CASE stall
    BY <2>1, HalfType, BitsFacts
  <2>2. CASE ~stall
    <3>1. a.for # "ocp" => cmd.size = "word"
      BY <1>2, <1>3 DEF Fits
    <3>2. Bits("word") = WordBits
      BY DEF WordBits
    <3>3. data \subseteq Bits(cmd.size)
      BY <2>2
    <3> HIDE DEF data
    <3> QED BY <1>3, <2>2, <3>1, <3>2, <3>3, BitsFacts
  <2> QED BY <2>1, <2>2
<1>7. started \in JobType
  <2>1. Selected(a) \in Spaces /\ Space(cmd) \in Spaces
    BY <1>3 DEF Selected, Spaces, Devs
  <2>2. cmd.addr + a.half \in Nat
    BY <1>3, <1>4
  <2>3. WordBits \subseteq Bits("dword") /\ Enabled(cmd) \subseteq Bits("dword")
    BY <1>3, BitsFacts DEF Enabled
  <2> HIDE DEF a
  <2> QED BY <1>3, <1>4, <2>1, <2>2, <2>3 DEF JobType
<1>8. /\ started.for = "ocp" => \A h \in 0..started.words - 1 : started.addr + h \in Words
      /\ started.for # "ocp" => started.dev \in Channels /\ started.addr \in Words
      /\ started.for = "enable" => started.op = "write"
      /\ stall => started.for = "ocp" /\ started.words = 1
  <2>1. CASE a.for # "ocp"
    <3>1. cmd.channel # "ocp" /\ a.half = 0
      BY <1>2, <1>3, <1>4, <2>1 DEF Fits
    <3>2. started.dev = Space(cmd) /\ started.addr = cmd.addr /\ started.for = a.for /\ started.op = a.op
      BY <1>3, <2>1, <3>1
    <3>3. a.for = "enable" => a.op = "write"
      BY <1>2 DEF Fits
    <3> HIDE DEF started, a
    <3> QED BY <1>3, <2>1, <3>1, <3>2, <3>3
  <2>2. CASE a.for = "ocp" /\ stall
    <3>1. cmd.addr + a.half \in Words
      BY <1>2, <1>3, <1>4, <2>2 DEF Fits
    <3>2. started.words = 1 /\ started.addr = cmd.addr + a.half /\ started.for = "ocp"
      BY <2>2
    <3>3. 0..1 - 1 = {0} /\ \A x \in Nat : x + 0 = x
      OBVIOUS
    <3>4. cmd.addr + a.half \in Nat
      BY <1>3, <1>4
    <3> HIDE DEF started, a
    <3> QED BY <3>1, <3>2, <3>3, <3>4
  <2>3. CASE a.for = "ocp" /\ ~stall
    <3>1. a.half = 0
      BY <1>2, <1>4, <2>3 DEF Fits
    <3>2. started.words = Size(cmd) /\ started.addr = cmd.addr /\ started.for = "ocp"
      BY <1>3, <2>3, <3>1
    <3>3. \A h \in 0..Size(cmd) - 1 : cmd.addr + h \in Words
      BY <1>3
    <3> HIDE DEF started, a
    <3> QED BY <2>3, <3>2, <3>3
  <2> QED BY <2>1, <2>2, <2>3
<1> HIDE DEF started, data, a
<1>9. job' \in [Modes -> SUBSET JobType]
  BY <1>1, <1>3, <1>7 DEF TypeInv
<1>10. result' \in [Modes -> SUBSET Bits("dword")] /\ result'["stall"] \subseteq WordBits
  BY <1>1, <1>3, <1>6 DEF TypeInv, Modes
<1>11. \A m \in Modes : \A j \in job'[m] : JobFits(m, j)'
  <2> SUFFICES ASSUME NEW m \in Modes, NEW j \in job'[m] PROVE JobFits(m, j)'
    OBVIOUS
  <2>1. CASE m = cmd.mode
    <3>1. j = started
      BY <1>1, <1>3, <2>1 DEF TypeInv
    <3>2. m = "stall" <=> stall
      BY <2>1
    <3>3. started.op = a.op /\ started.for = a.for
      BY DEF started
    <3>4. started.for # "ocp" /\ started.op = "write" => result'["alive"] \subseteq WordBits
      <4> SUFFICES ASSUME a.for # "ocp", a.op = "write" PROVE result'["alive"] \subseteq WordBits
        BY <3>3
      <4>1. cmd.mode = "alive"
        BY <1>2, <1>3 DEF Fits
      <4> QED BY <1>1, <1>6, <4>1 DEF TypeInv, Modes
    <3> HIDE DEF stall
    <3> QED BY <1>8, <3>1, <3>2, <3>4 DEF JobFits
  <2>2. CASE m # cmd.mode
    <3>1. m = "alive" /\ job'["alive"] = job["alive"] /\ cmd.mode = "stall"
      BY <1>1, <1>3, <2>2 DEF TypeInv, Modes
    <3>2. j \in job["alive"] /\ JobFits("alive", j) /\ result'["alive"] = result["alive"]
      BY <1>1, <3>1 DEF TypeInv, Modes
    <3> QED BY <3>1, <3>2 DEF JobFits
  <2> QED BY <2>1, <2>2
<1>12. LoopOK'
  BY <1>1, LoopKept DEF TypeInv
<1>13. 0 \in 0..MaxPolls - 1
  BY TestIoAssumption
<1> QED BY <1>1, <1>9, <1>10, <1>11, <1>12, <1>13 DEF TypeInv

\* The target serves an access for a channel: what it reads is a double word.
LEMMA TypeServeChannel == TypeInv /\ ServeChannel => TypeInv'
<1> SUFFICES ASSUME TypeInv, ServeChannel PROVE TypeInv'
  OBVIOUS
<1>1. PICK j \in job["alive"] :
        /\ j.for # "ocp"
        /\ chan' = IF j.op = "write" /\ j.for # "enable"
                   THEN [chan EXCEPT ![j.dev] = [op |-> j.for, done |-> FALSE, reg |-> j.addr,
                                                 data |-> result["alive"]]]
                   ELSE chan
        /\ result' = IF j.op = "read" THEN [result EXCEPT !["alive"] = ChannelWord(j.dev)] ELSE result
        /\ job' = [job EXCEPT !["alive"] = {}]
        /\ UNCHANGED <<ptestio_cmd, k, todo, RetVal, polls, answer, pc, received, mem, earlier, late>>
  BY DEF ServeChannel, fwVars, history
<1>2. /\ j \in JobType /\ j.dev \in Channels /\ j.addr \in Words /\ j.addr \in Nat
      /\ j.for \in {"enable"} \cup Ops
      /\ j.op = "write" => result["alive"] \subseteq WordBits
  BY <1>1 DEF TypeInv, JobFits, JobType, Modes
<1>3. LoopOK'
  BY <1>1, LoopKept DEF TypeInv
<1>4. chan' \in [Channels -> [op : Ops, done : BOOLEAN, reg : Nat, data : SUBSET WordBits]]
      /\ \A ch \in Channels : chan'[ch].done \/ chan'[ch].reg \in Words
  <2>1. CASE j.op = "write" /\ j.for # "enable"
    <3> DEFINE q == [op |-> j.for, done |-> FALSE, reg |-> j.addr, data |-> result["alive"]]
    <3>1. q \in [op : Ops, done : BOOLEAN, reg : Nat, data : SUBSET WordBits] /\ q.reg \in Words
      BY <1>2, <2>1
    <3>2. chan' = [chan EXCEPT ![j.dev] = q]
      BY <1>1, <2>1
    <3> HIDE DEF q
    <3> QED BY <1>2, <3>1, <3>2 DEF TypeInv
  <2>2. CASE ~(j.op = "write" /\ j.for # "enable")
    BY <1>1, <2>2 DEF TypeInv
  <2> QED BY <2>1, <2>2
<1>5. result' \in [Modes -> SUBSET Bits("dword")] /\ result'["stall"] \subseteq WordBits
  <2>1. ChannelWord(j.dev) \subseteq Bits("dword")
    <3>1. chan[j.dev].data \subseteq WordBits
      BY <1>2 DEF TypeInv
    <3>2. \A ch, op : Flag(ch, op) \in Bits("dword")
      BY BitsFacts DEF Flag
    <3> QED BY <3>1, <3>2, BitsFacts DEF ChannelWord
  <2> QED BY <1>1, <2>1 DEF TypeInv, Modes
<1>6. job' \in [Modes -> SUBSET JobType]
  BY <1>1 DEF TypeInv
<1>7. \A m \in Modes : \A i \in job'[m] : JobFits(m, i)'
  <2> SUFFICES ASSUME NEW m \in Modes, NEW i \in job'[m] PROVE JobFits(m, i)'
    OBVIOUS
  <2>1. m = "stall" /\ i \in job[m]
    BY <1>1 DEF TypeInv, Modes
  <2> QED BY <2>1 DEF TypeInv, JobFits
<1> QED BY <1>1, <1>3, <1>4, <1>5, <1>6, <1>7 DEF TypeInv

\* A channel is done: a word is stored or read.
LEMMA TypeChannelDone == TypeInv /\ ChannelDone => TypeInv'
<1> SUFFICES ASSUME TypeInv, ChannelDone PROVE TypeInv'
  OBVIOUS
<1>1. PICK ch \in Channels :
        /\ ~chan[ch].done
        /\ chan' = [chan EXCEPT ![ch].done = TRUE,
                                ![ch].data = IF chan[ch].op = "read" THEN mem[ch][chan[ch].reg] ELSE @]
        /\ mem' = IF chan[ch].op = "write" THEN [mem EXCEPT ![ch][chan[ch].reg] = chan[ch].data] ELSE mem
        /\ UNCHANGED <<ptestio_cmd, k, todo, RetVal, polls, answer, pc, received, job, result, earlier, late>>
  BY DEF ChannelDone, fwVars, history
<1>2. chan[ch].reg \in Words /\ chan[ch].data \subseteq WordBits /\ ch \in Spaces
      /\ chan[ch] \in [op : Ops, done : BOOLEAN, reg : Nat, data : SUBSET WordBits]
  BY <1>1 DEF TypeInv, Spaces
<1>3. mem[ch][chan[ch].reg] \subseteq WordBits
  BY <1>2 DEF TypeInv
<1>4. chan' \in [Channels -> [op : Ops, done : BOOLEAN, reg : Nat, data : SUBSET WordBits]]
      /\ \A d \in Channels : chan'[d].done \/ chan'[d].reg \in Words
  BY <1>1, <1>2, <1>3 DEF TypeInv
<1>5. mem' \in [Spaces -> [Words -> SUBSET WordBits]]
  BY <1>1, <1>2 DEF TypeInv
<1>6. LoopOK'
  BY <1>1, LoopKept DEF TypeInv
<1>7. \A m \in Modes : \A j \in job'[m] : JobFits(m, j)'
  BY <1>1 DEF TypeInv, JobFits
<1> QED BY <1>1, <1>4, <1>5, <1>6, <1>7 DEF TypeInv

\* The target serves an access: the halves it reads and merges are words.
LEMMA TypeServe == TypeInv /\ Serve => TypeInv'
<1> SUFFICES ASSUME TypeInv, Serve PROVE TypeInv'
  OBVIOUS
<1>0. PICK m \in Modes : \E j \in job[m] :
        /\ j.for = "ocp"
        /\ LET w   == mem[j.dev]
               old == UNION {AtHalf(w[j.addr + h], h) : h \in 0..j.words - 1}
               new == (old \ j.enabled) \cup (result[m] \cap j.enabled)
           IN  IF j.op = "read"
               THEN /\ result' = [result EXCEPT ![m] = old]
                    /\ UNCHANGED mem
               ELSE /\ mem' = [mem EXCEPT ![j.dev] = [a \in Words |->
                         IF a \in j.addr .. j.addr + j.words - 1
                           THEN Half(new, a - j.addr) ELSE w[a]]]
                    /\ UNCHANGED result
        /\ job' = [job EXCEPT ![m] = {}]
        /\ UNCHANGED <<ptestio_cmd, k, todo, RetVal, polls, answer, pc, received, chan, earlier, late>>
  BY DEF Serve, fwVars, history
<1>1. PICK j \in job[m] :
        /\ j.for = "ocp"
        /\ LET w   == mem[j.dev]
               old == UNION {AtHalf(w[j.addr + h], h) : h \in 0..j.words - 1}
               new == (old \ j.enabled) \cup (result[m] \cap j.enabled)
           IN  IF j.op = "read"
               THEN /\ result' = [result EXCEPT ![m] = old]
                    /\ UNCHANGED mem
               ELSE /\ mem' = [mem EXCEPT ![j.dev] = [a \in Words |->
                         IF a \in j.addr .. j.addr + j.words - 1
                           THEN Half(new, a - j.addr) ELSE w[a]]]
                    /\ UNCHANGED result
        /\ job' = [job EXCEPT ![m] = {}]
        /\ UNCHANGED <<ptestio_cmd, k, todo, RetVal, polls, answer, pc, received, chan, earlier, late>>
  BY <1>0
<1> DEFINE w   == mem[j.dev]
           old == UNION {AtHalf(w[j.addr + h], h) : h \in 0..j.words - 1}
           new == (old \ j.enabled) \cup (result[m] \cap j.enabled)
<1>2. /\ j \in JobType /\ j.dev \in Spaces /\ j.words \in {1, 2} /\ j.addr \in Nat
      /\ \A h \in 0..j.words - 1 : j.addr + h \in Words
      /\ m = "stall" => j.words = 1
  BY <1>1 DEF TypeInv, JobFits, JobType
<1>3. w \in [Words -> SUBSET WordBits]
  BY <1>2 DEF TypeInv
<1>4. LoopOK'
  BY <1>1, LoopKept DEF TypeInv
<1>5. CASE j.op = "read"
  <2>1. \A h \in 0..j.words - 1 : h \in {0, 1} /\ w[j.addr + h] \subseteq WordBits
    BY <1>2, <1>3
  <2>2. \A h \in 0..j.words - 1 : AtHalf(w[j.addr + h], h) \subseteq Bits("dword")
    BY <2>1, AtHalfType, BitsFacts
  <2>3. old \subseteq Bits("dword")
    BY <2>2
  <2>4. m = "stall" => old \subseteq WordBits
    <3> SUFFICES ASSUME m = "stall" PROVE old \subseteq WordBits
      OBVIOUS
    <3>1. 0..j.words - 1 = {0}
      BY <1>2
    <3>2. w[j.addr + 0] \subseteq WordBits
      BY <2>1, <3>1
    <3>3. AtHalf(w[j.addr + 0], 0) \subseteq WordBits
      BY <3>2, BitsFacts DEF AtHalf
    <3> QED BY <3>1, <3>3
  <2>5. result' = [result EXCEPT ![m] = old] /\ mem' = mem
    BY <1>1, <1>5
  <2> HIDE DEF old
  <2>6. result' \in [Modes -> SUBSET Bits("dword")] /\ result'["stall"] \subseteq WordBits
    BY <2>3, <2>4, <2>5 DEF TypeInv, Modes
  <2>7. \A n \in Modes : \A i \in job'[n] : JobFits(n, i)'
    <3> SUFFICES ASSUME NEW n \in Modes, NEW i \in job'[n] PROVE JobFits(n, i)'
      OBVIOUS
    <3>1. n # m /\ i \in job[n]
      BY <1>1 DEF TypeInv
    <3>2. n = "alive" => result'["alive"] = result["alive"]
      BY <2>5, <3>1 DEF TypeInv, Modes
    <3>3. JobFits(n, i)
      BY <3>1 DEF TypeInv
    <3> QED BY <3>2, <3>3 DEF JobFits, Modes
  <2>8. job' \in [Modes -> SUBSET JobType]
    BY <1>1 DEF TypeInv
  <2> QED BY <1>1, <1>4, <2>5, <2>6, <2>7, <2>8 DEF TypeInv
<1>6. CASE j.op # "read"
  <2>1. /\ mem' = [mem EXCEPT ![j.dev] = [a \in Words |->
                      IF a \in j.addr .. j.addr + j.words - 1 THEN Half(new, a - j.addr) ELSE w[a]]]
        /\ result' = result
    BY <1>1, <1>6
  <2> HIDE DEF new, w
  <2>2. mem' \in [Spaces -> [Words -> SUBSET WordBits]]
    BY <1>2, <1>3, <2>1, HalfType DEF TypeInv
  <2>3. \A n \in Modes : \A i \in job'[n] : JobFits(n, i)'
    <3> SUFFICES ASSUME NEW n \in Modes, NEW i \in job'[n] PROVE JobFits(n, i)'
      OBVIOUS
    <3>1. i \in job[n]
      BY <1>1 DEF TypeInv
    <3> QED BY <2>1, <3>1 DEF TypeInv, JobFits
  <2>4. job' \in [Modes -> SUBSET JobType]
    BY <1>1 DEF TypeInv
  <2> QED BY <1>1, <1>4, <2>1, <2>2, <2>3, <2>4 DEF TypeInv
<1> QED BY <1>5, <1>6

\* The end of an access.
LEMMA TypeReturn ==
  ASSUME TypeInv, pc = "poll", NEW value, NEW upper, Return(value, upper),
         value \subseteq Bits("dword"), cmd.mode = "stall" => value \subseteq WordBits,
         upper \subseteq SUBSET WordBits,
         UNCHANGED <<ptestio_cmd, k>>
  PROVE  /\ todo' \in Seq(AccessType) /\ LoopOK'
         /\ pc' \in {"idle", "next", "start", "poll"}
         /\ RetVal' \subseteq Bits("dword")
         /\ polls' \in 0..MaxPolls - 1
         /\ answer' \in [0 .. 2 * MaxSet - 1 -> SUBSET SUBSET WordBits]
<1> DEFINE a  == Head(todo)
           at == DataNum(ptestio_cmd)[k - 1]
<1>1. /\ cmd \in Commands /\ a \in AccessType /\ Fits(a, cmd) /\ cmd' = cmd
      /\ todo # <<>> /\ Tail(todo) \in Seq(AccessType)
      /\ \A n \in 1..Len(Tail(todo)) : Fits(Tail(todo)[n], cmd)
  BY CmdType DEF cmd
<1>2. polls' = 0 /\ 0 \in 0..MaxPolls - 1
  BY TestIoAssumption DEF Return, ReturnOCP, ReturnChannel
<1>3. \/ todo' = Tail(todo)
      \/ todo' = todo
  BY DEF Return, ReturnOCP, ReturnChannel
<1>4. pc' = IF todo' = <<>> THEN "next" ELSE "start"
  BY DEF Return, ReturnOCP, ReturnChannel
<1>5. todo' \in Seq(AccessType) /\ LoopOK'
  <2>1. CASE todo' = Tail(todo)
    BY <1>1, <1>4, <2>1 DEF LoopOK, TypeInv
  <2>2. CASE todo' = todo
    BY <1>1, <1>4, <2>2 DEF LoopOK, TypeInv
  <2> QED BY <1>3, <2>1, <2>2
<1>6. RetVal' \subseteq Bits("dword")
  <2>1. a.half \in {0, 1} /\ (a.half = 1 => value \subseteq WordBits)
    BY <1>1 DEF AccessType, Fits
  <2>2. AtHalf(value, a.half) \subseteq Bits("dword")
    BY <2>1, AtHalfType
  <2>3. Half(value, 0) \subseteq Bits("dword")
    BY HalfType, BitsFacts
  <2>4. RetVal' \in {RetVal, RetVal \cup AtHalf(value, a.half), Half(value, 0)}
    BY DEF Return, ReturnOCP, ReturnChannel
  <2> QED BY <2>2, <2>3, <2>4 DEF TypeInv
<1>7. answer' \in [0 .. 2 * MaxSet - 1 -> SUBSET SUBSET WordBits]
  <2> DEFINE A == SUBSET SUBSET WordBits
  <2>1. {Half(value, 0)} \in A /\ {Half(value, 1)} \in A /\ upper \in A
    BY HalfType
  <2>2. cmd.mode = "stall" => {value} \in A
    OBVIOUS
  <2>3. \/ answer' = answer
        \/ cmd.mode = "stall" /\ answer' = [answer EXCEPT ![at + a.half] = {value}]
        \/ answer' = [answer EXCEPT ![at] = {Half(value, 0)},
                      ![at + 1] = IF cmd.size = "dword" THEN {Half(value, 1)} ELSE upper]
        \/ answer' = [answer EXCEPT ![at] = {Half(value, 0)}]
    BY DEF Return, ReturnOCP, ReturnChannel
  <2>4. answer \in [0 .. 2 * MaxSet - 1 -> A]
    BY DEF TypeInv
  <2> HIDE DEF A, at, a
  <2>5. answer' \in [0 .. 2 * MaxSet - 1 -> A]
    BY <2>1, <2>2, <2>3, <2>4
  <2> QED BY <2>5 DEF A
<1> QED BY <1>2, <1>4, <1>5, <1>6, <1>7

\* A poll, the result of an access and an access given up.
LEMMA TypePoll == TypeInv /\ (PollBusy \/ PollDone \/ GiveUp) => TypeInv'
<1> SUFFICES ASSUME TypeInv, PollBusy \/ PollDone \/ GiveUp PROVE TypeInv'
  OBVIOUS
<1>1. CASE PollBusy
  <2>1. /\ UNCHANGED <<ptestio_cmd, k, todo, RetVal, answer, pc, received, mem, chan, job, result, earlier, late>>
        /\ polls + 1 < MaxPolls /\ polls' = polls + 1
    BY <1>1 DEF PollBusy, targetVars, history
  <2>2. polls' \in 0..MaxPolls - 1
    BY <2>1, TestIoAssumption DEF TypeInv
  <2>3. LoopOK' /\ \A m \in Modes : \A j \in job'[m] : JobFits(m, j)'
    BY <2>1, LoopKept DEF TypeInv, JobFits
  <2> QED BY <2>1, <2>2, <2>3 DEF TypeInv
<1>2. CASE PollDone
  <2>1. /\ UNCHANGED <<ptestio_cmd, k, received, mem, chan, job, result, earlier, late>>
        /\ Return(result[cmd.mode], {}) /\ pc = "poll"
    BY <1>2 DEF PollDone, targetVars, history
  <2>2. cmd.mode \in Modes
    BY <2>1, CmdType, CommandFacts
  <2>3. result[cmd.mode] \subseteq Bits("dword")
        /\ (cmd.mode = "stall" => result[cmd.mode] \subseteq WordBits)
    BY <2>2 DEF TypeInv
  <2>4. /\ todo' \in Seq(AccessType) /\ LoopOK'
        /\ pc' \in {"idle", "next", "start", "poll"}
        /\ RetVal' \subseteq Bits("dword")
        /\ polls' \in 0..MaxPolls - 1
        /\ answer' \in [0 .. 2 * MaxSet - 1 -> SUBSET SUBSET WordBits]
    BY <2>1, <2>3, TypeReturn
  <2>5. \A m \in Modes : \A j \in job'[m] : JobFits(m, j)'
    BY <2>1 DEF TypeInv, JobFits
  <2> QED BY <2>1, <2>4, <2>5 DEF TypeInv
<1>3. CASE GiveUp
  <2>1. /\ UNCHANGED <<ptestio_cmd, k, received, mem, chan, result, earlier>> /\ late' = TRUE
        /\ Return(IF cmd.mode = "stall" THEN WordBits ELSE {}, {{}}) /\ pc = "poll"
        /\ job' = IF cmd.mode = "alive" THEN [job EXCEPT !["alive"] = {}] ELSE job
    BY <1>3 DEF GiveUp
  <2> DEFINE value == IF cmd.mode = "stall" THEN WordBits ELSE {}
  <2>2. value \subseteq Bits("dword") /\ value \subseteq WordBits
    BY BitsFacts
  <2> HIDE DEF value
  <2>3. /\ todo' \in Seq(AccessType) /\ LoopOK'
        /\ pc' \in {"idle", "next", "start", "poll"}
        /\ RetVal' \subseteq Bits("dword")
        /\ polls' \in 0..MaxPolls - 1
        /\ answer' \in [0 .. 2 * MaxSet - 1 -> SUBSET SUBSET WordBits]
    <3>1. {{}} \subseteq SUBSET WordBits
      OBVIOUS
    <3>2. Return(value, {{}})
      BY <2>1 DEF value
    <3> QED BY <2>1, <2>2, <3>1, <3>2, TypeReturn
  <2>4. job' \in [Modes -> SUBSET JobType] /\ \A m \in Modes : job'[m] \subseteq job[m]
    BY <2>1 DEF TypeInv, Modes
  <2>5. \A m \in Modes : \A j \in job'[m] : JobFits(m, j)'
    BY <2>1, <2>4 DEF TypeInv, JobFits
  <2> QED BY <2>1, <2>3, <2>4, <2>5 DEF TypeInv
<1> QED BY <1>1, <1>2, <1>3

\* Every step keeps the invariant.
LEMMA TypeStep == TypeInv /\ [Next]_vars => TypeInv'
<1> SUFFICES ASSUME TypeInv, [Next]_vars PROVE TypeInv'
  OBVIOUS
<1>1. CASE UNCHANGED vars
  BY <1>1 DEF vars, fwVars, targetVars, history, TypeInv, LoopOK, cmd, JobFits
<1> QED
  BY <1>1, TypeReceive, TypeNextCommand, TypeStart, TypeServe, TypeServeChannel, TypeChannelDone, TypePoll
     DEF Next, Firmware

\* For any commands, bounds and target, the variables keep their types: in
\* particular no word of the target or of the response grows past its bits,
\* whatever is shifted and merged, and a channel is started for a word it has.
THEOREM TypeCorrect == Spec => []TypeOK
<1> QED BY TypeInit, TypeStep, TypeInvType, PTL DEF Spec

-----------------------------------------------------------------------------
\* NoOverlap is inductive once job is known to be a function of the units.
IInv == DOMAIN job = Modes /\ job = [m \in Modes |-> job[m]] /\ NoOverlap

\* The invariant holds initially: no unit has been started.
LEMMA InitHolds == Init => IInv
BY DEF Init, IInv, NoOverlap, NoJob, Modes

\* Every step keeps it: an alive access is polled until its unit is idle or
\* cancelled, and a stalled one is cancelled by the selection of the next.
LEMMA StepKeeps == IInv /\ [Next]_vars => IInv'
<1> SUFFICES ASSUME IInv, [Next]_vars PROVE IInv'
  OBVIOUS
<1> USE DEF IInv, NoOverlap, Modes, cmd
<1>1. CASE Receive
  BY <1>1 DEF Receive, targetVars
<1>2. CASE NextCommand
  BY <1>2 DEF NextCommand, targetVars
<1>3. CASE Start
  <2>1. /\ DOMAIN job' = Modes /\ job' = [m \in Modes |-> job'[m]]
        /\ job'["alive"] # {} => cmd.mode = "alive"
        /\ cmd.mode = "alive" => job'["stall"] = {}
    BY <1>3 DEF Start
  <2>2. pc' = "poll" /\ cmd' = cmd
    BY <1>3 DEF Start
  <2> QED
    BY <2>1, <2>2
<1>4. CASE Serve \/ ServeChannel
  <2>1. PICK m \in Modes : job' = [job EXCEPT ![m] = {}]
    BY <1>4 DEF Serve, ServeChannel, Modes
  <2>2. UNCHANGED <<ptestio_cmd, k, pc>>
    BY <1>4 DEF Serve, ServeChannel, fwVars
  <2> QED
    BY <2>1, <2>2
<1>5. CASE PollBusy
  BY <1>5 DEF PollBusy, targetVars
<1>6. CASE PollDone
  <2>1. job["alive"] = {} /\ UNCHANGED job
    BY <1>6 DEF PollDone, targetVars
  <2>2. pc' # "poll"
    BY <1>6 DEF PollDone, Return, ReturnOCP, ReturnChannel
  <2> QED
    BY <2>1, <2>2
<1>7. CASE GiveUp
  <2>1. /\ DOMAIN job' = Modes /\ job' = [m \in Modes |-> job'[m]]
        /\ job'["alive"] = {}
    BY <1>7 DEF GiveUp
  <2>2. pc' # "poll"
    BY <1>7 DEF GiveUp, Return, ReturnOCP, ReturnChannel
  <2> QED
    BY <2>1, <2>2
<1>8. CASE ChannelDone
  BY <1>8 DEF ChannelDone, fwVars
<1>9. CASE UNCHANGED vars
  BY <1>9 DEF vars, fwVars, targetVars
<1> QED
  BY <1>1, <1>2, <1>3, <1>4, <1>5, <1>6, <1>7, <1>8, <1>9 DEF Next, Firmware

\* For any commands, polling bound and target, a unit of the target is never
\* started while an access it or the other unit was started for is pending.
THEOREM AccessesNeverOverlap == Spec => []NoOverlap
<1>1. IInv => NoOverlap
  BY DEF IInv
<1> QED
  BY InitHolds, StepKeeps, <1>1, PTL DEF Spec

-----------------------------------------------------------------------------
(* What a change of the target goes back to                                *)

\* The commands that may still have a write under way.
Sent == earlier \cup {ptestio_cmd[n] : n \in 1..k}

\* The words of an access are words of a write command.
Covers(c, j) ==
    /\ c.rw = "write" /\ Space(c) = j.dev
    /\ c.addr <= j.addr /\ j.addr + j.words <= c.addr + Size(c)

\* Every pending write of the stalled unit is of a command sent: once the
\* first access of a batch has been started, of the command in progress.
StalledNamed ==
    \A j \in job["stall"] : j.op = "write" =>
      \E c \in Sent : /\ c.channel = "ocp" /\ c.mode = "stall" /\ Covers(c, j)
                      /\ k > 0 /\ pc # "start" => c = cmd

\* What the alive unit is to store is of the command in progress.
AliveNamed ==
    \A j \in job["alive"] : j.op = "write" /\ j.for \in {"ocp", "write"} =>
      /\ Covers(cmd, j) /\ j.addr = cmd.addr /\ j.enabled = Enabled(cmd)
      /\ j.for = "write" => cmd.channel = j.dev

\* What a channel is to store is of a command sent.
ChannelsNamed ==
    \A ch \in Channels : ~chan[ch].done /\ chan[ch].op = "write" =>
      \E c \in Sent : c.rw = "write" /\ c.channel = ch /\ c.addr = chan[ch].reg

NamedInv == StalledNamed /\ AliveNamed /\ ChannelsNamed

\* The assumption: no stalled write is for the DMA MCU, whose selection the
\* start of the write clears (WtOCPAddr).
Routed == \A c \in Commands : c.rw = "write" /\ c.mode = "stall" => c.dev = "pla"

\* A bit that is enabled lies in a byte of the mask.
LEMMA EnabledBytes ==
  ASSUME NEW c \in Commands, NEW bit \in Enabled(c)
  PROVE  \E m \in Mask(c) : m \div ByteBits = bit \div ByteBits
<1>1. /\ c.lbit \in Nat /\ c.hbit \in Nat /\ c.lbit <= c.hbit
      /\ bit \in Nat /\ c.lbit \div ByteBits <= bit \div ByteBits
      /\ bit \div ByteBits <= c.hbit \div ByteBits
  <2>1. c.lbit \in Nat /\ c.hbit \in Nat /\ c.lbit <= c.hbit /\ bit \in Nat
    BY CommandFacts, BitsFacts DEF Enabled
  <2> QED BY <2>1, BitsFacts DEF Enabled
<1>2. ASSUME NEW x \in Nat, NEW y \in Nat, x <= y PROVE x \div ByteBits <= y \div ByteBits
  BY <1>2, BitsFacts
<1> DEFINE byte(x) == x \div ByteBits
<1>3. \A x \in Nat : byte(x) \in Int
  BY BitsFacts
<1>4. byte(c.lbit) <= byte(bit) /\ byte(bit) <= byte(c.hbit)
  BY <1>1
<1>5. CASE bit < c.lbit
  <2>1. byte(bit) <= byte(c.lbit)
    BY <1>1, <1>2, <1>5
  <2>2. byte(c.lbit) \in Int /\ byte(bit) \in Int
    BY <1>1, <1>3
  <2> HIDE DEF byte
  <2>3. byte(c.lbit) = byte(bit)
    BY <1>4, <2>1, <2>2
  <2> QED BY <1>1, <2>3 DEF Mask, byte
<1>6. CASE bit > c.hbit
  <2>1. byte(c.hbit) <= byte(bit)
    BY <1>1, <1>2, <1>6
  <2>2. byte(c.hbit) \in Int /\ byte(bit) \in Int
    BY <1>1, <1>3
  <2> HIDE DEF byte
  <2>3. byte(c.hbit) = byte(bit)
    BY <1>4, <2>1, <2>2
  <2> QED BY <1>1, <2>3 DEF Mask, byte
<1>7. CASE c.lbit <= bit /\ bit <= c.hbit
  BY <1>1, <1>7 DEF Mask
<1> QED BY <1>1, <1>5, <1>6, <1>7

\* Words merged and split again keep the bits that are not enabled.
LEMMA MergeKeeps ==
  ASSUME NEW w \in [Words -> SUBSET WordBits], NEW addr \in Nat, NEW words \in {1, 2},
         \A h \in 0..words - 1 : addr + h \in Words,
         NEW enabled, NEW data, NEW a \in addr..addr + words - 1, NEW b \in WordBits,
         b + (a - addr) * 2 * ByteBits \notin enabled
  PROVE  LET old == UNION {AtHalf(w[addr + h], h) : h \in 0..words - 1}
             new == (old \ enabled) \cup (data \cap enabled)
         IN  b \in Half(new, a - addr) <=> b \in w[a]
<1> DEFINE old == UNION {AtHalf(w[addr + h], h) : h \in 0..words - 1}
           new == (old \ enabled) \cup (data \cap enabled)
           bit == b + (a - addr) * 2 * ByteBits
<1>1. b \in Half(new, a - addr) <=> bit \in old
  BY DEF Half
<1>2. bit \in old <=> \E h \in 0..words - 1 : \E x \in w[addr + h] : bit = x + h * 2 * ByteBits
  BY DEF AtHalf
<1>3. a - addr \in 0..words - 1 /\ addr + (a - addr) = a
  OBVIOUS
<1>4. ASSUME NEW h \in 0..words - 1, NEW x \in w[addr + h], bit = x + h * 2 * ByteBits
      PROVE  h = a - addr /\ x = b
  <2>1. h \in {0, 1} /\ a - addr \in {0, 1} /\ x \in WordBits
    BY <1>3
  <2>2. x \in 0..2 * ByteBits - 1 /\ b \in 0..2 * ByteBits - 1 /\ ByteBits \in Nat
    BY <2>1, BitsFacts
  <2>3. /\ a - addr = 0 => bit = b
        /\ a - addr = 1 => bit = b + 2 * ByteBits
        /\ h = 0 => bit = x
        /\ h = 1 => bit = x + 2 * ByteBits
    BY <1>4, <2>1, <2>2
  <2> HIDE DEF bit
  <2> QED BY <2>1, <2>2, <2>3
<1> HIDE DEF old, bit
<1>5. bit \in old => b \in w[a]
  BY <1>2, <1>3, <1>4
<1>6. b \in w[a] => bit \in old
  BY <1>2, <1>3 DEF bit
<1> QED BY <1>1, <1>5, <1>6 DEF old

\* Commands are counted with numbers.
LEMMA KType == TypeInv => k \in Nat
<1> SUFFICES ASSUME TypeInv PROVE k \in Nat
  OBVIOUS
<1>1. Len(ptestio_cmd) \in Nat /\ k \in 0..Len(ptestio_cmd)
  BY DEF TypeInv
<1> QED BY <1>1

\* What was sent is a command.
LEMMA SentType == TypeInv => Sent \subseteq Commands
<1> SUFFICES ASSUME TypeInv PROVE Sent \subseteq Commands
  OBVIOUS
<1>1. \A n \in 1..k : ptestio_cmd[n] \in Commands
  BY DEF TypeInv
<1> QED BY <1>1 DEF Sent, TypeInv

\* It holds initially: nothing is pending.
LEMMA NamedInit == Init => NamedInv
BY DEF Init, NamedInv, StalledNamed, AliveNamed, ChannelsNamed, NoJob, Modes

\* A batch arrives: what is pending is of a command the batch keeps in earlier.
LEMMA NamedReceive == TypeInv /\ IInv /\ NamedInv /\ Receive => NamedInv'
<1> SUFFICES ASSUME TypeInv, IInv, NamedInv, Receive PROVE NamedInv'
  OBVIOUS
<1>1. /\ pc = "idle" /\ pc' = "next" /\ k' = 0 /\ UNCHANGED <<chan, job>>
      /\ earlier' = {c \in Sent : IF c.channel = "ocp"
                                    THEN job["stall"] # {} /\ (k = 0 \/ c = cmd)
                                    ELSE ~chan[c.channel].done /\ chan[c.channel].reg = c.addr}
  BY DEF Receive, targetVars, Sent
<1>2. k \in Nat /\ job["alive"] = {} /\ earlier' \subseteq Sent'
  <2>1. k \in Nat
    BY KType
  <2>2. job["alive"] = {}
    BY <1>1 DEF IInv, NoOverlap
  <2> QED BY <2>1, <2>2 DEF Sent
<1>3. StalledNamed'
  <2> SUFFICES ASSUME NEW j \in job["stall"], j.op = "write"
               PROVE  \E c \in Sent' : c.channel = "ocp" /\ c.mode = "stall" /\ Covers(c, j)
    BY <1>1 DEF StalledNamed, Covers, Space, Size
  <2>1. PICK c \in Sent : /\ c.channel = "ocp" /\ c.mode = "stall" /\ Covers(c, j)
                          /\ k > 0 => c = cmd
    BY <1>1 DEF NamedInv, StalledNamed
  <2>2. c \in earlier'
    BY <1>1, <1>2, <2>1
  <2> QED BY <1>2, <2>1, <2>2
<1>4. AliveNamed'
  BY <1>1, <1>2 DEF AliveNamed
<1>5. ChannelsNamed'
  <2> SUFFICES ASSUME NEW ch \in Channels, ~chan[ch].done, chan[ch].op = "write"
               PROVE  \E c \in Sent' : c.rw = "write" /\ c.channel = ch /\ c.addr = chan[ch].reg
    BY <1>1 DEF ChannelsNamed
  <2>1. PICK c \in Sent : c.rw = "write" /\ c.channel = ch /\ c.addr = chan[ch].reg
    BY DEF NamedInv, ChannelsNamed
  <2>2. ch # "ocp"
    BY DEF Channels, Phys
  <2>3. c \in earlier'
    BY <1>1, <2>1, <2>2
  <2> QED BY <1>2, <2>1, <2>3
<1> QED BY <1>3, <1>4, <1>5 DEF NamedInv

\* The next command: those sent are still sent.
LEMMA NamedNextCommand == TypeInv /\ IInv /\ NamedInv /\ NextCommand => NamedInv'
<1> SUFFICES ASSUME TypeInv, IInv, NamedInv, NextCommand PROVE NamedInv'
  OBVIOUS
<1>1. /\ pc = "next" /\ UNCHANGED <<ptestio_cmd, chan, job, earlier>>
      /\ \/ k' = k + 1 /\ pc' = "start"
         \/ k' = k /\ pc' = "idle"
  BY DEF NextCommand, targetVars, history
<1>2. Sent \subseteq Sent' /\ job["alive"] = {} /\ k \in Nat
  <2>1. k \in Nat
    BY KType
  <2>2. job["alive"] = {}
    BY <1>1 DEF IInv, NoOverlap
  <2>3. 1..k \subseteq 1..k'
    BY <1>1, <2>1
  <2> QED BY <1>1, <2>1, <2>2, <2>3 DEF Sent
<1>3. StalledNamed'
  <2> SUFFICES ASSUME NEW j \in job["stall"], j.op = "write"
               PROVE  \E c \in Sent' : /\ c.channel = "ocp" /\ c.mode = "stall" /\ Covers(c, j)
                                       /\ k' > 0 /\ pc' # "start" => c = cmd'
    BY <1>1 DEF StalledNamed, Covers, Space, Size
  <2>1. PICK c \in Sent : /\ c.channel = "ocp" /\ c.mode = "stall" /\ Covers(c, j)
                          /\ k > 0 => c = cmd
    BY <1>1 DEF NamedInv, StalledNamed
  <2> QED BY <1>1, <1>2, <2>1 DEF cmd
<1>4. AliveNamed'
  BY <1>1, <1>2 DEF AliveNamed
<1>5. ChannelsNamed'
  BY <1>1, <1>2 DEF NamedInv, ChannelsNamed
<1> QED BY <1>3, <1>4, <1>5 DEF NamedInv

\* A start: the unit is given words of the command in progress.
LEMMA NamedStart == Routed /\ TypeInv /\ IInv /\ NamedInv /\ Start => NamedInv'
<1> SUFFICES ASSUME Routed, TypeInv, IInv, NamedInv, Start PROVE NamedInv'
  OBVIOUS
<1> DEFINE a == Head(todo)
           stall == cmd.mode = "stall"
           started == [op |-> a.op, for |-> a.for,
                       dev |-> IF a.for = "ocp" THEN Selected(a) ELSE Space(cmd),
                       addr |-> cmd.addr + a.half,
                       words |-> IF stall THEN 1 ELSE Size(cmd),
                       enabled |-> IF stall THEN WordBits ELSE Enabled(cmd)]
<1>1. /\ pc = "start" /\ pc' = "poll" /\ UNCHANGED <<ptestio_cmd, k, chan, earlier>>
      /\ job' = [job EXCEPT !["stall"] = {}, ![cmd.mode] = {started}]
  BY DEF Start, history
<1>2. cmd \in Commands /\ a \in AccessType /\ Fits(a, cmd)
  BY <1>1, CmdType
<1>3. /\ cmd.mode \in Modes /\ cmd.addr \in Nat /\ Size(cmd) \in {1, 2}
      /\ cmd.size = "dword" => Size(cmd) = 2
      /\ cmd.channel # "ocp" => cmd.mode = "alive"
      /\ a.half \in {0, 1} /\ a.for \in {"ocp", "enable"} \cup Ops
  BY <1>2, CommandFacts DEF AccessType, Size
<1>4. cmd' = cmd /\ Sent' = Sent /\ cmd \in Sent
  <2>1. k \in 1..k
    BY <1>1 DEF TypeInv, LoopOK
  <2> QED BY <1>1, <2>1 DEF cmd, Sent
<1>5. a.op = "write" /\ a.for \in {"ocp", "write"} =>
        Covers(cmd, started) /\ (~stall => started.addr = cmd.addr)
  <2> SUFFICES ASSUME a.op = "write", a.for \in {"ocp", "write"}
               PROVE  Covers(cmd, started) /\ (~stall => started.addr = cmd.addr)
    OBVIOUS
  <2>1. cmd.rw = "write"
    BY <1>2 DEF Fits
  <2>2. Space(cmd) = started.dev
    <3>1. CASE a.for # "ocp"
      BY <3>1
    <3>2. CASE a.for = "ocp"
      <4>1. cmd.channel = "ocp" /\ (stall => cmd.dev = "pla")
        BY <1>2, <2>1, <3>2 DEF Fits, Routed
      <4> QED BY <3>2, <4>1 DEF Selected, Space
    <3> QED BY <3>1, <3>2
  <2>3. /\ a.half = 1 => stall /\ Size(cmd) = 2
        /\ started.addr = cmd.addr + a.half
        /\ started.words = IF stall THEN 1 ELSE Size(cmd)
    BY <1>2, <1>3 DEF Fits
  <2> HIDE DEF started, a, stall
  <2>4. /\ cmd.addr <= started.addr /\ started.addr + started.words <= cmd.addr + Size(cmd)
        /\ ~stall => started.addr = cmd.addr
    BY <1>3, <2>3
  <2> QED BY <2>1, <2>2, <2>4 DEF Covers
<1>6. started.op = a.op /\ started.for = a.for /\ (~stall => started.enabled = Enabled(cmd))
      /\ (a.for # "ocp" => started.dev = Space(cmd))
  OBVIOUS
<1>7. StalledNamed'
  <2> SUFFICES ASSUME NEW j \in job'["stall"], j.op = "write"
               PROVE  cmd.channel = "ocp" /\ cmd.mode = "stall" /\ Covers(cmd, j)
    BY <1>1, <1>4 DEF StalledNamed, Covers, Space, Size
  <2>1. stall /\ j = started
    BY <1>1, <1>3 DEF TypeInv, Modes
  <2>2. cmd.channel = "ocp" /\ a.for = "ocp"
    BY <1>2, <1>3, <2>1 DEF Fits
  <2> HIDE DEF started, a
  <2> QED BY <1>5, <1>6, <2>1, <2>2
<1>8. AliveNamed'
  <2> SUFFICES ASSUME NEW j \in job'["alive"], j.op = "write", j.for \in {"ocp", "write"}
               PROVE  /\ Covers(cmd, j) /\ j.addr = cmd.addr /\ j.enabled = Enabled(cmd)
                      /\ j.for = "write" => cmd.channel = j.dev
    BY <1>1, <1>4 DEF AliveNamed, Covers, Space, Size, Enabled
  <2>1. cmd.mode = "alive" => j = started
    BY <1>1 DEF TypeInv, Modes
  <2>2. cmd.mode = "alive"
    BY <1>1, <1>3 DEF TypeInv, Modes, IInv, NoOverlap
  <2>3. a.for = "write" => cmd.channel # "ocp"
    BY <1>2 DEF Fits
  <2> HIDE DEF started, a
  <2> QED BY <1>5, <1>6, <2>1, <2>2, <2>3 DEF Space
<1>9. ChannelsNamed'
  BY <1>1, <1>4 DEF NamedInv, ChannelsNamed
<1> QED BY <1>7, <1>8, <1>9 DEF NamedInv

\* The target serves an access for a channel: it is of the command in progress.
LEMMA NamedServeChannel == TypeInv /\ IInv /\ NamedInv /\ ServeChannel => NamedInv'
<1> SUFFICES ASSUME TypeInv, IInv, NamedInv, ServeChannel PROVE NamedInv'
  OBVIOUS
<1>1. PICK j \in job["alive"] :
        /\ j.for # "ocp"
        /\ chan' = IF j.op = "write" /\ j.for # "enable"
                   THEN [chan EXCEPT ![j.dev] = [op |-> j.for, done |-> FALSE, reg |-> j.addr,
                                                 data |-> result["alive"]]]
                   ELSE chan
        /\ job' = [job EXCEPT !["alive"] = {}]
        /\ UNCHANGED <<ptestio_cmd, k, pc, earlier>>
  BY DEF ServeChannel, fwVars, history
<1>2. cmd' = cmd /\ Sent' = Sent /\ job'["alive"] = {} /\ job'["stall"] = job["stall"]
  BY <1>1 DEF cmd, Sent, TypeInv, Modes
<1>3. StalledNamed' /\ AliveNamed'
  BY <1>1, <1>2 DEF NamedInv, StalledNamed, AliveNamed, Covers, Space, Size
<1>4. cmd \in Sent
  <2>1. k \in 1..k
    <3>1. pc = "poll"
      BY <1>1 DEF IInv, NoOverlap
    <3>2. k > 0
      BY <3>1 DEF TypeInv, LoopOK
    <3> QED BY <3>2, KType
  <2> QED BY <2>1 DEF cmd, Sent
<1>5. ChannelsNamed'
  <2> SUFFICES ASSUME NEW ch \in Channels, ~chan'[ch].done, chan'[ch].op = "write"
               PROVE  \E c \in Sent : c.rw = "write" /\ c.channel = ch /\ c.addr = chan'[ch].reg
    BY <1>2 DEF ChannelsNamed
  <2>1. CASE chan'[ch] = chan[ch]
    BY <2>1 DEF NamedInv, ChannelsNamed
  <2>2. CASE chan'[ch] # chan[ch]
    <3>1. /\ j.op = "write" /\ j.for # "enable" /\ ch = j.dev
          /\ chan'[ch] = [op |-> j.for, done |-> FALSE, reg |-> j.addr, data |-> result["alive"]]
      BY <1>1, <2>2 DEF TypeInv
    <3>2. j.for = "write" /\ chan'[ch].reg = j.addr
      BY <3>1
    <3>3. Covers(cmd, j) /\ j.addr = cmd.addr /\ cmd.channel = j.dev
      BY <3>1, <3>2 DEF NamedInv, AliveNamed
    <3> QED BY <1>4, <3>1, <3>2, <3>3 DEF Covers
  <2> QED BY <2>1, <2>2
<1> QED BY <1>3, <1>5 DEF NamedInv

\* What ends or gives up an access, or serves it, starts nothing.
LEMMA NamedOther ==
  ASSUME TypeInv, IInv, NamedInv, ChannelDone \/ Serve \/ PollBusy \/ PollDone \/ GiveUp
  PROVE  NamedInv'
<1>1. /\ UNCHANGED <<ptestio_cmd, k, earlier>>
      /\ job \in [Modes -> SUBSET JobType]
      /\ job'["stall"] \subseteq job["stall"] /\ job'["alive"] \subseteq job["alive"]
      /\ \A ch \in Channels : ~chan'[ch].done => chan'[ch] = chan[ch]
      /\ pc' = pc \/ (pc = "poll" /\ job'["alive"] = {})
  <2>0. job \in [Modes -> SUBSET JobType]
        /\ (job["alive"] # {} => pc = "poll")
        /\ \A ch \in Channels : chan[ch].done \in BOOLEAN
    BY DEF TypeInv, IInv, NoOverlap
  <2>1. CASE ChannelDone
    <3>1. PICK c \in Channels :
            chan' = [chan EXCEPT ![c].done = TRUE,
                                 ![c].data = IF chan[c].op = "read" THEN mem[c][chan[c].reg] ELSE @]
      BY <2>1 DEF ChannelDone
    <3>2. \A ch \in Channels : ~chan'[ch].done => chan'[ch] = chan[ch]
      BY <3>1 DEF TypeInv
    <3>3. UNCHANGED <<ptestio_cmd, k, earlier, job, pc>>
      BY <2>1 DEF ChannelDone, fwVars, history
    <3> QED BY <2>0, <3>2, <3>3
  <2>2. CASE Serve
    <3>1. PICK m \in Modes : job' = [job EXCEPT ![m] = {}]
      BY <2>2 DEF Serve
    <3>2. UNCHANGED <<ptestio_cmd, k, earlier, pc, chan>>
      BY <2>2 DEF Serve, fwVars, history
    <3> QED BY <2>0, <3>1, <3>2 DEF Modes
  <2>3. CASE PollBusy
    BY <2>3 DEF PollBusy, targetVars, history, TypeInv
  <2>4. CASE PollDone
    BY <2>4 DEF PollDone, targetVars, history, TypeInv, IInv, NoOverlap
  <2>5. CASE GiveUp
    BY <2>5 DEF GiveUp, history, TypeInv, Modes, IInv, NoOverlap
  <2> QED BY <2>1, <2>2, <2>3, <2>4, <2>5
<1>2. cmd' = cmd /\ Sent' = Sent
  BY <1>1 DEF cmd, Sent
<1>3. StalledNamed'
  BY <1>1, <1>2 DEF NamedInv, StalledNamed, Covers, Space, Size
<1>4. AliveNamed'
  BY <1>1, <1>2 DEF NamedInv, AliveNamed, Covers, Space, Size, Enabled
<1>5. ChannelsNamed'
  BY <1>1, <1>2 DEF NamedInv, ChannelsNamed
<1> QED BY <1>3, <1>4, <1>5 DEF NamedInv

\* Every step keeps it.
LEMMA NamedStep ==
  ASSUME Routed, TypeInv, IInv, NamedInv, [Next]_vars
  PROVE  NamedInv'
<1>1. CASE UNCHANGED vars
  BY <1>1 DEF vars, fwVars, targetVars, history, NamedInv, StalledNamed, AliveNamed,
              ChannelsNamed, Sent, cmd, Covers, Space, Size, Enabled
<1> QED
  BY <1>1, NamedReceive, NamedNextCommand, NamedStart, NamedServeChannel, NamedOther
     DEF Next, Firmware

\* The bits that a command c may change.
Touches(c, d, a, b) ==
    LET bit == b + (a - c.addr) * 2 * ByteBits
    IN  /\ c.rw = "write" /\ Space(c) = d
        /\ a \in c.addr .. c.addr + Size(c) - 1
        /\ c.mode = "alive" /\ c.channel = "ocp" =>
             \E m \in Mask(c) : m \div ByteBits = bit \div ByteBits

\* A unit that serves a write changes what its command touches.
LEMMA ServeTouches ==
  ASSUME TypeInv, IInv, NamedInv, Serve,
         NEW d \in Spaces, NEW a \in Words, NEW b \in WordBits,
         (b \in mem[d][a]) # (b \in mem'[d][a])
  PROVE  \E c \in Sent : Touches(c, d, a, b)
<1>1. PICK m \in Modes : \E j \in job[m] :
        /\ j.for = "ocp"
        /\ LET w   == mem[j.dev]
               old == UNION {AtHalf(w[j.addr + h], h) : h \in 0..j.words - 1}
               new == (old \ j.enabled) \cup (result[m] \cap j.enabled)
           IN  IF j.op = "read"
               THEN UNCHANGED mem
               ELSE mem' = [mem EXCEPT ![j.dev] = [x \in Words |->
                       IF x \in j.addr .. j.addr + j.words - 1
                         THEN Half(new, x - j.addr) ELSE w[x]]]
  BY DEF Serve
<1>2. PICK j \in job[m] :
        /\ j.for = "ocp"
        /\ LET w   == mem[j.dev]
               old == UNION {AtHalf(w[j.addr + h], h) : h \in 0..j.words - 1}
               new == (old \ j.enabled) \cup (result[m] \cap j.enabled)
           IN  IF j.op = "read"
               THEN UNCHANGED mem
               ELSE mem' = [mem EXCEPT ![j.dev] = [x \in Words |->
                       IF x \in j.addr .. j.addr + j.words - 1
                         THEN Half(new, x - j.addr) ELSE w[x]]]
  BY <1>1
<1> DEFINE w   == mem[j.dev]
           old == UNION {AtHalf(w[j.addr + h], h) : h \in 0..j.words - 1}
           new == (old \ j.enabled) \cup (result[m] \cap j.enabled)
<1>3. /\ j.dev \in Spaces /\ j.words \in {1, 2} /\ j.addr \in Nat /\ j.op \in Ops
      /\ \A h \in 0..j.words - 1 : j.addr + h \in Words
      /\ w \in [Words -> SUBSET WordBits]
      /\ a \in Nat
  <2>1. j \in JobType /\ JobFits(m, j)
    BY DEF TypeInv
  <2>2. Words \subseteq Nat
    BY TestIoAssumption
  <2> QED BY <1>2, <2>1, <2>2 DEF TypeInv, JobFits, JobType
<1>4. j.op = "write" /\ mem' = [mem EXCEPT ![j.dev] = [x \in Words |->
                         IF x \in j.addr .. j.addr + j.words - 1
                           THEN Half(new, x - j.addr) ELSE w[x]]]
  BY <1>2, <1>3 DEF Ops
<1> HIDE DEF new, w
<1>5. d = j.dev /\ a \in j.addr .. j.addr + j.words - 1 /\ (b \in w[a]) # (b \in Half(new, a - j.addr))
  <2>1. d = j.dev
    BY <1>3, <1>4 DEF TypeInv
  <2>2. mem[d] = w /\ mem'[d] = [x \in Words |-> IF x \in j.addr .. j.addr + j.words - 1
                                   THEN Half(new, x - j.addr) ELSE w[x]]
    BY <1>3, <1>4, <2>1 DEF TypeInv, w
  <2> QED BY <2>1, <2>2
<1>6. b + (a - j.addr) * 2 * ByteBits \in j.enabled
  <2> SUFFICES ASSUME b + (a - j.addr) * 2 * ByteBits \notin j.enabled PROVE FALSE
    OBVIOUS
  <2> DEFINE data == result[m]
             keeps == b \in Half(new, a - j.addr) <=> b \in w[a]
  <2>1. keeps
    BY <1>3, <1>5, MergeKeeps DEF new
  <2> QED BY <1>5, <2>1
<1>7. CASE m = "stall"
  <2>1. PICK c \in Sent : c.channel = "ocp" /\ c.mode = "stall" /\ Covers(c, j)
    BY <1>4, <1>7 DEF NamedInv, StalledNamed
  <2>2. c \in Commands
    BY SentType
  <2>3. c.addr \in Nat /\ Size(c) \in {1, 2}
    BY <2>2, CommandFacts
  <2>4. a \in c.addr .. c.addr + Size(c) - 1
    BY <1>3, <1>5, <2>1, <2>3 DEF Covers
  <2> QED BY <1>5, <2>1, <2>4 DEF Touches, Covers
<1>8. CASE m = "alive"
  <2>1. /\ Covers(cmd, j) /\ j.addr = cmd.addr /\ j.enabled = Enabled(cmd)
    BY <1>2, <1>4, <1>8 DEF NamedInv, AliveNamed
  <2>2. pc = "poll"
    BY <1>8 DEF IInv, NoOverlap
  <2>3. cmd \in Commands
    BY <2>2, CmdType
  <2>4. cmd \in Sent
    <3>1. k > 0
      BY <2>2 DEF TypeInv, LoopOK
    <3>2. k \in 1..k
      BY <3>1, KType
    <3> QED BY <3>2 DEF cmd, Sent
  <2>5. cmd.addr \in Nat /\ Size(cmd) \in {1, 2}
    BY <2>3, CommandFacts
  <2>6. a \in cmd.addr .. cmd.addr + Size(cmd) - 1
    BY <1>3, <1>5, <2>1, <2>5 DEF Covers
  <2>7. \E q \in Mask(cmd) : q \div ByteBits = (b + (a - cmd.addr) * 2 * ByteBits) \div ByteBits
    BY <1>6, <2>1, <2>3, EnabledBytes
  <2> QED BY <1>5, <2>1, <2>4, <2>6, <2>7 DEF Touches, Covers
<1> QED BY <1>7, <1>8 DEF Modes

\* A step changes only what a command sent touches.
LEMMA ChangesTouched ==
  ASSUME TypeInv, IInv, NamedInv, [Next]_vars,
         NEW d \in Spaces, NEW a \in Words, NEW b \in WordBits,
         (b \in mem[d][a]) # (b \in mem'[d][a])
  PROVE  \E c \in Sent : Touches(c, d, a, b)
<1>1. mem' # mem
  OBVIOUS
<1>2. CASE Serve
  BY <1>2, ServeTouches
<1>3. CASE ChannelDone
  <2>1. PICK ch \in Channels :
          /\ ~chan[ch].done
          /\ mem' = IF chan[ch].op = "write" THEN [mem EXCEPT ![ch][chan[ch].reg] = chan[ch].data]
                    ELSE mem
    BY <1>3 DEF ChannelDone
  <2>2. chan[ch].op = "write" /\ mem' = [mem EXCEPT ![ch][chan[ch].reg] = chan[ch].data]
    BY <1>1, <2>1
  <2>3. d = ch /\ a = chan[ch].reg
    BY <2>2 DEF TypeInv
  <2>4. PICK c \in Sent : c.rw = "write" /\ c.channel = ch /\ c.addr = chan[ch].reg
    BY <2>1, <2>2 DEF NamedInv, ChannelsNamed
  <2>5. c \in Commands /\ ch # "ocp"
    BY SentType DEF Channels, Phys
  <2>6. Space(c) = d /\ c.channel # "ocp"
    BY <2>3, <2>4, <2>5 DEF Space
  <2>7. a \in c.addr .. c.addr + Size(c) - 1
    <3>1. c.addr \in Nat /\ Size(c) \in {1, 2}
      BY <2>5, CommandFacts
    <3> QED BY <2>3, <2>4, <3>1
  <2> QED BY <2>4, <2>6, <2>7 DEF Touches
<1>4. CASE UNCHANGED mem
  BY <1>1, <1>4
<1> QED
  BY <1>2, <1>3, <1>4
     DEF Next, Firmware, Receive, NextCommand, Start, PollBusy, PollDone, GiveUp, ServeChannel,
         targetVars, vars

\* For any target, polling bound and batches without a stalled write to the
\* DMA MCU: a bit of the target changes only in a word of a write command of
\* the batch so far, or of an earlier one whose write was still pending when
\* the batch came, and in alive mode only in a byte that its mask touches.
THEOREM OnlyTouchedBytesChange == ASSUME Routed PROVE Spec => OnlyTouchedBytes
<1>1. TypeInv /\ IInv /\ NamedInv /\ [Next]_vars => NamedInv'
  BY NamedStep
<1>2. TypeInv /\ IInv /\ NamedInv /\ [Next]_vars =>
        [\A d \in Spaces, a \in Words, b \in WordBits :
           (b \in mem[d][a]) # (b \in mem'[d][a]) =>
             \E c \in earlier \cup {ptestio_cmd[n] : n \in 1..k} :
               LET bit == b + (a - c.addr) * 2 * ByteBits
               IN  /\ c.rw = "write" /\ Space(c) = d
                   /\ a \in c.addr .. c.addr + Size(c) - 1
                   /\ c.mode = "alive" /\ c.channel = "ocp" =>
                        \E m \in Mask(c) : m \div ByteBits = bit \div ByteBits]_vars
  BY ChangesTouched DEF Touches, Sent
<1> QED
  BY TypeInit, TypeStep, InitHolds, StepKeeps, NamedInit, <1>1, <1>2, PTL DEF Spec, OnlyTouchedBytes

-----------------------------------------------------------------------------
(* What a batch is meant to do.                                            *)

Memories == [Spaces -> [Words -> SUBSET WordBits]]

\* What a command leaves in the target.
Stored(c, m) == IF c.rw = "read" THEN m ELSE [m EXCEPT ![Space(c)] = Written(c, @)]

\* What a command leaves are words, in the words it names only.
LEMMA StoredType ==
  ASSUME NEW c \in Commands, NEW m \in Memories
  PROVE  /\ Stored(c, m) \in Memories
         /\ \A s \in Spaces, x \in Words :
              Stored(c, m)[s][x] = IF c.rw = "write" /\ s = Space(c) THEN Written(c, m[s])[x]
                                                                      ELSE m[s][x]
         /\ \A s \in Spaces, x \in Words :
              x \notin c.addr .. c.addr + Size(c) - 1 => Stored(c, m)[s][x] = m[s][x]
<1>1. Space(c) \in Spaces /\ c.rw \in Ops
  BY CommandFacts
<1>2. \A words : Written(c, words) \in [Words -> SUBSET WordBits]
  BY DEF Written
<1>3. Stored(c, m) \in Memories
  BY <1>1, <1>2 DEF Stored, Memories
<1>4. \A s \in Spaces, x \in Words :
        Stored(c, m)[s][x] = IF c.rw = "write" /\ s = Space(c) THEN Written(c, m[s])[x]
                                                                ELSE m[s][x]
  BY <1>1 DEF Stored, Memories, Ops
<1>5. ASSUME NEW s \in Spaces, NEW x \in Words, x \notin c.addr .. c.addr + Size(c) - 1
      PROVE  Written(c, m[s])[x] = m[s][x]
  <2>1. m[s][x] \subseteq WordBits
    BY DEF Memories
  <2> QED
    BY <1>5, <2>1 DEF Written
<1> QED
  BY <1>3, <1>4, <1>5

\* The memory after each command of a batch: that before, with what the command
\* leaves.
LEMMA AfterSteps ==
  ASSUME NEW cmds \in Seq(Commands), NEW m \in Memories
  PROVE  /\ After(cmds, m) \in [0..Len(cmds) -> Memories]
         /\ After(cmds, m)[0] = m
         /\ \A n \in 1..Len(cmds) : After(cmds, m)[n] = Stored(cmds[n], After(cmds, m)[n - 1])
<1>1. PICK L \in Nat : L = Len(cmds)
  OBVIOUS
<1> DEFINE Def(at) == [n \in 0..L |-> IF n = 0 THEN m ELSE Stored(cmds[n], at[n - 1])]
<1>2. After(cmds, m) = CHOOSE at : at = Def(at)
  BY <1>1 DEF After, Stored
<1>3. \A n \in 1..L : cmds[n] \in Commands
  BY <1>1
<1>4. PICK step : step = [n \in 1..L |-> [x \in Memories |-> Stored(cmds[n], x)]]
  OBVIOUS
<1>5. step \in [1..L -> [Memories -> Memories]]
  <2>1. \A n \in 1..L : \A x \in Memories : Stored(cmds[n], x) \in Memories
    BY <1>3, StoredType
  <2> QED
    BY <1>4, <2>1
<1>6. \E f : Iteration(f, L, Memories, m, step)
  BY <1>5, Iterates
<1>7. PICK f : Iteration(f, L, Memories, m, step)
  BY <1>6
<1>8. f \in [0..L -> Memories] /\ f[0] = m /\ \A n \in 1..L : f[n] = step[n][f[n - 1]]
  BY <1>7 DEF Iteration
<1>9. \A n \in 1..L : f[n] = Stored(cmds[n], f[n - 1])
  <2>1. \A n \in 1..L : f[n - 1] \in Memories
    BY <1>8
  <2> QED
    BY <1>4, <1>8, <2>1
<1>10. f = Def(f)
  BY <1>8, <1>9
<1>11. After(cmds, m) = Def(After(cmds, m))
  <2> HIDE DEF Def
  <2> QED
    BY <1>2, <1>10, Zenon
<1> DEFINE at == After(cmds, m)
<1>12. at = [n \in 0..L |-> IF n = 0 THEN m ELSE Stored(cmds[n], at[n - 1])]
  BY <1>11
<1> HIDE DEF at
<1>13. at[0] = m /\ \A n \in 1..L : at[n] = Stored(cmds[n], at[n - 1])
  BY <1>12
<1>14. at \in [0..L -> Memories]
  <2> DEFINE Bad == {n \in 0..L : at[n] \notin Memories}
  <2>1. Bad \in SUBSET Nat
    OBVIOUS
  <2>2. CASE Bad # {}
    <3>1. PICK n \in Bad : \A i \in Bad : n <= i
      <4> HIDE DEF Bad
      <4> QED
        BY <2>1, <2>2, LeastElement
    <3>2. n \in 0..L /\ at[n] \notin Memories /\ n # 0
      BY <1>13
    <3>3. n - 1 \in 0..L /\ n \in 1..L /\ ~(n <= n - 1)
      BY <3>2
    <3>4. at[n - 1] \in Memories
      BY <3>1, <3>3
    <3> QED
      BY <1>3, <1>13, <3>2, <3>3, <3>4, StoredType
  <2>3. CASE Bad = {}
    BY <1>12, <2>3
  <2> QED
    BY <2>2, <2>3
<1> QED
  BY <1>1, <1>13, <1>14 DEF at

\* The words a command answers.
Width(c) == IF c.rw = "read" THEN Size(c) ELSE 0

\* Where the words of each command are in the response.
LEMMA DataNumSteps ==
  ASSUME NEW cmds \in Seq(Commands)
  PROVE  /\ DataNum(cmds) \in [0..Len(cmds) -> Nat]
         /\ DataNum(cmds)[0] = 0
         /\ \A n \in 1..Len(cmds) : DataNum(cmds)[n] = DataNum(cmds)[n - 1] + Width(cmds[n])
<1>1. PICK L \in Nat : L = Len(cmds)
  OBVIOUS
<1> DEFINE Def(num) == [n \in 0..L |-> IF n = 0 THEN 0 ELSE num[n - 1] + Width(cmds[n])]
<1>2. DataNum(cmds) = CHOOSE num : num = Def(num)
  BY <1>1 DEF DataNum, Width
<1>3. \A n \in 1..L : Width(cmds[n]) \in Nat
  BY <1>1 DEF Width, Size
<1>4. PICK step : step = [n \in 1..L |-> [x \in Nat |-> x + Width(cmds[n])]]
  OBVIOUS
<1>5. step \in [1..L -> [Nat -> Nat]]
  BY <1>3, <1>4
<1>6. \E f : Iteration(f, L, Nat, 0, step)
  BY <1>5, Iterates
<1>7. PICK f : Iteration(f, L, Nat, 0, step)
  BY <1>6
<1>8. f \in [0..L -> Nat] /\ f[0] = 0 /\ \A n \in 1..L : f[n] = step[n][f[n - 1]]
  BY <1>7 DEF Iteration
<1>9. \A n \in 1..L : f[n] = f[n - 1] + Width(cmds[n])
  <2>1. \A n \in 1..L : f[n - 1] \in Nat
    BY <1>8
  <2> QED
    BY <1>4, <1>8, <2>1
<1>10. f = Def(f)
  BY <1>8, <1>9
<1>11. DataNum(cmds) = Def(DataNum(cmds))
  <2> HIDE DEF Def
  <2> QED
    BY <1>2, <1>10, Zenon
<1> DEFINE num == DataNum(cmds)
<1>12. num = [n \in 0..L |-> IF n = 0 THEN 0 ELSE num[n - 1] + Width(cmds[n])]
  BY <1>11
<1> HIDE DEF num
<1>13. num[0] = 0 /\ \A n \in 1..L : num[n] = num[n - 1] + Width(cmds[n])
  BY <1>12
<1>14. num \in [0..L -> Nat]
  <2> DEFINE Bad == {n \in 0..L : num[n] \notin Nat}
  <2>1. Bad \in SUBSET Nat
    OBVIOUS
  <2>2. CASE Bad # {}
    <3>1. PICK n \in Bad : \A i \in Bad : n <= i
      <4> HIDE DEF Bad
      <4> QED
        BY <2>1, <2>2, LeastElement
    <3>2. n \in 0..L /\ num[n] \notin Nat /\ n # 0
      BY <1>13
    <3>3. n - 1 \in 0..L /\ n \in 1..L /\ ~(n <= n - 1)
      BY <3>2
    <3>4. num[n - 1] \in Nat
      BY <3>1, <3>3
    <3> QED
      BY <1>3, <1>13, <3>2, <3>3, <3>4
  <2>3. CASE Bad = {}
    BY <1>12, <2>3
  <2> QED
    BY <2>2, <2>3
<1> QED
  BY <1>1, <1>13, <1>14 DEF num

\* The words of a command have a place of their own: in the response, and
\* behind those of the commands before.
LEMMA Places ==
  ASSUME NEW cmds \in Seq(Commands), Len(cmds) <= MaxSet,
         NEW n \in 1..Len(cmds)
  PROVE  /\ DataNum(cmds)[n - 1] \in Nat
         /\ DataNum(cmds)[n - 1] + Width(cmds[n]) <= 2 * MaxSet
         /\ \A i \in 1..n - 1 :
              DataNum(cmds)[i - 1] \in Nat /\ DataNum(cmds)[i - 1] + Width(cmds[i]) <= DataNum(cmds)[n - 1]
<1>1. PICK L \in Nat : L = Len(cmds)
  OBVIOUS
<1>2. PICK num : num = DataNum(cmds)
  OBVIOUS
<1>3. num \in [0..L -> Nat] /\ num[0] = 0 /\ \A i \in 1..L : num[i] = num[i - 1] + Width(cmds[i])
  BY <1>1, <1>2, DataNumSteps
<1>4. \A i \in 1..L : Width(cmds[i]) \in Nat /\ Width(cmds[i]) <= 2
  BY <1>1 DEF Width, Size
<1>5. \A i \in 1..L : num[i - 1] \in Nat /\ num[i - 1] <= num[i] /\ num[i] <= num[i - 1] + 2
  BY <1>3, <1>4
<1>6. \A a, b \in 0..L : a <= b => num[a] <= num[b]
  BY <1>3, <1>5, Rising
<1>7. n \in 1..L /\ n \in 0..L /\ n - 1 \in 0..L /\ num[n] \in Nat
  BY <1>1, <1>3
<1>8. num[n] <= 2 * n
  BY <1>3, <1>5, <1>7, Bounded
<1>9. 2 * n <= 2 * MaxSet /\ num[n] = num[n - 1] + Width(cmds[n])
  BY <1>1, <1>3, <1>7, TestIoAssumption
<1>10. ASSUME NEW i \in 1..n - 1 PROVE num[i - 1] + Width(cmds[i]) <= num[n - 1]
  <2>1. i \in 1..L /\ i \in 0..L /\ i <= n - 1
    BY <1>7
  <2> QED
    BY <1>3, <1>6, <1>7, <2>1
<1>11. MaxSet \in Nat /\ \A i \in 1..n - 1 : num[i - 1] \in Nat
  BY <1>3, <1>7, TestIoAssumption
<1>12. num[n - 1] \in Nat /\ num[n - 1] + Width(cmds[n]) <= 2 * MaxSet
  BY <1>3, <1>7, <1>8, <1>9, <1>11
<1> QED
  BY <1>2, <1>10, <1>11, <1>12

-----------------------------------------------------------------------------
(* Words, double words and masks.                                          *)

\* The first n words of a command, as one value.
Value(c, m, n) == UNION {AtHalf(m[Space(c)][c.addr + h], h) : h \in 0..n - 1}

\* Bits of a double word are bits of one of its words.
LEMMA BitOf ==
  ASSUME NEW b \in WordBits, NEW x \in WordBits, NEW h \in {0, 1}, NEW g \in {0, 1},
         b + h * 2 * ByteBits = x + g * 2 * ByteBits
  PROVE  b = x /\ h = g
<1>1. x \in 0..2 * ByteBits - 1 /\ b \in 0..2 * ByteBits - 1 /\ ByteBits \in Nat
  BY BitsFacts
<1>2. /\ h = 0 => b + h * 2 * ByteBits = b
      /\ h = 1 => b + h * 2 * ByteBits = b + 2 * ByteBits
      /\ g = 0 => x + g * 2 * ByteBits = x
      /\ g = 1 => x + g * 2 * ByteBits = x + 2 * ByteBits
  BY <1>1
<1> QED
  BY <1>1, <1>2

\* The words of a command are words of the target, and its bits are bits of them.
LEMMA WordsOf ==
  ASSUME NEW c \in Commands
  PROVE  /\ Size(c) \in {1, 2} /\ \A h \in 0..Size(c) - 1 : h \in {0, 1} /\ c.addr + h \in Words
         /\ \A b \in WordBits : \A h \in 0..Size(c) - 1 : b + h * 2 * ByteBits \in Bits(c.size)
<1>1. /\ c.size \in {"word", "dword"} /\ c.addr \in Words /\ c.addr \in Nat
      /\ c.size = "dword" => c.addr + 1 \in Words
  BY CommandFacts
<1>2. Size(c) = IF c.size = "dword" THEN 2 ELSE 1
  BY DEF Size
<1>3. \A h \in 0..Size(c) - 1 : h \in {0, 1} /\ c.addr + h \in Words
  BY <1>1, <1>2
<1>4. ASSUME NEW b \in WordBits, NEW h \in 0..Size(c) - 1
      PROVE  b + h * 2 * ByteBits \in Bits(c.size)
  <2>1. CASE h = 0
    BY <1>1, <2>1, BitsFacts
  <2>2. CASE h = 1
    <3>1. c.size = "dword"
      BY <1>1, <1>2, <2>2
    <3> QED
      BY <2>2, <3>1, BitsFacts
  <2> QED
    BY <1>3, <2>1, <2>2
<1> QED
  BY <1>2, <1>3, <1>4

\* The bits of the value of a command's words.
LEMMA ValueBits ==
  ASSUME NEW c \in Commands, NEW m \in Memories, NEW n \in 0..Size(c)
  PROVE  \A b \in WordBits : \A h \in {0, 1} :
           b + h * 2 * ByteBits \in Value(c, m, n) <=> h < n /\ b \in m[Space(c)][c.addr + h]
<1> SUFFICES ASSUME NEW b \in WordBits, NEW h \in {0, 1}
             PROVE  b + h * 2 * ByteBits \in Value(c, m, n) <=> h < n /\ b \in m[Space(c)][c.addr + h]
  OBVIOUS
<1> DEFINE w(g) == m[Space(c)][c.addr + g]
<1>1. Size(c) \in {1, 2} /\ Space(c) \in Spaces
  BY CommandFacts
<1>2. \A g \in 0..n - 1 : g \in {0, 1} /\ w(g) \subseteq WordBits
  BY <1>1, WordsOf DEF Memories
<1>3. b + h * 2 * ByteBits \in Value(c, m, n) <=>
        \E g \in 0..n - 1 : \E x \in w(g) : b + h * 2 * ByteBits = x + g * 2 * ByteBits
  BY DEF Value, AtHalf
<1> HIDE DEF w
<1>4. h < n => h \in 0..n - 1
  BY <1>1
<1>5. \A g \in 0..n - 1 : g < n
  BY <1>1
<1>6. \A g \in 0..n - 1 : \A x \in w(g) :
        b + h * 2 * ByteBits = x + g * 2 * ByteBits => b = x /\ h = g
  BY <1>2, BitOf
<1>7. b + h * 2 * ByteBits \in Value(c, m, n) <=> h < n /\ b \in w(h)
  BY <1>3, <1>4, <1>5, <1>6
<1> QED
  BY <1>7 DEF w

\* A word of the value of a command's words.
LEMMA ValueHalf ==
  ASSUME NEW c \in Commands, NEW m \in Memories, NEW h \in 0..Size(c) - 1
  PROVE  Half(Value(c, m, Size(c)), h) = m[Space(c)][c.addr + h]
<1>1. Size(c) \in {1, 2} /\ Space(c) \in Spaces /\ h \in {0, 1} /\ c.addr + h \in Words /\ h < Size(c)
  BY CommandFacts, WordsOf
<1>2. Size(c) \in 0..Size(c)
  BY <1>1
<1>3. \A b \in WordBits : b + h * 2 * ByteBits \in Value(c, m, Size(c)) <=> b \in m[Space(c)][c.addr + h]
  BY <1>1, <1>2, ValueBits
<1>4. m[Space(c)][c.addr + h] \subseteq WordBits
  BY <1>1 DEF Memories
<1> QED
  BY <1>3, <1>4 DEF Half

\* The value of one word more, and of the words of the same contents.
LEMMA ValueGrows ==
  ASSUME NEW c, NEW m, NEW n \in Nat
  PROVE  /\ Value(c, m, 0) = {}
         /\ Value(c, m, n + 1) = Value(c, m, n) \cup AtHalf(m[Space(c)][c.addr + n], n)
<1>1. 0..0 - 1 = {} /\ 0..n + 1 - 1 = (0..n - 1) \cup {n}
  OBVIOUS
<1>2. Value(c, m, 0) = {}
  BY <1>1 DEF Value
<1> DEFINE w(h) == AtHalf(m[Space(c)][c.addr + h], h)
<1>3. Value(c, m, n + 1) = UNION {w(h) : h \in (0..n - 1) \cup {n}}
  BY <1>1 DEF Value
<1>4. Value(c, m, n) = UNION {w(h) : h \in 0..n - 1}
  BY DEF Value
<1> HIDE DEF w
<1>5. UNION {w(h) : h \in (0..n - 1) \cup {n}} = (UNION {w(h) : h \in 0..n - 1}) \cup w(n)
  OBVIOUS
<1> QED
  BY <1>2, <1>3, <1>4, <1>5 DEF w

\* Words of the same contents have the same value.
LEMMA ValueSame ==
  ASSUME NEW c, NEW m1, NEW m2, NEW n \in Nat,
         \A h \in 0..n - 1 : m1[Space(c)][c.addr + h] = m2[Space(c)][c.addr + h]
  PROVE  Value(c, m1, n) = Value(c, m2, n)
<1> DEFINE w(m, h) == AtHalf(m[Space(c)][c.addr + h], h)
<1>1. \A h \in 0..n - 1 : w(m1, h) = w(m2, h)
  OBVIOUS
<1>2. \A m : Value(c, m, n) = UNION {w(m, h) : h \in 0..n - 1}
  BY DEF Value
<1> HIDE DEF w
<1>3. UNION {w(m1, h) : h \in 0..n - 1} = UNION {w(m2, h) : h \in 0..n - 1}
  BY <1>1
<1> QED
  BY <1>2, <1>3

\* What a write command sets holds what is meant to be written, in each word.
LEMMA SetHalf ==
  ASSUME NEW c \in Commands, NEW m \in Memories, NEW old, NEW h \in 0..Size(c) - 1,
         Partial(c) => old = Value(c, m, Size(c))
  PROVE  Half(SetVal(c, old), h) = Written(c, m[Space(c)])[c.addr + h]
<1>1. Size(c) \in {1, 2} /\ Space(c) \in Spaces /\ h \in {0, 1} /\ c.addr + h \in Words /\ h < Size(c)
      /\ c.addr \in Nat
  BY CommandFacts, WordsOf
<1>2. c.addr + h \in c.addr .. c.addr + Size(c) - 1 /\ (c.addr + h) - c.addr = h
  BY <1>1
<1> DEFINE bit(b) == b + h * 2 * ByteBits
<1>3. Written(c, m[Space(c)])[c.addr + h] =
        {b \in WordBits : IF bit(b) \in Mask(c) THEN bit(b) \in c.data ELSE b \in m[Space(c)][c.addr + h]}
  BY <1>1, <1>2 DEF Written
<1>4. ASSUME NEW b \in WordBits
      PROVE  bit(b) \in SetVal(c, old) <=>
               IF bit(b) \in Mask(c) THEN bit(b) \in c.data ELSE b \in m[Space(c)][c.addr + h]
  <2>1. CASE Partial(c)
    <3>1. bit(b) \in old <=> b \in m[Space(c)][c.addr + h]
      <4>1. Size(c) \in 0..Size(c)
        BY <1>1
      <4> QED
        BY <1>1, <2>1, <4>1, ValueBits
    <3> QED
      BY <2>1, <3>1 DEF SetVal
  <2>2. CASE ~Partial(c)
    <3>1. bit(b) \in Mask(c)
      BY <2>2, WordsOf DEF Partial
    <3> QED
      BY <2>2, <3>1 DEF SetVal
  <2> QED
    BY <2>1, <2>2
<1>5. Half(SetVal(c, old), h) = {b \in WordBits : bit(b) \in SetVal(c, old)}
  BY DEF Half
<1> HIDE DEF bit
<1> QED
  BY <1>3, <1>4, <1>5

\* The bits of the mask are in bytes that are enabled.
LEMMA MaskEnabled == ASSUME NEW c \in Commands PROVE Mask(c) \subseteq Enabled(c)
<1> SUFFICES ASSUME NEW b \in Mask(c) PROVE b \in Enabled(c)
  OBVIOUS
<1>1. c.lbit \in Nat /\ c.hbit \in Nat /\ c.hbit \in Bits(c.size) /\ ByteBits \in Nat \ {0}
      /\ c.size \in {"word", "dword"}
  BY CommandFacts, BitsFacts
<1>2. b \in Nat /\ c.lbit <= b /\ b <= c.hbit
  BY <1>1 DEF Mask
<1>3. b \in Bits(c.size)
  BY <1>1, <1>2, BitsFacts
<1>4. ASSUME NEW x \in Nat, NEW y \in Nat, x <= y PROVE x \div ByteBits <= y \div ByteBits
  BY <1>1, <1>4
<1>5. \A x \in Nat : x \div ByteBits \in Int
  BY <1>1
<1>6. b \div ByteBits \in (c.lbit \div ByteBits) .. (c.hbit \div ByteBits)
  BY <1>1, <1>2, <1>4, <1>5
<1> QED
  BY <1>3, <1>6 DEF Enabled

\* The enabled bytes of a command merged into what its words hold are what is
\* meant to be written.
LEMMA MergeWrites ==
  ASSUME NEW c \in Commands, NEW m \in Memories, NEW old, NEW h \in 0..Size(c) - 1,
         Partial(c) => old = Value(c, m, Size(c))
  PROVE  LET data == SetVal(c, old) \cap Bits(c.size)
             new  == (Value(c, m, Size(c)) \ Enabled(c)) \cup (data \cap Enabled(c))
         IN  Half(new, h) = Written(c, m[Space(c)])[c.addr + h]
<1> DEFINE data == SetVal(c, old) \cap Bits(c.size)
           new  == (Value(c, m, Size(c)) \ Enabled(c)) \cup (data \cap Enabled(c))
           bit(b) == b + h * 2 * ByteBits
<1>1. Size(c) \in {1, 2} /\ Space(c) \in Spaces /\ h \in {0, 1} /\ c.addr + h \in Words /\ h < Size(c)
      /\ c.addr \in Nat /\ Size(c) \in 0..Size(c)
  <2>1. Size(c) \in {1, 2}
    BY CommandFacts
  <2> QED
    BY <2>1, CommandFacts, WordsOf
<1>2. c.addr + h \in c.addr .. c.addr + Size(c) - 1 /\ (c.addr + h) - c.addr = h
  BY <1>1
<1>3. Written(c, m[Space(c)])[c.addr + h] =
        {b \in WordBits : IF bit(b) \in Mask(c) THEN bit(b) \in c.data ELSE b \in m[Space(c)][c.addr + h]}
  BY <1>1, <1>2 DEF Written
<1>4. Half(SetVal(c, old), h) = {b \in WordBits : bit(b) \in SetVal(c, old)}
      /\ Half(new, h) = {b \in WordBits : bit(b) \in new}
  BY DEF Half
<1>5. Half(SetVal(c, old), h) = Written(c, m[Space(c)])[c.addr + h]
  BY SetHalf
<1>6. ASSUME NEW b \in WordBits
      PROVE  bit(b) \in new <=> b \in Written(c, m[Space(c)])[c.addr + h]
  <2>1. bit(b) \in Bits(c.size)
    BY WordsOf
  <2>2. CASE bit(b) \in Enabled(c)
    <3>1. bit(b) \in new <=> bit(b) \in SetVal(c, old)
      BY <2>1, <2>2
    <3> HIDE DEF bit
    <3> QED
      BY <1>4, <1>5, <3>1
  <2>3. CASE bit(b) \notin Enabled(c)
    <3>1. bit(b) \notin Mask(c)
      BY <2>3, MaskEnabled
    <3>2. bit(b) \in Value(c, m, Size(c)) <=> b \in m[Space(c)][c.addr + h]
      BY <1>1, ValueBits
    <3>3. bit(b) \in new <=> bit(b) \in Value(c, m, Size(c))
      BY <2>3
    <3> HIDE DEF bit, new
    <3> QED
      BY <1>3, <3>1, <3>2, <3>3
  <2> QED
    BY <2>2, <2>3
<1>7. Written(c, m[Space(c)])[c.addr + h] \subseteq WordBits
  BY <1>3
<1> HIDE DEF new, bit
<1>8. Half(new, h) = Written(c, m[Space(c)])[c.addr + h]
  BY <1>4, <1>6, <1>7
<1> QED
  BY <1>8 DEF new

-----------------------------------------------------------------------------
(* The accesses of a command, one after the other.                         *)

Access(op, h, for) == [op |-> op, half |-> h, for |-> for]

\* How many accesses take all the words of a command of a unit.
Halves(c) == IF c.mode = "stall" THEN Size(c) ELSE 1

\* The access after a, if there is one.
Successor(c, a) ==
    IF a.for = "ocp"
      THEN IF a.half + 1 < Halves(c) THEN {Access(a.op, a.half + 1, "ocp")}
           ELSE IF a.op = "read" /\ c.rw = "write" THEN {Access("write", 0, "ocp")} ELSE {}
    ELSE IF a.for = "enable" THEN {Access("write", 0, "read")}
    ELSE IF a.op = "write" THEN {Access("read", 0, a.for)}
    ELSE IF a.for = "read" /\ c.rw = "write" THEN {Access("write", 0, "write")} ELSE {}

\* The first access of a command.
First(c) ==
    LET op == IF c.rw = "read" \/ Partial(c) THEN "read" ELSE "write"
    IN  IF c.channel = "ocp" THEN Access(op, 0, "ocp")
        ELSE IF c.channel = "efuse" /\ c.rw = "write" THEN Access("write", 0, "enable")
        ELSE Access("write", 0, op)

\* Each access of t is followed by the next, and the last by after.
Linked(c, t, after) ==
    \A n \in 1..Len(t) : /\ Successor(c, t[n]) = IF n = Len(t) THEN after ELSE {t[n + 1]}
                         /\ t[n].for = "write" => c.rw = "write"

Chain(c, t) == Linked(c, t, {})

\* What is left of a chain is one.
LEMMA ChainTail ==
  ASSUME NEW c, NEW S, NEW t \in Seq(S), t # <<>>, Chain(c, t)
  PROVE  /\ Chain(c, Tail(t))
         /\ Tail(t) = <<>> => Successor(c, Head(t)) = {}
         /\ Tail(t) # <<>> => Successor(c, Head(t)) = {Head(Tail(t))}
         /\ Head(t).for = "write" => c.rw = "write"
<1>1. PICK L \in Nat : L = Len(t)
  OBVIOUS
<1>2. PICK u : u = Tail(t)
  OBVIOUS
<1>3. L >= 1 /\ Head(t) = t[1] /\ u \in Seq(S) /\ Len(u) = L - 1 /\ \A n \in 1..L - 1 : u[n] = t[n + 1]
  BY <1>1, <1>2
<1>4. u = <<>> <=> L = 1
  <2>1. u = <<>> <=> Len(u) = 0
    BY <1>3, EmptySeq
  <2> QED
    BY <1>3, <2>1
<1>5. u # <<>> => Head(u) = t[2]
  <2>1. u # <<>> => Head(u) = u[1] /\ 1 \in 1..L - 1
    BY <1>3, <1>4
  <2> QED
    BY <1>3, <2>1
<1>6. \A n \in 1..L : /\ Successor(c, t[n]) = IF n = L THEN {} ELSE {t[n + 1]}
                      /\ t[n].for = "write" => c.rw = "write"
  BY <1>1 DEF Chain, Linked
<1>7. Chain(c, u)
  <2> SUFFICES ASSUME NEW n \in 1..L - 1
               PROVE  /\ Successor(c, u[n]) = IF n = L - 1 THEN {} ELSE {u[n + 1]}
                      /\ u[n].for = "write" => c.rw = "write"
    BY <1>3 DEF Chain, Linked
  <2>1. n + 1 \in 1..L /\ (n + 1 = L <=> n = L - 1) /\ u[n] = t[n + 1]
    BY <1>3
  <2>2. n # L - 1 => u[n + 1] = t[n + 1 + 1]
    <3>1. n # L - 1 => n + 1 \in 1..L - 1
      BY <1>3
    <3> QED
      BY <1>3, <3>1
  <2> QED
    BY <1>6, <2>1, <2>2
<1>8. Successor(c, t[1]) = (IF L = 1 THEN {} ELSE {t[2]}) /\ (t[1].for = "write" => c.rw = "write")
  <2>1. 1 \in 1..L /\ (1 = L <=> L = 1) /\ 1 + 1 = 2
    BY <1>3
  <2> QED
    BY <1>6, <2>1
<1> QED
  BY <1>2, <1>3, <1>4, <1>5, <1>7, <1>8

\* Accesses that follow accesses.
LEMMA LinkedJoin ==
  ASSUME NEW c, NEW S, NEW t \in Seq(S), NEW u \in Seq(S), NEW after, t # <<>>, u # <<>>,
         Linked(c, t, {Head(u)}), Linked(c, u, after)
  PROVE  /\ t \o u \in Seq(S) /\ t \o u # <<>> /\ Head(t \o u) = Head(t)
         /\ Linked(c, t \o u, after)
<1>1. PICK L \in Nat, M \in Nat : L = Len(t) /\ M = Len(u)
  OBVIOUS
<1>2. PICK v : v = t \o u
  OBVIOUS
<1>3. /\ v \in Seq(S) /\ Len(v) = L + M
      /\ \A n \in 1..L + M : v[n] = IF n <= L THEN t[n] ELSE u[n - L]
  BY <1>1, <1>2, ConcatProperties
<1>4. L >= 1 /\ M >= 1 /\ Head(t) = t[1] /\ Head(u) = u[1]
  BY <1>1, EmptySeq
<1>5. v # <<>> /\ Head(v) = t[1]
  <2>1. 1 \in 1..L + M /\ 1 <= L /\ Len(v) # 0
    BY <1>3, <1>4
  <2>2. v # <<>>
    BY <1>3, <2>1, EmptySeq
  <2>3. Head(v) = v[1]
    BY <1>3, <2>2
  <2> QED
    BY <1>3, <2>1, <2>2, <2>3
<1>6. Linked(c, v, after)
  <2> SUFFICES ASSUME NEW n \in 1..L + M
               PROVE  /\ Successor(c, v[n]) = IF n = L + M THEN after ELSE {v[n + 1]}
                      /\ v[n].for = "write" => c.rw = "write"
    BY <1>3 DEF Linked
  <2>1. CASE n < L
    <3>1. n \in 1..L /\ n + 1 \in 1..L + M /\ n # L /\ n # L + M /\ v[n] = t[n] /\ v[n + 1] = t[n + 1]
      BY <1>3, <1>4, <2>1
    <3> QED
      BY <1>1, <3>1 DEF Linked
  <2>2. CASE n = L
    <3>1. n \in 1..L /\ n + 1 \in 1..L + M /\ n # L + M /\ v[n] = t[n] /\ n + 1 - L = 1 /\ ~(n + 1 <= L)
      BY <1>3, <1>4, <2>2
    <3>2. v[n + 1] = Head(u)
      BY <1>3, <1>4, <3>1
    <3> QED
      BY <1>1, <2>2, <3>1, <3>2 DEF Linked
  <2>3. CASE n > L
    <3>1. /\ n - L \in 1..M /\ v[n] = u[n - L] /\ (n = L + M <=> n - L = M)
          /\ n # L + M => n + 1 \in 1..L + M /\ ~(n + 1 <= L) /\ n + 1 - L = n - L + 1
      BY <1>3, <1>4, <2>3
    <3>2. n # L + M => v[n + 1] = u[n - L + 1]
      BY <1>3, <3>1
    <3> QED
      BY <1>1, <3>1, <3>2 DEF Linked
  <2> QED
    BY <2>1, <2>2, <2>3
<1> QED
  BY <1>2, <1>3, <1>4, <1>5, <1>6

\* One access, and two.
LEMMA LinkedShort ==
  ASSUME NEW c, NEW S, NEW y \in S, NEW z \in S, NEW after,
         y.for = "write" => c.rw = "write", z.for = "write" => c.rw = "write",
         Successor(c, z) = after
  PROVE  /\ <<z>> \in Seq(S) /\ <<z>> # <<>> /\ Head(<<z>>) = z /\ Linked(c, <<z>>, after)
         /\ Successor(c, y) = {z} =>
              <<y, z>> \in Seq(S) /\ <<y, z>> # <<>> /\ Head(<<y, z>>) = y /\ Linked(c, <<y, z>>, after)
<1>1. <<z>> \in Seq(S) /\ <<z>> # <<>> /\ Head(<<z>>) = z /\ Linked(c, <<z>>, after)
  BY DEF Linked
<1>2. PICK t : t = <<y, z>>
  OBVIOUS
<1>3. t \in Seq(S) /\ t # <<>> /\ Head(t) = y /\ Len(t) = 2 /\ t[1] = y /\ t[2] = z
  BY <1>2
<1>4. 1..2 = {1, 2} /\ 1 + 1 = 2
  OBVIOUS
<1>5. Successor(c, y) = {z} => Linked(c, t, after)
  BY <1>3, <1>4 DEF Linked
<1> QED
  BY <1>1, <1>2, <1>3, <1>5

\* The accesses of a command are a chain, from the first one on.
LEMMA AccessesChain ==
  ASSUME NEW c \in Commands
  PROVE  Chain(c, Accesses(c)) /\ Head(Accesses(c)) = First(c)
<1> DEFINE each(op) == IF c.channel # "ocp" THEN <<Access("write", 0, op), Access("read", 0, op)>>
                       ELSE IF c.mode = "alive" THEN <<Access(op, 0, "ocp")>>
                       ELSE [i \in 1..Size(c) |-> Access(op, i - 1, "ocp")]
           enable == IF c.channel = "efuse" THEN <<Access("write", 0, "enable")>> ELSE <<>>
           first(op) == IF c.channel # "ocp" THEN Access("write", 0, op) ELSE Access(op, 0, "ocp")
           after(op) == IF op = "read" /\ c.rw = "write" THEN {first("write")} ELSE {}
<1>1. Accesses(c) = IF c.rw = "read" THEN each("read")
                    ELSE (enable \o (IF Partial(c) THEN each("read") ELSE <<>>)) \o each("write")
  BY DEF Accesses, Access
<1>2. c.rw \in {"read", "write"} /\ c.channel \in {"ocp"} \cup Channels /\ c.mode \in {"alive", "stall"}
      /\ Size(c) \in {1, 2} /\ (c.channel # "ocp" => c.mode = "alive")
      /\ (c.channel = "efuse" => Partial(c))
  BY CommandFacts DEF Ops, Modes, Partial
<1>3. \A op \in Ops, h \in {0, 1}, for \in {"ocp", "enable"} \cup Ops : Access(op, h, for) \in AccessType
  BY DEF Access, AccessType
<1>4. ASSUME NEW op \in Ops, op = "write" => c.rw = "write"
      PROVE  /\ each(op) \in Seq(AccessType) /\ each(op) # <<>> /\ Head(each(op)) = first(op)
             /\ Linked(c, each(op), after(op))
  <2>1. CASE c.channel # "ocp"
    <3>1. PICK y, z : y = Access("write", 0, op) /\ z = Access("read", 0, op)
      OBVIOUS
    <3>2. y \in AccessType /\ z \in AccessType
      BY <1>3, <3>1 DEF Ops
    <3>3. /\ Successor(c, y) = {z} /\ Successor(c, z) = after(op)
          /\ y.for = op /\ z.for = op
      BY <2>1, <3>1, <1>4 DEF Successor, Access, Ops
    <3>4. each(op) = <<y, z>> /\ first(op) = y
      BY <2>1, <3>1
    <3> HIDE DEF each, first, after
    <3>5. /\ <<y, z>> \in Seq(AccessType) /\ <<y, z>> # <<>> /\ Head(<<y, z>>) = y
          /\ Linked(c, <<y, z>>, Successor(c, z))
      BY <1>4, <3>2, <3>3, LinkedShort
    <3> QED
      BY <3>3, <3>4, <3>5
  <2>2. CASE c.channel = "ocp" /\ Halves(c) = 1
    <3>1. PICK z : z = Access(op, 0, "ocp")
      OBVIOUS
    <3>2. z \in AccessType
      BY <1>3, <3>1
    <3>3. Successor(c, z) = after(op) /\ z.for = "ocp"
      BY <2>2, <3>1 DEF Successor, Access
    <3>4. each(op) = <<z>> /\ first(op) = z
      <4>1. [i \in 1..1 |-> Access(op, i - 1, "ocp")] = <<Access(op, 0, "ocp")>>
        OBVIOUS
      <4> QED
        BY <1>2, <2>2, <3>1, <4>1 DEF Halves
    <3> HIDE DEF each, first, after
    <3>5. /\ <<z>> \in Seq(AccessType) /\ <<z>> # <<>> /\ Head(<<z>>) = z
          /\ Linked(c, <<z>>, Successor(c, z))
      BY <3>2, <3>3, LinkedShort
    <3> QED
      BY <3>3, <3>4, <3>5
  <2>3. CASE c.channel = "ocp" /\ Halves(c) # 1
    <3>0. c.mode = "stall" /\ Size(c) = 2 /\ Halves(c) = 2
      BY <1>2, <2>3 DEF Halves
    <3>1. PICK y, z : y = Access(op, 0, "ocp") /\ z = Access(op, 1, "ocp")
      OBVIOUS
    <3>2. y \in AccessType /\ z \in AccessType
      BY <1>3, <3>1
    <3>3. /\ Successor(c, y) = {z} /\ Successor(c, z) = after(op)
          /\ y.for = "ocp" /\ z.for = "ocp"
      BY <2>3, <3>0, <3>1 DEF Successor, Access
    <3>4. each(op) = <<y, z>> /\ first(op) = y
      <4>1. [i \in 1..2 |-> Access(op, i - 1, "ocp")] = <<Access(op, 0, "ocp"), Access(op, 1, "ocp")>>
        OBVIOUS
      <4> QED
        BY <2>3, <3>0, <3>1, <4>1
    <3> HIDE DEF each, first, after
    <3>5. /\ <<y, z>> \in Seq(AccessType) /\ <<y, z>> # <<>> /\ Head(<<y, z>>) = y
          /\ Linked(c, <<y, z>>, Successor(c, z))
      BY <3>2, <3>3, LinkedShort
    <3> QED
      BY <3>3, <3>4, <3>5
  <2> QED
    BY <2>1, <2>2, <2>3
<1>5. c.channel = "efuse" =>
        /\ enable \in Seq(AccessType) /\ enable # <<>> /\ Head(enable) = Access("write", 0, "enable")
        /\ Linked(c, enable, {first("read")})
  <2> SUFFICES ASSUME c.channel = "efuse" 
               PROVE  /\ enable \in Seq(AccessType) /\ enable # <<>> /\ Head(enable) = Access("write", 0, "enable")
                      /\ Linked(c, enable, {first("read")})
    OBVIOUS
  <2>1. PICK z : z = Access("write", 0, "enable")
    OBVIOUS
  <2>2. z \in AccessType
    BY <1>3, <2>1 DEF Ops
  <2>3. Successor(c, z) = {first("read")} /\ z.for = "enable"
    BY <2>1 DEF Successor, Access
  <2>4. enable = <<z>>
    BY <2>1
  <2> HIDE DEF enable, first
  <2> QED
    BY <2>1, <2>2, <2>3, <2>4, LinkedShort
<1>6. c.channel # "efuse" => enable = <<>>
  OBVIOUS
<1>7. First(c) = IF c.channel = "efuse" /\ c.rw = "write" THEN Access("write", 0, "enable")
                 ELSE IF c.rw = "read" \/ Partial(c) THEN first("read") ELSE first("write")
  BY <1>2 DEF First
<1>8. after("write") = {} /\ (c.rw = "write" => after("read") = {first("write")})
      /\ (c.rw = "read" => after("read") = {})
  OBVIOUS
<1> HIDE DEF each, enable, first, after
<1>9. CASE c.rw = "read"
  BY <1>1, <1>4, <1>7, <1>8, <1>9 DEF Chain, Ops
<1>10. CASE c.rw = "write"
  <2>1. /\ each("read") \in Seq(AccessType) /\ each("read") # <<>> /\ Head(each("read")) = first("read")
        /\ Linked(c, each("read"), {Head(each("write"))})
        /\ each("write") \in Seq(AccessType) /\ each("write") # <<>> /\ Head(each("write")) = first("write")
        /\ Linked(c, each("write"), {})
    BY <1>4, <1>8, <1>10 DEF Ops
  <2>2. <<>> \o each("read") = each("read") /\ <<>> \o each("write") = each("write")
        /\ <<>> \o <<>> = <<>>
    BY <2>1, ConcatEmptySeq
  <2>3. CASE ~Partial(c)
    BY <1>1, <1>2, <1>6, <1>7, <1>10, <2>1, <2>2, <2>3 DEF Chain
  <2>4. CASE Partial(c) /\ c.channel # "efuse"
    <3>1. Accesses(c) = each("read") \o each("write")
      BY <1>1, <1>6, <1>10, <2>2, <2>4
    <3> QED
      BY <1>7, <1>10, <2>1, <2>4, <3>1, LinkedJoin DEF Chain
  <2>5. CASE Partial(c) /\ c.channel = "efuse"
    <3>1. Accesses(c) = (enable \o each("read")) \o each("write")
      BY <1>1, <1>10, <2>5
    <3>2. /\ enable \o each("read") \in Seq(AccessType) /\ enable \o each("read") # <<>>
          /\ Head(enable \o each("read")) = Head(enable)
          /\ Linked(c, enable \o each("read"), {Head(each("write"))})
      BY <1>5, <2>1, <2>5, LinkedJoin
    <3> DEFINE t == enable \o each("read")
    <3> HIDE DEF t
    <3>3. /\ t \in Seq(AccessType) /\ t # <<>> /\ Head(t) = Access("write", 0, "enable")
          /\ Linked(c, t, {Head(each("write"))}) /\ Accesses(c) = t \o each("write")
      BY <1>5, <2>5, <3>1, <3>2 DEF t
    <3>4. Linked(c, t \o each("write"), {}) /\ Head(t \o each("write")) = Head(t)
      BY <2>1, <3>3, LinkedJoin
    <3> QED
      BY <1>7, <1>10, <2>5, <3>3, <3>4 DEF Chain
  <2> QED
    BY <2>3, <2>4, <2>5
<1> QED
  BY <1>2, <1>9, <1>10

-----------------------------------------------------------------------------
(* The access being made, and what is left of those given up.              *)

Busy    == pc \in {"start", "poll"}
Current == Head(todo)

\* What is left of a command's accesses is a chain.
ChainInv == Busy => Chain(cmd, todo)

\* The command in progress, and the access being made for it.
LEMMA AtCommand ==
  ASSUME TypeInv, ChainInv, Busy
  PROVE  /\ cmd \in Commands /\ k \in 1..Len(ptestio_cmd) /\ cmd = ptestio_cmd[k] /\ cmd \in Sent
         /\ Current \in AccessType /\ Fits(Current, cmd)
         /\ Current.for = "write" => cmd.rw = "write"
         /\ Current.half \in 0..Halves(cmd) - 1
<1>1. k \in 1..Len(ptestio_cmd) /\ k \in 1..k /\ todo # <<>> /\ todo \in Seq(AccessType)
  <2>1. k \in 0..Len(ptestio_cmd) /\ k > 0 /\ Len(ptestio_cmd) \in Nat
    BY DEF Busy, TypeInv, LoopOK
  <2> QED
    BY <2>1 DEF Busy, TypeInv, LoopOK
<1>2. cmd \in Commands /\ Current \in AccessType /\ Fits(Current, cmd)
  BY CmdType DEF Busy, Current
<1>3. Current.for = "write" => cmd.rw = "write"
  BY <1>1, ChainTail DEF ChainInv, Current
<1>4. Current.half \in 0..Halves(cmd) - 1
  <2>1. Current.half \in {0, 1} /\ Size(cmd) \in {1, 2}
        /\ (Current.half = 1 => cmd.mode = "stall" /\ Size(cmd) = 2)
    BY <1>2, CommandFacts DEF AccessType, Fits, Size
  <2> QED
    BY <2>1 DEF Halves
<1> QED
  BY <1>1, <1>2, <1>3, <1>4 DEF cmd, Sent

\* An access that ends is the last one, or the next one comes, unless it found
\* its channel busy.
LEMMA AfterReturn ==
  ASSUME TypeInv, ChainInv, pc = "poll", NEW value, NEW upper, Return(value, upper)
  PROVE  /\ polls' = 0
         /\ \/ /\ cmd.channel # "ocp" /\ Current.op = "read" /\ ~Polled(value)
               /\ pc' = "start" /\ UNCHANGED <<todo, RetVal, answer>>
            \/ /\ cmd.channel # "ocp" /\ Current.op = "read" => Polled(value)
               /\ Chain(cmd, todo')
               /\ \/ pc' = "next" /\ todo' = <<>> /\ Successor(cmd, Current) = {}
                  \/ pc' = "start" /\ todo' # <<>> /\ Successor(cmd, Current) = {Current'}
<1>1. /\ todo # <<>> /\ todo \in Seq(AccessType) /\ Chain(cmd, todo)
  BY DEF TypeInv, LoopOK, ChainInv, Busy
<1>2. /\ Chain(cmd, Tail(todo))
      /\ Tail(todo) = <<>> => Successor(cmd, Current) = {}
      /\ Tail(todo) # <<>> => Successor(cmd, Current) = {Head(Tail(todo))}
  BY <1>1, ChainTail DEF Current
<1>3. CASE cmd.channel = "ocp"
  <2>1. todo' = Tail(todo) /\ pc' = (IF Tail(todo) = <<>> THEN "next" ELSE "start") /\ polls' = 0
    BY <1>3 DEF Return, ReturnOCP
  <2> QED
    BY <1>2, <1>3, <2>1 DEF Current
<1>4. CASE cmd.channel # "ocp" /\ Current.op = "read" /\ ~Polled(value)
  BY <1>1, <1>4 DEF Return, ReturnChannel, Current
<1>5. CASE cmd.channel # "ocp" /\ ~(Current.op = "read" /\ ~Polled(value))
  <2>1. todo' = Tail(todo) /\ pc' = (IF Tail(todo) = <<>> THEN "next" ELSE "start") /\ polls' = 0
    BY <1>5 DEF Return, ReturnChannel, Current
  <2> QED
    BY <1>2, <1>5, <2>1 DEF Current
<1> QED
  BY <1>3, <1>4, <1>5

\* Every step keeps the chain.
LEMMA ChainStep == TypeInv /\ ChainInv /\ [Next]_vars => ChainInv'
<1> SUFFICES ASSUME TypeInv, ChainInv, [Next]_vars PROVE ChainInv'
  OBVIOUS
<1>1. CASE Receive
  BY <1>1 DEF Receive, ChainInv, Busy
<1>2. CASE NextCommand
  <2>1. CASE k < Len(ptestio_cmd)
    <3>1. k' = k + 1 /\ todo' = Accesses(ptestio_cmd[k + 1]) /\ ptestio_cmd' = ptestio_cmd
      BY <1>2, <2>1 DEF NextCommand
    <3>2. cmd' = ptestio_cmd[k + 1] /\ cmd' \in Commands
      BY <2>1, <3>1, KType DEF cmd, TypeInv
    <3> QED
      BY <3>1, <3>2, AccessesChain DEF ChainInv
  <2>2. CASE ~(k < Len(ptestio_cmd))
    BY <1>2, <2>2 DEF NextCommand, ChainInv, Busy
  <2> QED
    BY <2>1, <2>2
<1>3. CASE PollDone \/ GiveUp
  <2>1. pc = "poll" /\ UNCHANGED <<ptestio_cmd, k>> /\ \E value, upper : Return(value, upper)
    BY <1>3 DEF PollDone, GiveUp
  <2>2. cmd' = cmd /\ Busy
    BY <2>1 DEF cmd, Busy
  <2> QED
    BY <2>1, <2>2, AfterReturn DEF ChainInv
<1>4. CASE UNCHANGED <<ptestio_cmd, k, todo>> /\ (Busy' => Busy)
  BY <1>4 DEF ChainInv, cmd
<1>5. CASE Start \/ PollBusy
  BY <1>4, <1>5 DEF Start, PollBusy, Busy
<1>6. CASE Serve \/ ServeChannel \/ ChannelDone \/ UNCHANGED vars
  BY <1>4, <1>6 DEF Serve, ServeChannel, ChannelDone, vars, fwVars, Busy
<1> QED
  BY <1>1, <1>2, <1>3, <1>5, <1>6 DEF Next, Firmware

\* What the stalled unit or a channel has been started for, and what the alive
\* one is to start, is of a command sent, reads included.
StalledLeft ==
    job["stall"] # {} => \E c \in Sent : c.channel = "ocp" /\ (k > 0 /\ pc # "start" => c = cmd)
AliveLeft ==
    \A j \in job["alive"] : j.for # "ocp" => j.dev = cmd.channel /\ j.addr = cmd.addr
ChannelsLeft ==
    \A ch \in Channels : ~chan[ch].done => \E c \in Sent : c.channel = ch /\ c.addr = chan[ch].reg

LeftInv == StalledLeft /\ AliveLeft /\ ChannelsLeft

\* A batch that arrives while nothing is late finds no access pending.
LEMMA NoneLeft ==
  ASSUME TypeInv, IInv, LeftInv, Receive, ~late'
  PROVE  /\ \A m \in Modes : job[m] = {}
         /\ \A ch \in Channels : chan[ch].done
<1>1. /\ pc = "idle"
      /\ \A c \in Sent : ~ IF c.channel = "ocp" THEN job["stall"] # {} /\ (k = 0 \/ c = cmd)
                           ELSE ~chan[c.channel].done /\ chan[c.channel].reg = c.addr
  BY DEF Receive, Sent
<1>2. job["stall"] = {}
  <2> SUFFICES ASSUME job["stall"] # {} PROVE FALSE
    OBVIOUS
  <2>1. PICK c \in Sent : c.channel = "ocp" /\ (k > 0 => c = cmd)
    BY <1>1 DEF LeftInv, StalledLeft
  <2> QED
    BY <1>1, <2>1, KType
<1>3. job["alive"] = {}
  BY <1>1 DEF IInv, NoOverlap
<1>4. ASSUME NEW ch \in Channels, ~chan[ch].done PROVE FALSE
  <2>1. PICK c \in Sent : c.channel = ch /\ c.addr = chan[ch].reg
    BY <1>4 DEF LeftInv, ChannelsLeft
  <2>2. ch # "ocp"
    BY DEF Channels, Phys
  <2> QED
    BY <1>1, <1>4, <2>1, <2>2
<1> QED
  BY <1>2, <1>3, <1>4 DEF Modes

\* Every step keeps it.
LEMMA LeftStep ==
  ASSUME TypeInv, IInv, ChainInv, LeftInv, [Next]_vars
  PROVE  LeftInv'
<1>0. job \in [Modes -> SUBSET JobType] /\ k \in Nat
      /\ \A ch \in Channels : chan[ch].done \in BOOLEAN
  BY KType DEF TypeInv
<1>1. CASE Receive
  <2>1. /\ pc = "idle" /\ pc' = "next" /\ k' = 0 /\ UNCHANGED <<chan, job>>
        /\ earlier' = {c \in Sent : IF c.channel = "ocp"
                                      THEN job["stall"] # {} /\ (k = 0 \/ c = cmd)
                                      ELSE ~chan[c.channel].done /\ chan[c.channel].reg = c.addr}
    BY <1>1 DEF Receive, targetVars, Sent
  <2>2. job["alive"] = {} /\ earlier' \subseteq Sent'
    BY <2>1 DEF IInv, NoOverlap, Sent
  <2>3. StalledLeft'
    <3> SUFFICES ASSUME job["stall"] # {} PROVE \E c \in Sent' : c.channel = "ocp"
      BY <2>1 DEF StalledLeft
    <3>1. PICK c \in Sent : c.channel = "ocp" /\ (k > 0 => c = cmd)
      BY <2>1 DEF LeftInv, StalledLeft
    <3>2. c \in earlier'
      BY <1>0, <2>1, <3>1
    <3> QED
      BY <2>2, <3>1, <3>2
  <2>4. ChannelsLeft'
    <3> SUFFICES ASSUME NEW ch \in Channels, ~chan[ch].done
                 PROVE  \E c \in Sent' : c.channel = ch /\ c.addr = chan[ch].reg
      BY <2>1 DEF ChannelsLeft
    <3>1. PICK c \in Sent : c.channel = ch /\ c.addr = chan[ch].reg
      BY DEF LeftInv, ChannelsLeft
    <3>2. ch # "ocp"
      BY DEF Channels, Phys
    <3> QED
      BY <2>1, <2>2, <3>1, <3>2
  <2> QED
    BY <2>1, <2>2, <2>3, <2>4 DEF LeftInv, AliveLeft
<1>2. CASE NextCommand
  <2>1. /\ pc = "next" /\ UNCHANGED <<ptestio_cmd, chan, job, earlier>>
        /\ \/ k' = k + 1 /\ pc' = "start"
           \/ k' = k /\ pc' = "idle"
    BY <1>2 DEF NextCommand, targetVars, history
  <2>2. Sent \subseteq Sent' /\ job["alive"] = {}
    <3>1. 1..k \subseteq 1..k'
      BY <1>0, <2>1
    <3>2. job["alive"] = {}
      BY <2>1 DEF IInv, NoOverlap
    <3> QED
      BY <2>1, <3>1, <3>2 DEF Sent
  <2>3. StalledLeft'
    BY <2>1, <2>2 DEF LeftInv, StalledLeft, cmd
  <2> QED
    BY <2>1, <2>2, <2>3 DEF LeftInv, AliveLeft, ChannelsLeft
<1>3. CASE Start
  <2>1. /\ pc = "start" /\ pc' = "poll" /\ UNCHANGED <<ptestio_cmd, k, chan, earlier>>
    BY <1>3 DEF Start, history
  <2>2. Busy /\ cmd' = cmd /\ Sent' = Sent
    BY <2>1 DEF Busy, cmd, Sent
  <2>3. /\ cmd \in Commands /\ cmd \in Sent /\ Current \in AccessType /\ Fits(Current, cmd)
        /\ cmd.mode \in Modes /\ (cmd.channel # "ocp" => cmd.mode = "alive") /\ cmd.addr \in Nat
    BY <2>2, AtCommand, CommandFacts
  <2>4. PICK j : /\ job' = [job EXCEPT !["stall"] = {}, ![cmd.mode] = {j}]
                 /\ j.for = Current.for /\ j.addr = cmd.addr + Current.half
                 /\ j.for # "ocp" => j.dev = Space(cmd)
    <3> DEFINE stall == cmd.mode = "stall"
               started == [op |-> Current.op, for |-> Current.for,
                           dev |-> IF Current.for = "ocp" THEN Selected(Current) ELSE Space(cmd),
                           addr |-> cmd.addr + Current.half,
                           words |-> IF stall THEN 1 ELSE Size(cmd),
                           enabled |-> IF stall THEN WordBits ELSE Enabled(cmd)]
    <3>1. job' = [job EXCEPT !["stall"] = {}, ![cmd.mode] = {started}]
      BY <1>3 DEF Start, Current
    <3>2. /\ started.for = Current.for /\ started.addr = cmd.addr + Current.half
          /\ started.for # "ocp" => started.dev = Space(cmd)
      OBVIOUS
    <3> HIDE DEF started
    <3> QED
      BY <3>1, <3>2
  <2>5. StalledLeft'
    <3>1. job'["stall"] # {} => cmd.mode = "stall"
      BY <1>0, <2>3, <2>4 DEF Modes
    <3> QED
      BY <2>2, <2>3, <3>1 DEF StalledLeft
  <2>6. AliveLeft'
    <3> SUFFICES ASSUME NEW i \in job'["alive"], i.for # "ocp"
                 PROVE  i.dev = cmd.channel /\ i.addr = cmd.addr
      BY <2>2 DEF AliveLeft
    <3>1. CASE cmd.mode = "alive"
      <4>1. i = j
        BY <1>0, <2>4, <3>1 DEF Modes
      <4>2. cmd.channel # "ocp" /\ Current.half = 0
        BY <2>3, <2>4, <3>1, <4>1 DEF Fits, AccessType
      <4> QED
        BY <2>3, <2>4, <4>1, <4>2 DEF Space
    <3>2. CASE cmd.mode # "alive"
      <4>1. i \in job["alive"]
        BY <1>0, <2>3, <2>4, <3>2 DEF Modes
      <4> QED
        BY <4>1 DEF LeftInv, AliveLeft
    <3> QED
      BY <3>1, <3>2
  <2> QED
    BY <2>1, <2>2, <2>5, <2>6 DEF LeftInv, ChannelsLeft
<1>4. CASE ServeChannel
  <2>1. PICK j \in job["alive"] :
          /\ j.for # "ocp"
          /\ chan' = IF j.op = "write" /\ j.for # "enable"
                     THEN [chan EXCEPT ![j.dev] = [op |-> j.for, done |-> FALSE, reg |-> j.addr,
                                                   data |-> result["alive"]]]
                     ELSE chan
          /\ job' = [job EXCEPT !["alive"] = {}]
          /\ UNCHANGED <<ptestio_cmd, k, pc, earlier>>
    BY <1>4 DEF ServeChannel, fwVars, history
  <2>2. cmd' = cmd /\ Sent' = Sent /\ job'["alive"] = {} /\ job'["stall"] = job["stall"]
    BY <1>0, <2>1 DEF cmd, Sent, Modes
  <2>3. cmd \in Sent /\ j.dev = cmd.channel /\ j.addr = cmd.addr
    <3>1. Busy
      BY <2>1 DEF IInv, NoOverlap, Busy
    <3> QED
      BY <2>1, <3>1, AtCommand DEF LeftInv, AliveLeft
  <2>4. ChannelsLeft'
    <3> SUFFICES ASSUME NEW ch \in Channels, ~chan'[ch].done
                 PROVE  \E c \in Sent : c.channel = ch /\ c.addr = chan'[ch].reg
      BY <2>2 DEF ChannelsLeft
    <3>1. CASE chan'[ch] = chan[ch]
      BY <3>1 DEF LeftInv, ChannelsLeft
    <3>2. CASE chan'[ch] # chan[ch]
      <4>1. ch = j.dev /\ chan'[ch].reg = j.addr
        BY <2>1, <3>2 DEF TypeInv
      <4> QED
        BY <2>3, <4>1
    <3> QED
      BY <3>1, <3>2
  <2> QED
    BY <2>1, <2>2, <2>4 DEF LeftInv, StalledLeft, AliveLeft
<1>5. CASE ChannelDone \/ Serve \/ PollBusy \/ PollDone \/ GiveUp \/ UNCHANGED vars
  <2>1. /\ UNCHANGED <<ptestio_cmd, k, earlier>>
        /\ job'["stall"] \subseteq job["stall"] /\ job'["alive"] \subseteq job["alive"]
        /\ \A ch \in Channels : ~chan'[ch].done => chan'[ch] = chan[ch]
        /\ pc' = pc \/ pc = "poll"
    <3>1. CASE ChannelDone
      <4>1. PICK c \in Channels :
              chan' = [chan EXCEPT ![c].done = TRUE,
                                   ![c].data = IF chan[c].op = "read" THEN mem[c][chan[c].reg] ELSE @]
        BY <3>1 DEF ChannelDone
      <4>2. \A ch \in Channels : ~chan'[ch].done => chan'[ch] = chan[ch]
        BY <4>1 DEF TypeInv
      <4> QED
        BY <3>1, <4>2 DEF ChannelDone, fwVars, history
    <3>2. CASE Serve
      <4>1. PICK m \in Modes : job' = [job EXCEPT ![m] = {}]
        BY <3>2 DEF Serve
      <4>2. UNCHANGED <<ptestio_cmd, k, earlier, pc, chan>>
        BY <3>2 DEF Serve, fwVars, history
      <4> QED
        BY <1>0, <4>1, <4>2 DEF Modes
    <3>3. CASE PollBusy
      BY <3>3 DEF PollBusy, targetVars, history
    <3>4. CASE PollDone
      BY <3>4 DEF PollDone, targetVars, history
    <3>5. CASE GiveUp
      BY <1>0, <3>5 DEF GiveUp, Modes
    <3>6. CASE UNCHANGED vars
      BY <3>6 DEF vars, fwVars, targetVars, history
    <3> QED
      BY <1>5, <3>1, <3>2, <3>3, <3>4, <3>5, <3>6
  <2>2. cmd' = cmd /\ Sent' = Sent
    BY <2>1 DEF cmd, Sent
  <2> QED
    BY <2>1, <2>2 DEF LeftInv, StalledLeft, AliveLeft, ChannelsLeft
<1> QED
  BY <1>1, <1>2, <1>3, <1>4, <1>5 DEF Next, Firmware

-----------------------------------------------------------------------------
(* What the target has been started for.                                   *)

\* What the start of an access asks a unit for, if its MCU is the one named.
JobOf(c, a) == [op |-> a.op, for |-> a.for, dev |-> Space(c), addr |-> c.addr + a.half,
                words |-> IF c.mode = "stall" THEN 1 ELSE Size(c),
                enabled |-> IF c.mode = "stall" THEN WordBits ELSE Enabled(c)]

\* The access has been started and its unit has served it.
Served == pc = "poll" /\ job[cmd.mode] = {}

\* A channel has been started for the command in progress.
Started(ch) == /\ Busy /\ cmd.channel = ch
               /\ Current.for \in Ops /\ (Current.op = "read" \/ Served)

\* While nothing is late the target works for the access being made only, and
\* the channel it polls.
OnTimeInv ==
    ~late =>
      /\ pc # "poll" => \A m \in Modes : job[m] = {}
      /\ pc = "poll" => \A m \in Modes : job[m] \subseteq IF m = cmd.mode THEN {JobOf(cmd, Current)} ELSE {}
      /\ \A ch \in Channels : ~chan[ch].done => Started(ch)
      /\ \A ch \in Channels : Started(ch) => chan[ch].op = Current.for /\ chan[ch].reg = cmd.addr

\* What a served read has left in the data register: the words, or whether the
\* channel is done and what it has read.
ReadInv ==
    ~late /\ Served /\ Current.op = "read" =>
      IF Current.for = "ocp"
        THEN result[cmd.mode] = IF cmd.mode = "stall" THEN mem[Space(cmd)][cmd.addr + Current.half]
                                ELSE Value(cmd, mem, Size(cmd))
        ELSE Polled(result["alive"]) =>
               /\ chan[cmd.channel].done
               /\ Current.for = "read" => Half(result["alive"], 0) = mem[cmd.channel][cmd.addr]

\* A write that is pending finds its data in the data register.
DataInv ==
    ~late /\ pc = "poll" /\ job[cmd.mode] # {} /\ Current.op = "write" =>
      LET value == SetVal(cmd, RetVal)
      IN  result[cmd.mode] = IF cmd.mode = "stall" THEN Half(value, Current.half)
                             ELSE IF Current.for \in {"read", "enable"} THEN {}
                             ELSE value \cap Bits(cmd.size)

\* The word a channel has read, or is to store.
ChanInv ==
    ~late /\ Started(cmd.channel) /\ cmd.channel # "ocp" =>
      LET q == chan[cmd.channel]
      IN  IF Current.for = "read" THEN q.done => q.data = mem[cmd.channel][cmd.addr]
          ELSE ~q.done => q.data = SetVal(cmd, RetVal) \cap Bits(cmd.size)

\* Nothing of the access in progress changes but what the target does for it.
SameAccess == UNCHANGED <<ptestio_cmd, k, todo, RetVal, pc, answer, before, earlier, late>>

\* A unit that serves an access while nothing is late serves the one being made.
LEMMA ServeCurrent ==
  ASSUME TypeInv, ChainInv, OnTimeInv, ~late, Serve
  PROVE  /\ pc = "poll" /\ Current.for = "ocp" /\ cmd.channel = "ocp" /\ job[cmd.mode] # {}
         /\ job' = [job EXCEPT ![cmd.mode] = {}] /\ UNCHANGED chan /\ SameAccess
         /\ LET j   == JobOf(cmd, Current)
                w   == mem[j.dev]
                old == UNION {AtHalf(w[j.addr + h], h) : h \in 0..j.words - 1}
                new == (old \ j.enabled) \cup (result[cmd.mode] \cap j.enabled)
            IN  IF Current.op = "read"
                  THEN /\ result' = [result EXCEPT ![cmd.mode] = old]
                       /\ UNCHANGED mem
                  ELSE /\ mem' = [mem EXCEPT ![j.dev] = [a \in Words |->
                            IF a \in j.addr .. j.addr + j.words - 1
                              THEN Half(new, a - j.addr) ELSE w[a]]]
                       /\ UNCHANGED result
<1>1. PICK m \in Modes : \E j \in job[m] :
        /\ j.for = "ocp"
        /\ LET w   == mem[j.dev]
               old == UNION {AtHalf(w[j.addr + h], h) : h \in 0..j.words - 1}
               new == (old \ j.enabled) \cup (result[m] \cap j.enabled)
           IN  IF j.op = "read"
                 THEN /\ result' = [result EXCEPT ![m] = old]
                      /\ UNCHANGED mem
                 ELSE /\ mem' = [mem EXCEPT ![j.dev] = [a \in Words |->
                           IF a \in j.addr .. j.addr + j.words - 1
                             THEN Half(new, a - j.addr) ELSE w[a]]]
                      /\ UNCHANGED result
        /\ job' = [job EXCEPT ![m] = {}]
        /\ UNCHANGED chan /\ SameAccess
  BY DEF Serve, fwVars, history, SameAccess
<1>2. PICK j \in job[m] :
        /\ j.for = "ocp"
        /\ LET w   == mem[j.dev]
               old == UNION {AtHalf(w[j.addr + h], h) : h \in 0..j.words - 1}
               new == (old \ j.enabled) \cup (result[m] \cap j.enabled)
           IN  IF j.op = "read"
                 THEN /\ result' = [result EXCEPT ![m] = old]
                      /\ UNCHANGED mem
                 ELSE /\ mem' = [mem EXCEPT ![j.dev] = [a \in Words |->
                           IF a \in j.addr .. j.addr + j.words - 1
                             THEN Half(new, a - j.addr) ELSE w[a]]]
                      /\ UNCHANGED result
        /\ job' = [job EXCEPT ![m] = {}]
        /\ UNCHANGED chan /\ SameAccess
  BY <1>1
<1>5. pc = "poll" /\ m = cmd.mode /\ j = JobOf(cmd, Current) /\ job[m] # {}
  BY <1>2 DEF OnTimeInv
<1>3. JobOf(cmd, Current).for = Current.for /\ JobOf(cmd, Current).op = Current.op
  BY DEF JobOf
<1>4. cmd.channel = "ocp" <=> Current.for = "ocp"
  BY <1>5, AtCommand DEF Busy, Fits
<1> QED
  BY <1>2, <1>3, <1>4, <1>5

\* What a unit reads are the words of the access.
LEMMA ServedRead ==
  ASSUME TypeInv, ChainInv, OnTimeInv, ~late, Serve, Current.op = "read"
  PROVE  /\ UNCHANGED mem
         /\ result'[cmd.mode] = IF cmd.mode = "stall" THEN mem[Space(cmd)][cmd.addr + Current.half]
                                ELSE Value(cmd, mem, Size(cmd))
<1> DEFINE j   == JobOf(cmd, Current)
           old == UNION {AtHalf(mem[j.dev][j.addr + h], h) : h \in 0..j.words - 1}
<1>1. pc = "poll" /\ result' = [result EXCEPT ![cmd.mode] = old] /\ UNCHANGED mem /\ Current.for = "ocp"
  BY ServeCurrent
<1>2. /\ cmd \in Commands /\ Fits(Current, cmd) /\ Current.half \in 0..Halves(cmd) - 1
      /\ cmd.mode \in Modes /\ cmd.addr \in Nat /\ Space(cmd) \in Spaces /\ Size(cmd) \in {1, 2}
  BY <1>1, AtCommand, CommandFacts DEF Busy
<1>3. j.dev = Space(cmd) /\ j.addr = cmd.addr + Current.half
      /\ j.words = IF cmd.mode = "stall" THEN 1 ELSE Size(cmd)
  BY DEF JobOf
<1>4. cmd.mode = "stall" => old = mem[Space(cmd)][cmd.addr + Current.half]
  <2> SUFFICES ASSUME cmd.mode = "stall" PROVE old = mem[Space(cmd)][cmd.addr + Current.half]
    OBVIOUS
  <2>1. j.words = 1 /\ 0..1 - 1 = {0} /\ Current.half \in 0..Size(cmd) - 1
    BY <1>2, <1>3 DEF Halves
  <2>2. cmd.addr + Current.half \in Words /\ cmd.addr + Current.half \in Nat
    BY <1>2, <2>1, WordsOf
  <2> DEFINE v == mem[Space(cmd)][cmd.addr + Current.half]
  <2>3. v \subseteq WordBits
    BY <1>2, <2>2 DEF TypeInv
  <2>4. cmd.addr + Current.half + 0 = cmd.addr + Current.half
    BY <2>2
  <2>5. old = AtHalf(v, 0)
    BY <1>3, <2>1, <2>4
  <2>6. AtHalf(v, 0) = v
    BY <2>3, BitsFacts DEF AtHalf
  <2> QED
    BY <2>5, <2>6
<1>5. cmd.mode # "stall" => old = Value(cmd, mem, Size(cmd))
  <2> SUFFICES ASSUME cmd.mode # "stall" PROVE old = Value(cmd, mem, Size(cmd))
    OBVIOUS
  <2>1. Current.half = 0 /\ cmd.addr + 0 = cmd.addr
    BY <1>2 DEF Halves
  <2> QED
    BY <1>3, <2>1 DEF Value
<1> HIDE DEF old
<1>6. result'[cmd.mode] = old
  BY <1>1, <1>2 DEF TypeInv
<1> QED
  BY <1>1, <1>4, <1>5, <1>6

\* An access for a channel is served while nothing is late: it is the one being
\* made.
LEMMA ServeChannelCurrent ==
  ASSUME TypeInv, ChainInv, OnTimeInv, ~late, ServeChannel
  PROVE  /\ pc = "poll" /\ Current.for # "ocp" /\ cmd.channel \in Channels /\ cmd.mode = "alive"
         /\ Space(cmd) = cmd.channel /\ cmd.size = "word" /\ job["alive"] # {}
         /\ job' = [job EXCEPT !["alive"] = {}] /\ UNCHANGED mem /\ SameAccess
         /\ chan' = IF Current.op = "write" /\ Current.for # "enable"
                    THEN [chan EXCEPT ![cmd.channel] = [op |-> Current.for, done |-> FALSE,
                                                        reg |-> cmd.addr, data |-> result["alive"]]]
                    ELSE chan
         /\ result' = IF Current.op = "read" THEN [result EXCEPT !["alive"] = ChannelWord(cmd.channel)]
                      ELSE result
<1>1. PICK j \in job["alive"] :
        /\ j.for # "ocp"
        /\ chan' = IF j.op = "write" /\ j.for # "enable"
                   THEN [chan EXCEPT ![j.dev] = [op |-> j.for, done |-> FALSE, reg |-> j.addr,
                                                 data |-> result["alive"]]]
                   ELSE chan
        /\ result' = IF j.op = "read" THEN [result EXCEPT !["alive"] = ChannelWord(j.dev)]
                     ELSE result
        /\ job' = [job EXCEPT !["alive"] = {}]
        /\ UNCHANGED mem /\ SameAccess
  BY DEF ServeChannel, fwVars, history, SameAccess
<1>2. pc = "poll" /\ cmd.mode = "alive" /\ j = JobOf(cmd, Current)
  BY <1>1 DEF OnTimeInv, Modes
<1>3. j.for = Current.for /\ j.op = Current.op /\ j.dev = Space(cmd) /\ j.addr = cmd.addr + Current.half
  BY <1>2 DEF JobOf
<1>4. /\ cmd \in Commands /\ Fits(Current, cmd) /\ Current \in AccessType /\ cmd.addr \in Nat
      /\ cmd.channel \in {"ocp"} \cup Channels
      /\ cmd.channel # "ocp" => cmd.size = "word"
  BY <1>2, AtCommand, CommandFacts DEF Busy
<1>5. cmd.channel # "ocp" /\ Current.half = 0 /\ cmd.addr + 0 = cmd.addr
  BY <1>1, <1>2, <1>3, <1>4 DEF Fits, AccessType
<1>6. Space(cmd) = cmd.channel
  BY <1>5 DEF Space
<1> QED
  BY <1>1, <1>2, <1>3, <1>4, <1>5, <1>6

\* What a channel's register reads as says whether it is done, and what it read.
LEMMA ChannelWordPolled ==
  ASSUME TypeInv, ChainInv, OnTimeInv, ~late, pc = "poll", cmd.channel # "ocp", Current.op = "read"
  PROVE  /\ Polled(ChannelWord(cmd.channel)) <=> chan[cmd.channel].done
         /\ Half(ChannelWord(cmd.channel), 0) = chan[cmd.channel].data
<1> DEFINE q == chan[cmd.channel]
           flag == Flag(cmd.channel, Current.for)
<1>1. cmd \in Commands /\ Fits(Current, cmd) /\ Current \in AccessType /\ Busy
  BY AtCommand DEF Busy
<1>2. cmd.channel \in Channels
  BY <1>1, CommandFacts
<1>3. Current.for \in Ops
  BY <1>1 DEF Fits, AccessType, Ops
<1>4. q.op = Current.for /\ q.done \in BOOLEAN /\ q.data \subseteq WordBits
  BY <1>1, <1>2, <1>3 DEF OnTimeInv, Started, TypeInv
<1>5. flag \notin WordBits /\ flag \in Nat
  BY BitsFacts DEF Flag
<1>6. ChannelWord(cmd.channel) = q.data \cup IF q.done = Raises(cmd.channel, Current.for) THEN {flag} ELSE {}
  BY <1>4 DEF ChannelWord
<1>7. flag \in ChannelWord(cmd.channel) <=> q.done = Raises(cmd.channel, Current.for)
  BY <1>4, <1>5, <1>6
<1>8. Raises(cmd.channel, Current.for) \in BOOLEAN
  BY DEF Raises
<1>9. Half(ChannelWord(cmd.channel), 0) = q.data
  <2>1. \A b \in WordBits : b + 0 * 2 * ByteBits = b
    BY BitsFacts
  <2>2. Half(ChannelWord(cmd.channel), 0) = {b \in WordBits : b \in ChannelWord(cmd.channel)}
    BY <2>1 DEF Half
  <2> HIDE DEF flag
  <2> QED
    BY <1>4, <1>5, <1>6, <2>2
<1>10. Polled(ChannelWord(cmd.channel)) <=> (flag \in ChannelWord(cmd.channel)) = Raises(cmd.channel, Current.for)
  BY DEF Polled, Current
<1> HIDE DEF flag, q
<1> QED
  BY <1>4, <1>7, <1>8, <1>9, <1>10 DEF q

\* The start of an access asks its unit for what the command names.
LEMMA StartCurrent ==
  ASSUME Routed, TypeInv, ChainInv, Start
  PROVE  /\ pc = "start" /\ pc' = "poll" /\ cmd' = cmd /\ Current' = Current /\ Busy /\ Busy'
         /\ UNCHANGED <<ptestio_cmd, k, todo, RetVal, answer, mem, chan, before, earlier, late>>
         /\ job' = [job EXCEPT !["stall"] = {}, ![cmd.mode] = {JobOf(cmd, Current)}]
         /\ LET value == SetVal(cmd, RetVal)
                data  == IF cmd.mode = "stall" THEN Half(value, Current.half)
                         ELSE IF Current.for \in {"read", "enable"} THEN {}
                         ELSE value \cap Bits(cmd.size)
            IN  result' = IF Current.op = "write" THEN [result EXCEPT ![cmd.mode] = data] ELSE result
<1>1. pc = "start" /\ pc' = "poll"
      /\ UNCHANGED <<ptestio_cmd, k, todo, RetVal, answer, mem, chan, before, earlier, late>>
  BY DEF Start, history
<1>2. cmd' = cmd /\ Current' = Current /\ Busy /\ Busy'
  BY <1>1 DEF cmd, Current, Busy
<1>3. cmd \in Commands /\ Fits(Current, cmd) /\ Current \in AccessType
  BY <1>2, AtCommand
<1>4. (IF Current.for = "ocp" THEN Selected(Current) ELSE Space(cmd)) = Space(cmd)
  <2> SUFFICES ASSUME Current.for = "ocp" PROVE Selected(Current) = Space(cmd)
    OBVIOUS
  <2>1. Space(cmd) = cmd.dev /\ (Current.op = "write" => cmd.rw = "write")
    BY <1>3 DEF Fits, Space
  <2> QED
    BY <1>3, <2>1 DEF Selected, Routed
<1>5. job' = [job EXCEPT !["stall"] = {}, ![cmd.mode] = {JobOf(cmd, Current)}]
  BY <1>4 DEF Start, Current, JobOf
<1> QED
  BY <1>1, <1>2, <1>5 DEF Start, Current

\* The end of an access that was served.
LEMMA PollDoneCurrent ==
  ASSUME PollDone
  PROVE  /\ pc = "poll" /\ Served /\ Busy /\ cmd' = cmd /\ Return(result[cmd.mode], {})
         /\ UNCHANGED <<ptestio_cmd, k, mem, chan, job, result, before, earlier, late>>
BY DEF PollDone, Served, Busy, cmd, targetVars, history

\* A channel that is done while nothing is late is the one of the access being
\* made.
LEMMA ChannelDoneCurrent ==
  ASSUME TypeInv, ChainInv, OnTimeInv, ~late, ChannelDone
  PROVE  LET q == chan[cmd.channel] IN
         /\ Busy /\ cmd.channel \in Channels /\ Started(cmd.channel) /\ ~q.done
         /\ q.op = Current.for /\ q.reg = cmd.addr /\ Space(cmd) = cmd.channel
         /\ chan' = [chan EXCEPT ![cmd.channel].done = TRUE,
                                 ![cmd.channel].data = IF q.op = "read" THEN mem[cmd.channel][q.reg] ELSE @]
         /\ mem' = IF q.op = "write" THEN [mem EXCEPT ![cmd.channel][q.reg] = q.data] ELSE mem
         /\ SameAccess /\ UNCHANGED <<job, result>>
<1>1. PICK ch \in Channels :
        /\ ~chan[ch].done
        /\ chan' = [chan EXCEPT ![ch].done = TRUE,
                                ![ch].data = IF chan[ch].op = "read" THEN mem[ch][chan[ch].reg] ELSE @]
        /\ mem' = IF chan[ch].op = "write" THEN [mem EXCEPT ![ch][chan[ch].reg] = chan[ch].data] ELSE mem
        /\ SameAccess /\ UNCHANGED <<job, result>>
  BY DEF ChannelDone, fwVars, history, SameAccess
<1>2. Started(ch) /\ cmd.channel = ch /\ Busy /\ chan[ch].op = Current.for /\ chan[ch].reg = cmd.addr
  BY <1>1 DEF OnTimeInv, Started
<1>3. Space(cmd) = ch
  <2>1. ch # "ocp"
    BY DEF Channels, Phys
  <2> QED
    BY <1>2, <2>1 DEF Space
<1> QED
  BY <1>1, <1>2, <1>3

\* Nothing the target does between steps of the firmware moves the access.
LEMMA SameStarted ==
  ASSUME SameAccess
  PROVE  /\ cmd' = cmd /\ Current' = Current /\ Busy' = Busy
         /\ job'[cmd.mode] = job[cmd.mode] => Served' = Served /\ \A ch : Started(ch)' = Started(ch)
BY DEF SameAccess, cmd, Current, Busy, Served, Started

\* Every step keeps the target in time.
LEMMA OnTimeStep ==
  ASSUME Routed, TypeInv, IInv, ChainInv, LeftInv, OnTimeInv, ReadInv, [Next]_vars
  PROVE  OnTimeInv'
<1> SUFFICES ASSUME ~late' PROVE OnTimeInv'
  BY DEF OnTimeInv
<1>0. job \in [Modes -> SUBSET JobType] /\ \A ch \in Channels : ch # "ocp" /\ chan[ch].done \in BOOLEAN
  BY DEF TypeInv, Channels, Phys
<1>1. CASE Receive
  <2>1. pc' = "next" /\ UNCHANGED <<job, chan>>
    BY <1>1 DEF Receive, targetVars
  <2>2. \A ch : ~Started(ch)'
    BY <2>1 DEF Started, Busy
  <2> QED
    BY <1>1, <2>1, <2>2, NoneLeft DEF OnTimeInv
<1>2. CASE NextCommand
  <2>1. /\ pc = "next" /\ UNCHANGED <<ptestio_cmd, job, chan, late>> /\ pc' \in {"start", "idle"}
    BY <1>2 DEF NextCommand, targetVars, history
  <2>2. \A m \in Modes : job[m] = {}
    BY <2>1 DEF OnTimeInv
  <2>3. \A ch \in Channels : chan[ch].done
    BY <2>1 DEF OnTimeInv, Started, Busy
  <2>4. ASSUME NEW ch \in Channels, Started(ch)' PROVE FALSE
    <3>1. k < Len(ptestio_cmd) /\ k' = k + 1 /\ todo' = Accesses(ptestio_cmd[k + 1]) /\ pc' = "start"
      BY <1>2, <2>4 DEF NextCommand, Started, Busy
    <3>2. cmd' = ptestio_cmd[k + 1] /\ cmd' \in Commands
      BY <2>1, <3>1, KType DEF cmd, TypeInv
    <3>3. Current' = First(cmd')
      BY <3>1, <3>2, AccessesChain DEF Current
    <3>4. cmd'.channel = ch /\ Current'.op = "read"
      BY <2>4, <3>1 DEF Started, Served
    <3> QED
      BY <1>0, <3>3, <3>4 DEF First, Access
  <2> QED
    BY <2>1, <2>2, <2>3, <2>4 DEF OnTimeInv
<1>3. CASE Start
  <2>1. /\ pc = "start" /\ pc' = "poll" /\ cmd' = cmd /\ Current' = Current /\ Busy /\ Busy'
        /\ UNCHANGED <<chan, late>>
        /\ job' = [job EXCEPT !["stall"] = {}, ![cmd.mode] = {JobOf(cmd, Current)}]
    BY <1>3, StartCurrent
  <2>2. cmd.mode \in Modes /\ JobOf(cmd, Current)' = JobOf(cmd, Current)
    <3>1. cmd.mode \in Modes
      BY <2>1, AtCommand, CommandFacts
    <3> QED
      BY <2>1, <3>1 DEF JobOf, Space, Size, Enabled
  <2>3. \A m \in Modes : job'[m] \subseteq IF m = cmd.mode THEN {JobOf(cmd, Current)} ELSE {}
    BY <1>0, <2>1, <2>2 DEF OnTimeInv, Modes
  <2>4. \A ch : Started(ch)' = Started(ch)
    <3>1. ~Served /\ ~Served'
      BY <1>0, <2>1, <2>2 DEF Served
    <3> QED
      BY <2>1, <3>1 DEF Started
  <2> QED
    BY <2>1, <2>2, <2>3, <2>4 DEF OnTimeInv
<1>4. CASE PollBusy \/ UNCHANGED vars
  <2>1. SameAccess /\ UNCHANGED <<job, chan>>
    BY <1>4 DEF PollBusy, vars, fwVars, targetVars, history, SameAccess
  <2> QED
    BY <2>1, SameStarted DEF OnTimeInv, SameAccess, JobOf, Space, Size, Enabled
<1>5. CASE Serve
  <2>0. ~late
    BY <1>5 DEF Serve, history
  <2>1. /\ pc = "poll" /\ Current.for = "ocp" /\ job' = [job EXCEPT ![cmd.mode] = {}] /\ UNCHANGED chan
        /\ SameAccess
    BY <1>5, <2>0, ServeCurrent
  <2>2. \A ch \in Channels : ~Started(ch) /\ ~Started(ch)'
    <3>1. "ocp" \notin Ops
      BY DEF Ops
    <3> QED
      BY <2>1, <3>1, SameStarted DEF Started
  <2> QED
    BY <1>0, <2>0, <2>1, <2>2, SameStarted DEF OnTimeInv, SameAccess, JobOf, Space, Size, Enabled
<1>6. CASE ServeChannel
  <2>0. ~late
    BY <1>6 DEF ServeChannel, history
  <2>1. /\ pc = "poll" /\ Current.for # "ocp" /\ cmd.channel \in Channels /\ cmd.mode = "alive"
        /\ job["alive"] # {} /\ job' = [job EXCEPT !["alive"] = {}] /\ SameAccess
        /\ chan' = IF Current.op = "write" /\ Current.for # "enable"
                   THEN [chan EXCEPT ![cmd.channel] = [op |-> Current.for, done |-> FALSE,
                                                       reg |-> cmd.addr, data |-> result["alive"]]]
                   ELSE chan
    BY <1>6, <2>0, ServeChannelCurrent
  <2>2. cmd' = cmd /\ Current' = Current /\ Busy /\ Busy' /\ pc' = "poll" /\ ~Served /\ Served'
    BY <1>0, <2>1, SameStarted DEF Served, Busy, SameAccess, Modes
  <2>3. Current \in AccessType
    BY <2>2, AtCommand
  <2>4. \A ch \in Channels : Started(ch)' <=> ch = cmd.channel /\ Current.for # "enable"
    BY <2>1, <2>2, <2>3 DEF Started, AccessType, Ops
  <2>5. \A ch \in Channels : Started(ch) <=> ch = cmd.channel /\ Current.for # "enable" /\ Current.op = "read"
    BY <2>1, <2>2, <2>3 DEF Started, AccessType, Ops
  <2>6. \A ch \in Channels : ~chan'[ch].done => Started(ch)'
    BY <2>0, <2>1, <2>4, <2>5 DEF OnTimeInv, TypeInv
  <2>7. \A ch \in Channels : Started(ch)' => chan'[ch].op = Current.for /\ chan'[ch].reg = cmd.addr
    BY <2>0, <2>1, <2>3, <2>4, <2>5 DEF OnTimeInv, TypeInv, AccessType, Ops
  <2>8. \A m \in Modes : job'[m] = {}
    BY <1>0, <2>0, <2>1 DEF OnTimeInv
  <2> QED
    BY <2>2, <2>6, <2>7, <2>8 DEF OnTimeInv
<1>7. CASE ChannelDone
  <2>0. ~late
    BY <1>7 DEF ChannelDone, history
  <2>1. /\ SameAccess /\ UNCHANGED job
        /\ chan' = [chan EXCEPT ![cmd.channel].done = TRUE,
                                ![cmd.channel].data = IF chan[cmd.channel].op = "read"
                                                      THEN mem[cmd.channel][chan[cmd.channel].reg] ELSE @]
    BY <1>7, <2>0, ChannelDoneCurrent
  <2>2. \A ch \in Channels : /\ chan'[ch].op = chan[ch].op /\ chan'[ch].reg = chan[ch].reg
                             /\ chan[ch].done => chan'[ch].done
    BY <2>1 DEF TypeInv
  <2>3. cmd' = cmd /\ Current' = Current /\ \A ch : Started(ch)' = Started(ch)
    BY <2>1, SameStarted
  <2>4. JobOf(cmd, Current)' = JobOf(cmd, Current) /\ UNCHANGED <<pc, late, job>>
    BY <2>1, <2>3 DEF JobOf, SameAccess
  <2> QED
    BY <2>0, <2>2, <2>3, <2>4 DEF OnTimeInv
<1>8. CASE PollDone
  <2>1. /\ pc = "poll" /\ Served /\ Busy /\ cmd' = cmd /\ Return(result[cmd.mode], {}) /\ ~late
        /\ UNCHANGED <<chan, job>>
    BY <1>8, PollDoneCurrent
  <2>2. \A m \in Modes : job'[m] = {}
    BY <2>1 DEF OnTimeInv, Served
  <2>3. cmd \in Commands /\ Fits(Current, cmd) /\ Current \in AccessType
    BY <2>1, AtCommand
  <2>4. pc' \in {"next", "start"} /\ ~Served'
    BY <2>1, AfterReturn DEF Served
  <2>5. CASE cmd.channel = "ocp"
    <3>1. \A ch \in Channels : ~Started(ch) /\ ~Started(ch)'
      BY <1>0, <2>1, <2>5 DEF Started
    <3> QED
      BY <2>1, <2>2, <2>4, <3>1 DEF OnTimeInv
  <2>6. CASE cmd.channel # "ocp"
    <3>0. cmd.channel \in Channels /\ cmd.mode = "alive" /\ Current.for # "ocp"
      BY <2>3, <2>6, CommandFacts DEF Fits
    <3>1. \A ch \in Channels : Started(ch) <=> ch = cmd.channel /\ Current.for # "enable"
      BY <2>1, <2>3, <3>0 DEF Started, AccessType, Ops
    <3>2. \A ch \in Channels : Started(ch)' <=> Busy' /\ ch = cmd.channel /\ Current'.for \in Ops /\ Current'.op = "read"
      BY <2>1, <2>4 DEF Started
    <3>3. CASE Current.op = "read" /\ ~Polled(result[cmd.mode])
      <4>1. pc' = "start" /\ UNCHANGED todo
        BY <2>1, <2>6, <3>3, AfterReturn
      <4>2. Current' = Current /\ Current.for # "enable"
        BY <2>3, <3>3, <4>1 DEF Current, Fits
      <4>3. \A ch \in Channels : Started(ch)' <=> Started(ch)
        BY <2>3, <3>0, <3>1, <3>2, <3>3, <4>1, <4>2 DEF Busy, AccessType, Ops
      <4> QED
        BY <2>1, <2>2, <2>4, <4>2, <4>3 DEF OnTimeInv
    <3>4. CASE Current.op = "read" /\ Polled(result[cmd.mode])
      <4>1. chan[cmd.channel].done
        BY <2>1, <3>0, <3>4 DEF ReadInv
      <4>2. \A ch \in Channels : ~Started(ch)'
        <5> SUFFICES ASSUME Busy', Current'.op = "read" PROVE FALSE
          BY <3>2
        <5>1. Successor(cmd, Current) = {Current'}
          BY <2>1, <2>6, <3>4, AfterReturn DEF Busy
        <5>2. Current.for # "enable"
          BY <2>3, <3>4 DEF Fits
        <5> QED
          BY <3>0, <3>4, <5>1, <5>2 DEF Successor, Access
      <4>3. \A ch \in Channels : chan[ch].done
        BY <2>1, <3>1, <4>1 DEF OnTimeInv
      <4> QED
        BY <2>1, <2>2, <2>4, <4>2, <4>3 DEF OnTimeInv
    <3>5. CASE Current.op = "write"
      <4>1. Successor(cmd, Current) = {IF Current.for = "enable" THEN Access("write", 0, "read")
                                       ELSE Access("read", 0, Current.for)}
        BY <3>0, <3>5 DEF Successor
      <4>2. pc' = "start" /\ Current' = IF Current.for = "enable" THEN Access("write", 0, "read")
                                        ELSE Access("read", 0, Current.for)
        BY <2>1, <3>5, <4>1, AfterReturn
      <4>3. \A ch \in Channels : Started(ch)' <=> Started(ch)
        BY <2>3, <3>0, <3>1, <3>2, <4>2 DEF Busy, AccessType, Ops, Access
      <4>4. Current.for # "enable" => Current'.for = Current.for
        BY <4>2 DEF Access
      <4> QED
        BY <2>1, <2>2, <2>4, <3>1, <4>3, <4>4 DEF OnTimeInv
    <3>6. Current.op \in {"read", "write"}
      BY <2>3 DEF AccessType, Ops
    <3> QED
      BY <3>3, <3>4, <3>5, <3>6
  <2> QED
    BY <2>5, <2>6
<1>9. CASE GiveUp
  BY <1>9 DEF GiveUp
<1> QED
  BY <1>1, <1>2, <1>3, <1>4, <1>5, <1>6, <1>7, <1>8, <1>9 DEF Next, Firmware

-----------------------------------------------------------------------------
(* The memory of the target, and what has been read of it.                 *)

\* What the target is meant to hold after n commands.
Meant(n) == After(ptestio_cmd, before)[n]

\* The words an access is for.
Span(c) == IF c.mode = "stall" THEN 1 ELSE Size(c)

\* How many words of the command in progress have been stored.
StoredWords ==
    IF Current.for = "ocp"
      THEN IF Current.op = "read" THEN 0 ELSE Current.half + (IF Served THEN Span(cmd) ELSE 0)
      ELSE IF Current.for = "write" /\ Started(cmd.channel) /\ chan[cmd.channel].done THEN 1 ELSE 0

\* What a word is meant to hold once n words of the command are stored.
Partly(n, s, x) ==
    IF s = Space(cmd) /\ x < cmd.addr + n THEN Meant(k)[s][x] ELSE Meant(k - 1)[s][x]

\* The target holds what the commands so far are meant to leave, and of the one
\* in progress the words that have been stored.
MemInv ==
    /\ before \in Memories
    /\ ~late => \A s \in Spaces, x \in Words :
                  mem[s][x] = IF Busy THEN Partly(StoredWords, s, x) ELSE Meant(k)[s][x]

\* A write of a part of a register has read the words it is to merge.
RetInv ==
    ~late /\ Busy /\ Partial(cmd) /\ cmd.rw = "write" /\ Current.for \in {"ocp", "write"} =>
      RetVal = Value(cmd, Meant(k - 1), IF Current.for = "ocp" /\ Current.op = "read" THEN Current.half
                                        ELSE Size(cmd))

\* What a batch is meant to leave is what each command leaves after the one
\* before.
LEMMA MeantSteps ==
  ASSUME TypeInv, before \in Memories
  PROVE  /\ Meant(0) = before
         /\ \A n \in 0..Len(ptestio_cmd) : Meant(n) \in Memories
         /\ \A n \in 1..Len(ptestio_cmd) : Meant(n) = Stored(ptestio_cmd[n], Meant(n - 1))
BY AfterSteps DEF TypeInv, Meant

\* Before any word is stored, and after all of them.
LEMMA PartlyEnds ==
  ASSUME TypeInv, ChainInv, before \in Memories, Busy, NEW s \in Spaces, NEW x \in Words
  PROVE  /\ Partly(0, s, x) = Meant(k - 1)[s][x]
         /\ Partly(Size(cmd), s, x) = Meant(k)[s][x]
         /\ cmd.rw = "read" => \A n \in Nat : Partly(n, s, x) = Meant(k)[s][x]
         /\ Meant(k - 1) \in Memories /\ Meant(k) \in Memories
         /\ cmd.rw = "write" => Meant(k)[Space(cmd)][x] = Written(cmd, Meant(k - 1)[Space(cmd)])[x]
<1>1. cmd \in Commands /\ k \in 1..Len(ptestio_cmd) /\ cmd = ptestio_cmd[k]
  BY AtCommand
<1>2. Meant(k) = Stored(cmd, Meant(k - 1)) /\ Meant(k - 1) \in Memories /\ Meant(k) \in Memories
  BY <1>1, MeantSteps
<1>3. cmd.addr \in Nat /\ Size(cmd) \in {1, 2} /\ x \in Nat /\ Space(cmd) \in Spaces /\ cmd.rw \in {"read", "write"}
  BY <1>1, CommandFacts, TestIoAssumption DEF Ops
<1>4. /\ x \notin cmd.addr .. cmd.addr + Size(cmd) - 1 => Meant(k)[s][x] = Meant(k - 1)[s][x]
      /\ s # Space(cmd) => Meant(k)[s][x] = Meant(k - 1)[s][x]
      /\ cmd.rw = "read" => Meant(k)[s][x] = Meant(k - 1)[s][x]
      /\ cmd.rw = "write" => Meant(k)[Space(cmd)][x] = Written(cmd, Meant(k - 1)[Space(cmd)])[x]
  BY <1>1, <1>2, <1>3, StoredType
<1>5. Partly(0, s, x) = Meant(k - 1)[s][x]
  <2>1. x < cmd.addr + 0 => x \notin cmd.addr .. cmd.addr + Size(cmd) - 1
    BY <1>3
  <2> QED
    BY <1>4, <2>1 DEF Partly
<1>6. Partly(Size(cmd), s, x) = Meant(k)[s][x]
  <2>1. ~(x < cmd.addr + Size(cmd)) => x \notin cmd.addr .. cmd.addr + Size(cmd) - 1
    BY <1>3
  <2> QED
    BY <1>4, <2>1 DEF Partly
<1>7. cmd.rw = "read" => \A n \in Nat : Partly(n, s, x) = Meant(k)[s][x]
  BY <1>4 DEF Partly
<1> QED
  BY <1>2, <1>4, <1>5, <1>6, <1>7

\* While none of its words are stored, a command's words are as the commands
\* before leave them.
LEMMA NoneStored ==
  ASSUME TypeInv, ChainInv, MemInv, ~late, Busy, StoredWords = 0
  PROVE  /\ \A h \in 0..Size(cmd) - 1 :
              mem[Space(cmd)][cmd.addr + h] = Meant(k - 1)[Space(cmd)][cmd.addr + h]
         /\ \A n \in 0..Size(cmd) : Value(cmd, mem, n) = Value(cmd, Meant(k - 1), n)
<1>1. cmd \in Commands
  BY AtCommand
<1>2. Space(cmd) \in Spaces /\ Size(cmd) \in {1, 2}
  BY <1>1, CommandFacts
<1>3. \A h \in 0..Size(cmd) - 1 :
        mem[Space(cmd)][cmd.addr + h] = Meant(k - 1)[Space(cmd)][cmd.addr + h]
  BY <1>1, <1>2, WordsOf, PartlyEnds DEF MemInv
<1>4. ASSUME NEW n \in 0..Size(cmd) PROVE Value(cmd, mem, n) = Value(cmd, Meant(k - 1), n)
  <2>1. n \in Nat /\ 0..n - 1 \subseteq 0..Size(cmd) - 1
    BY <1>2
  <2> QED
    BY <1>3, <2>1, ValueSame
<1> QED
  BY <1>3, <1>4

\* How an access that was served goes on.
LEMMA PollDoneNext ==
  ASSUME TypeInv, ChainInv, PollDone
  PROVE  LET a == Current
             polled == Polled(result[cmd.mode])
         IN
         \/ /\ a.for \in Ops /\ a.op = "read" /\ ~polled
            /\ pc' = "start" /\ Current' = a /\ UNCHANGED <<RetVal, answer>>
         \/ /\ a.for = "ocp" /\ a.half + 1 = Halves(cmd) /\ (a.op = "write" \/ cmd.rw = "read")
            /\ pc' = "next"
         \/ /\ a.for \in Ops /\ a.op = "read" /\ polled /\ (a.for = "write" \/ cmd.rw = "read")
            /\ pc' = "next"
         \/ /\ a.for = "ocp" /\ a.half + 1 < Halves(cmd)
            /\ pc' = "start" /\ Current' = Access(a.op, a.half + 1, "ocp")
         \/ /\ a.for = "ocp" /\ a.half + 1 = Halves(cmd) /\ a.op = "read" /\ cmd.rw = "write"
            /\ pc' = "start" /\ Current' = Access("write", 0, "ocp")
         \/ /\ a.for = "enable" /\ a.op = "write" /\ pc' = "start" /\ Current' = Access("write", 0, "read")
         \/ /\ a.for \in Ops /\ a.op = "write" /\ pc' = "start" /\ Current' = Access("read", 0, a.for)
         \/ /\ a.for = "read" /\ a.op = "read" /\ polled /\ cmd.rw = "write"
            /\ pc' = "start" /\ Current' = Access("write", 0, "write")
<1> DEFINE a == Current
<1>1. pc = "poll" /\ Busy /\ Return(result[cmd.mode], {})
  BY PollDoneCurrent
<1>2. /\ cmd \in Commands /\ Fits(a, cmd) /\ a \in AccessType /\ a.half \in 0..Halves(cmd) - 1
      /\ cmd.rw \in {"read", "write"} /\ Size(cmd) \in {1, 2}
      /\ a.op \in {"read", "write"} /\ a.for \in {"ocp", "enable", "read", "write"}
      /\ a.for = "ocp" <=> cmd.channel = "ocp"
      /\ a.for = "enable" => a.op = "write"
      /\ a.for = "write" => cmd.rw = "write"
  <2>1. /\ cmd \in Commands /\ Fits(a, cmd) /\ a \in AccessType /\ a.half \in 0..Halves(cmd) - 1
        /\ a.for = "write" => cmd.rw = "write"
    BY <1>1, AtCommand
  <2> QED
    BY <2>1, CommandFacts DEF Fits, AccessType, Ops
<1>3. a.half \in Nat /\ Halves(cmd) \in Nat /\ (a.half + 1 < Halves(cmd) \/ a.half + 1 = Halves(cmd))
  BY <1>2 DEF Halves
<1>4. Successor(cmd, a) =
        IF a.for = "ocp"
          THEN IF a.half + 1 < Halves(cmd) THEN {Access(a.op, a.half + 1, "ocp")}
               ELSE IF a.op = "read" /\ cmd.rw = "write" THEN {Access("write", 0, "ocp")} ELSE {}
        ELSE IF a.for = "enable" THEN {Access("write", 0, "read")}
        ELSE IF a.op = "write" THEN {Access("read", 0, a.for)}
        ELSE IF a.for = "read" /\ cmd.rw = "write" THEN {Access("write", 0, "write")} ELSE {}
  BY DEF Successor
<1>5. CASE cmd.channel # "ocp" /\ a.op = "read" /\ ~Polled(result[cmd.mode])
  <2>1. pc' = "start" /\ UNCHANGED <<todo, RetVal, answer>>
    BY <1>1, <1>5, AfterReturn
  <2>2. Current' = a
    BY <2>1 DEF Current
  <2> HIDE DEF a
  <2> QED
    BY <1>2, <1>5, <2>1, <2>2 DEF Ops, a
<1>6. CASE cmd.channel # "ocp" /\ a.op = "read" => Polled(result[cmd.mode])
  <2>1. \/ pc' = "next" /\ Successor(cmd, a) = {}
        \/ pc' = "start" /\ Successor(cmd, a) = {Current'}
    BY <1>1, <1>6, AfterReturn
  <2>2. \A x, y : {x} # {} /\ ({x} = {y} => x = y)
    OBVIOUS
  <2> DEFINE goes == Current'
  <2> HIDE DEF a, goes
  <2>3. CASE a.for = "ocp"
    BY <1>2, <1>3, <1>4, <2>1, <2>2, <2>3 DEF a, goes, Ops
  <2>4. CASE a.for = "enable"
    BY <1>2, <1>4, <2>1, <2>2, <2>4 DEF a, goes, Ops
  <2>5. CASE a.for \in {"read", "write"}
    BY <1>2, <1>4, <1>6, <2>1, <2>2, <2>5 DEF a, goes, Ops
  <2> QED
    BY <1>2, <2>3, <2>4, <2>5
<1> QED
  BY <1>5, <1>6

\* A step that makes neither an access nor one of its units move.
LEMMA StillStep ==
  ASSUME PollBusy \/ UNCHANGED vars
  PROVE  /\ SameAccess /\ UNCHANGED <<mem, chan, job, result>>
         /\ cmd' = cmd /\ Current' = Current /\ Busy' = Busy /\ Served' = Served
         /\ \A ch : Started(ch)' = Started(ch)
<1>1. SameAccess /\ UNCHANGED <<mem, chan, job, result>>
  BY DEF PollBusy, vars, fwVars, targetVars, history, SameAccess
<1> QED
  BY <1>1, SameStarted

\* A new command has made no access and read nothing.
LEMMA NextCommandFirst ==
  ASSUME TypeInv, NextCommand, Busy'
  PROVE  /\ k' = k + 1 /\ k' \in 1..Len(ptestio_cmd) /\ pc = "next" /\ pc' = "start" /\ RetVal' = {}
         /\ UNCHANGED <<ptestio_cmd, mem, chan, job, result, answer, before, earlier, late>>
         /\ cmd' \in Commands /\ Current' = First(cmd') /\ ~Served'
         /\ \A ch \in Channels : ~Started(ch)'
<1>1. /\ k < Len(ptestio_cmd) /\ k' = k + 1 /\ todo' = Accesses(ptestio_cmd[k + 1]) /\ pc = "next" /\ pc' = "start"
      /\ RetVal' = {}
      /\ UNCHANGED <<ptestio_cmd, mem, chan, job, result, answer, before, earlier, late>>
  BY DEF NextCommand, Busy, targetVars, history
<1>2. cmd' = ptestio_cmd[k + 1] /\ cmd' \in Commands /\ k' \in 1..Len(ptestio_cmd)
  BY <1>1, KType DEF cmd, TypeInv
<1>3. Current' = First(cmd')
  BY <1>1, <1>2, AccessesChain DEF Current
<1>4. ~Served'
  BY <1>1 DEF Served
<1>5. ASSUME NEW ch \in Channels, Started(ch)' PROVE FALSE
  <2>1. ch # "ocp"
    BY DEF Channels, Phys
  <2> QED
    BY <1>3, <1>4, <1>5, <2>1 DEF Started, First, Access
<1> QED
  BY <1>1, <1>2, <1>3, <1>4, <1>5

\* Every step keeps the data of a write.
LEMMA DataStep ==
  ASSUME Routed, TypeInv, ChainInv, OnTimeInv, DataInv, [Next]_vars
  PROVE  DataInv'
<1> SUFFICES ASSUME ~late', pc' = "poll" PROVE DataInv'
  BY DEF DataInv
<1>0. job \in [Modes -> SUBSET JobType] /\ result \in [Modes -> SUBSET Bits("dword")]
  BY DEF TypeInv
<1>1. CASE Start
  <2>1. cmd.mode \in Modes
    <3>1. Busy
      BY <1>1 DEF Start, Busy
    <3> QED
      BY <3>1, AtCommand, CommandFacts
  <2>2. cmd' = cmd /\ Current' = Current /\ RetVal' = RetVal
    BY <1>1, StartCurrent
  <2>3. LET value == SetVal(cmd, RetVal)
            data  == IF cmd.mode = "stall" THEN Half(value, Current.half)
                     ELSE IF Current.for \in {"read", "enable"} THEN {}
                     ELSE value \cap Bits(cmd.size)
        IN  result' = IF Current.op = "write" THEN [result EXCEPT ![cmd.mode] = data] ELSE result
    BY <1>1, StartCurrent
  <2> QED
    BY <1>0, <2>1, <2>2, <2>3 DEF DataInv
<1>2. CASE Serve
  <2>0. ~late
    BY <1>2 DEF Serve, history
  <2>1. pc = "poll" /\ job' = [job EXCEPT ![cmd.mode] = {}] /\ SameAccess
    BY <1>2, <2>0, ServeCurrent
  <2>2. cmd.mode \in Modes /\ cmd' = cmd
    BY <2>1, AtCommand, CommandFacts, SameStarted DEF Busy
  <2> QED
    BY <1>0, <2>1, <2>2 DEF DataInv
<1>3. CASE ServeChannel
  <2>0. ~late
    BY <1>3 DEF ServeChannel, history
  <2>1. cmd.mode = "alive" /\ job' = [job EXCEPT !["alive"] = {}] /\ SameAccess
    BY <1>3, <2>0, ServeChannelCurrent
  <2> QED
    BY <1>0, <2>1, SameStarted DEF DataInv, Modes
<1>4. CASE ChannelDone
  <2>1. SameAccess /\ UNCHANGED <<job, result>>
    BY <1>4 DEF ChannelDone, fwVars, history, SameAccess
  <2>2. cmd' = cmd /\ Current' = Current /\ UNCHANGED <<RetVal, pc, late, job, result>>
    BY <2>1, SameStarted DEF SameAccess
  <2> QED
    BY <2>2 DEF DataInv
<1>5. CASE PollBusy \/ UNCHANGED vars
  <2>1. cmd' = cmd /\ Current' = Current /\ UNCHANGED <<RetVal, pc, late, job, result>>
    BY <1>5, StillStep DEF SameAccess
  <2> QED
    BY <2>1 DEF DataInv
<1>6. CASE PollDone
  BY <1>6, PollDoneNext
<1>7. CASE Receive \/ NextCommand \/ GiveUp
  BY <1>7 DEF Receive, NextCommand, GiveUp
<1> QED
  BY <1>1, <1>2, <1>3, <1>4, <1>5, <1>6, <1>7 DEF Next, Firmware

\* Every step keeps what a read has found.
LEMMA ReadStep ==
  ASSUME Routed, TypeInv, ChainInv, OnTimeInv, ReadInv, ChanInv, [Next]_vars
  PROVE  ReadInv'
<1> SUFFICES ASSUME ~late', Served', Current'.op = "read" PROVE ReadInv'
  BY DEF ReadInv
<1>0. job \in [Modes -> SUBSET JobType] /\ result \in [Modes -> SUBSET Bits("dword")]
  BY DEF TypeInv
<1>1. CASE Start
  <2>1. cmd.mode \in Modes /\ cmd' = cmd /\ job' = [job EXCEPT !["stall"] = {}, ![cmd.mode] = {JobOf(cmd, Current)}]
    <3>1. Busy
      BY <1>1 DEF Start, Busy
    <3> QED
      BY <1>1, <3>1, AtCommand, CommandFacts, StartCurrent
  <2> QED
    BY <1>0, <2>1 DEF Served, Modes
<1>2. CASE Serve
  <2>0. ~late
    BY <1>2 DEF Serve, history
  <2>1. pc = "poll" /\ Current.for = "ocp" /\ SameAccess
    BY <1>2, <2>0, ServeCurrent
  <2>2. cmd' = cmd /\ Current' = Current
    BY <2>1, SameStarted
  <2>3. /\ UNCHANGED mem
        /\ result'[cmd.mode] = IF cmd.mode = "stall" THEN mem[Space(cmd)][cmd.addr + Current.half]
                               ELSE Value(cmd, mem, Size(cmd))
    BY <1>2, <2>0, <2>2, ServedRead
  <2> QED
    BY <2>1, <2>2, <2>3 DEF ReadInv, Space, Size, Value
<1>3. CASE ServeChannel
  <2>0. ~late
    BY <1>3 DEF ServeChannel, history
  <2>1. /\ pc = "poll" /\ Current.for # "ocp" /\ cmd.channel \in Channels /\ cmd.mode = "alive" /\ SameAccess
        /\ UNCHANGED mem
        /\ chan' = IF Current.op = "write" /\ Current.for # "enable"
                   THEN [chan EXCEPT ![cmd.channel] = [op |-> Current.for, done |-> FALSE,
                                                       reg |-> cmd.addr, data |-> result["alive"]]]
                   ELSE chan
        /\ result' = IF Current.op = "read" THEN [result EXCEPT !["alive"] = ChannelWord(cmd.channel)]
                     ELSE result
    BY <1>3, <2>0, ServeChannelCurrent
  <2>2. cmd' = cmd /\ Current' = Current /\ Busy
    BY <2>1, SameStarted DEF Busy
  <2>3. chan' = chan /\ result'["alive"] = ChannelWord(cmd.channel)
    BY <1>0, <2>1, <2>2 DEF Modes
  <2>4. /\ Polled(ChannelWord(cmd.channel)) <=> chan[cmd.channel].done
        /\ Half(ChannelWord(cmd.channel), 0) = chan[cmd.channel].data
    <3>1. cmd.channel # "ocp"
      BY <2>1 DEF Channels, Phys
    <3> QED
      BY <2>0, <2>1, <2>2, <3>1, ChannelWordPolled
  <2>5. Current.for = "read" /\ chan[cmd.channel].done => chan[cmd.channel].data = mem[cmd.channel][cmd.addr]
    <3>1. cmd.channel # "ocp"
      BY <2>1 DEF Channels, Phys
    <3> QED
      BY <2>0, <2>2, <3>1 DEF ChanInv, Started, Ops
  <2>6. \A v : Polled(v)' <=> Polled(v)
    BY <2>1, <2>2 DEF Polled, SameAccess
  <2>7. Polled(result["alive"])' => Polled(ChannelWord(cmd.channel))
    BY <2>1, <2>2, <2>3 DEF Polled, SameAccess
  <2> QED
    BY <2>1, <2>2, <2>3, <2>4, <2>5, <2>7 DEF ReadInv
<1>4. CASE ChannelDone
  <2>0. ~late
    BY <1>4 DEF ChannelDone, history
  <2>1. SameAccess /\ UNCHANGED <<job, result>> /\ ~chan[cmd.channel].done /\ Started(cmd.channel)
    BY <1>4, <2>0, ChannelDoneCurrent
  <2>2. cmd' = cmd /\ Current' = Current /\ Served
    BY <2>1, SameStarted
  <2>3. Current.for # "ocp"
    BY <2>1 DEF Started, Ops
  <2>4. ~Polled(result["alive"])
    BY <2>0, <2>1, <2>2, <2>3 DEF ReadInv
  <2>5. ~Polled(result["alive"])'
    BY <2>1, <2>2, <2>4 DEF Polled, SameAccess
  <2> QED
    BY <2>2, <2>3, <2>5 DEF ReadInv
<1>5. CASE PollBusy \/ UNCHANGED vars
  <2>1. cmd' = cmd /\ Current' = Current /\ Served' = Served /\ UNCHANGED <<late, mem, chan, job, result, todo>>
    BY <1>5, StillStep DEF SameAccess
  <2> QED
    BY <2>1 DEF ReadInv, Space, Size, Value, Polled
<1>6. CASE PollDone
  BY <1>6, PollDoneNext DEF Served
<1>7. CASE Receive \/ NextCommand \/ GiveUp
  BY <1>7 DEF Receive, NextCommand, GiveUp, Served
<1> QED
  BY <1>1, <1>2, <1>3, <1>4, <1>5, <1>6, <1>7 DEF Next, Firmware

\* Every step keeps the words of the channels.
LEMMA ChanStep ==
  ASSUME Routed, TypeInv, ChainInv, OnTimeInv, ReadInv, DataInv, ChanInv, [Next]_vars
  PROVE  ChanInv'
<1> SUFFICES ASSUME ~late', Started(cmd.channel)', cmd'.channel # "ocp" PROVE ChanInv'
  BY DEF ChanInv
<1>0. chan \in [Channels -> [op : Ops, done : BOOLEAN, reg : Nat, data : SUBSET WordBits]]
  BY DEF TypeInv
<1>1. ASSUME cmd' = cmd, Current' = Current, Started(cmd.channel), UNCHANGED <<mem, chan, RetVal, late>>
      PROVE  ChanInv'
  BY <1>1 DEF ChanInv
<1>2. CASE Start
  <2>1. /\ pc = "start" /\ cmd' = cmd /\ Current' = Current /\ Busy
        /\ UNCHANGED <<mem, chan, RetVal, late, pc>> \/ UNCHANGED <<mem, chan, RetVal, late>>
        /\ job' = [job EXCEPT !["stall"] = {}, ![cmd.mode] = {JobOf(cmd, Current)}]
    BY <1>2, StartCurrent
  <2>2. cmd.mode \in Modes
    BY <2>1, AtCommand, CommandFacts
  <2>3. ~Served'
    BY <2>1, <2>2 DEF Served, TypeInv, Modes
  <2>4. Started(cmd.channel)
    BY <2>1, <2>3 DEF Started
  <2> QED
    BY <1>1, <2>1, <2>4
<1>3. CASE Serve
  <2>0. ~late
    BY <1>3 DEF Serve, history
  <2> QED
    BY <1>3, <2>0, ServeCurrent, SameStarted
<1>4. CASE ServeChannel
  <2>0. ~late
    BY <1>4 DEF ServeChannel, history
  <2>1. /\ pc = "poll" /\ Current.for # "ocp" /\ cmd.channel \in Channels /\ cmd.mode = "alive" /\ SameAccess
        /\ UNCHANGED mem /\ job["alive"] # {}
        /\ chan' = IF Current.op = "write" /\ Current.for # "enable"
                   THEN [chan EXCEPT ![cmd.channel] = [op |-> Current.for, done |-> FALSE,
                                                       reg |-> cmd.addr, data |-> result["alive"]]]
                   ELSE chan
    BY <1>4, <2>0, ServeChannelCurrent
  <2>2. cmd' = cmd /\ Current' = Current /\ Busy
    BY <2>1, SameStarted DEF Busy
  <2>3. Current.for \in Ops /\ Current.op \in Ops
    BY <2>2, AtCommand DEF Started, AccessType
  <2>4. CASE Current.op = "read"
    <3>1. Started(cmd.channel) /\ chan' = chan
      BY <2>1, <2>2, <2>3, <2>4 DEF Started
    <3> QED
      BY <1>1, <2>1, <2>2, <3>1 DEF SameAccess
  <2>5. CASE Current.op = "write"
    <3>1. ~chan'[cmd.channel].done /\ chan'[cmd.channel].data = result["alive"]
      BY <1>0, <2>1, <2>3, <2>5 DEF Ops
    <3>2. Current.for # "read" => result["alive"] = SetVal(cmd, RetVal) \cap Bits(cmd.size)
      BY <2>0, <2>1, <2>3, <2>5 DEF DataInv, Ops
    <3> QED
      BY <2>1, <2>2, <3>1, <3>2 DEF ChanInv, SameAccess
  <2> QED
    BY <2>3, <2>4, <2>5 DEF Ops
<1>5. CASE ChannelDone
  <2>0. ~late
    BY <1>5 DEF ChannelDone, history
  <2> DEFINE q == chan[cmd.channel]
  <2>1. /\ cmd.channel \in Channels /\ SameAccess
        /\ q.op = Current.for /\ q.reg = cmd.addr
        /\ chan' = [chan EXCEPT ![cmd.channel].done = TRUE,
                                ![cmd.channel].data = IF q.op = "read" THEN mem[cmd.channel][q.reg] ELSE @]
        /\ mem' = IF q.op = "write" THEN [mem EXCEPT ![cmd.channel][q.reg] = q.data] ELSE mem
    BY <1>5, <2>0, ChannelDoneCurrent
  <2>2. cmd' = cmd /\ Current' = Current
    BY <2>1, SameStarted
  <2>3. chan'[cmd.channel].done /\ (Current.for = "read" => chan'[cmd.channel].data = mem[cmd.channel][cmd.addr])
    BY <1>0, <2>1
  <2>4. Current.for = "read" => mem' = mem
    BY <2>1
  <2> QED
    BY <2>2, <2>3, <2>4 DEF ChanInv
<1>6. CASE PollBusy \/ UNCHANGED vars
  BY <1>1, <1>6, StillStep DEF SameAccess
<1>7. CASE PollDone
  <2>1. /\ Busy /\ Served /\ cmd' = cmd /\ UNCHANGED <<mem, chan, late>> /\ Return(result[cmd.mode], {}) /\ pc = "poll"
    BY <1>7, PollDoneCurrent
  <2>2. pc' = "start" /\ Current'.op = "read" /\ Current'.for \in Ops
    <3>1. pc' # "poll"
      BY <1>7, PollDoneNext
    <3> QED
      BY <3>1 DEF Started, Served, Busy
  <2>3. Current.for # "ocp" /\ Fits(Current, cmd) /\ Current.op \in Ops
    BY <2>1, AtCommand DEF Fits, AccessType
  <2>4. Current.for \in Ops /\ Current'.for = Current.for /\ (Current.op = "read" => Current' = Current)
        /\ UNCHANGED RetVal
    <3>1. \/ Current.for \in Ops /\ Current.op = "read" /\ Current' = Current /\ UNCHANGED RetVal
          \/ Current.for \in Ops /\ Current.op = "write" /\ Current' = Access("read", 0, Current.for)
      BY <1>7, <2>2, <2>3, PollDoneNext DEF Access
    <3>2. Current.op = "write" => UNCHANGED RetVal
      BY <2>1, <2>3 DEF Return, ReturnChannel, Fits, Current
    <3> QED
      BY <3>1, <3>2 DEF Access
  <2>5. Started(cmd.channel)
    BY <2>1, <2>4 DEF Started
  <2> QED
    BY <2>1, <2>4, <2>5 DEF ChanInv
<1>8. CASE NextCommand
  <2>1. Busy' /\ Current'.for \in Ops
    BY DEF Started
  <2>2. cmd'.channel \in Channels
    BY <1>8, <2>1, NextCommandFirst, CommandFacts
  <2> QED
    BY <1>8, <2>1, <2>2, NextCommandFirst
<1>9. CASE Receive \/ GiveUp
  BY <1>9 DEF Receive, GiveUp, Started, Busy
<1> QED
  BY <1>2, <1>3, <1>4, <1>5, <1>6, <1>7, <1>8, <1>9 DEF Next, Firmware


\* The word at the lower place of a double word is itself.
LEMMA LowerHalf == \A value \in SUBSET Bits("dword") : AtHalf(value, 0) = value
<1> SUFFICES ASSUME NEW value \in SUBSET Bits("dword") PROVE AtHalf(value, 0) = value
  OBVIOUS
<1>1. \A b \in value : b + 0 * 2 * ByteBits = b
  BY BitsFacts
<1> QED
  BY <1>1 DEF AtHalf

\* What a served read of a unit adds is the next of the words to merge.
LEMMA ReadGrows ==
  ASSUME TypeInv, ChainInv, ReadInv, MemInv, RetInv, ~late, PollDone,
         Partial(cmd), cmd.rw = "write", Current.for = "ocp", Current.op = "read"
  PROVE  RetVal' = Value(cmd, Meant(k - 1), IF cmd.mode = "stall" THEN Current.half + 1 ELSE Size(cmd))
<1>1. Busy /\ Served /\ Return(result[cmd.mode], {})
  BY PollDoneCurrent
<1>2. /\ cmd \in Commands /\ cmd.mode \in Modes /\ Current.half \in 0..Halves(cmd) - 1 /\ Size(cmd) \in {1, 2}
      /\ cmd.channel = "ocp"
  BY <1>1, AtCommand, CommandFacts DEF Fits
<1>3. RetVal' = RetVal \cup AtHalf(result[cmd.mode], Current.half)
  BY <1>1, <1>2 DEF Return, ReturnOCP, Current
<1>4. StoredWords = 0
  BY DEF StoredWords
<1>5. RetVal = Value(cmd, Meant(k - 1), Current.half)
  BY <1>1 DEF RetInv
<1>6. CASE cmd.mode = "stall"
  <2>1. Current.half \in 0..Size(cmd) - 1 /\ Current.half \in Nat
    BY <1>2, <1>6 DEF Halves
  <2>2. result[cmd.mode] = Meant(k - 1)[Space(cmd)][cmd.addr + Current.half]
    BY <1>1, <1>4, <1>6, <2>1, NoneStored DEF ReadInv
  <2> QED
    BY <1>3, <1>5, <1>6, <2>1, <2>2, ValueGrows
<1>7. CASE cmd.mode # "stall"
  <2>1. Current.half = 0
    BY <1>2, <1>7 DEF Halves
  <2>2. result[cmd.mode] = Value(cmd, mem, Size(cmd))
    BY <1>1, <1>7 DEF ReadInv
  <2>3. Value(cmd, mem, Size(cmd)) = Value(cmd, Meant(k - 1), Size(cmd))
    <3>1. Size(cmd) \in 0..Size(cmd)
      BY <1>2
    <3> QED
      BY <1>1, <1>4, <3>1, NoneStored
  <2>4. AtHalf(result[cmd.mode], 0) = result[cmd.mode] /\ RetVal = {}
    <3>1. result[cmd.mode] \in SUBSET Bits("dword")
      BY <1>2 DEF TypeInv
    <3> QED
      BY <1>5, <2>1, <3>1, LowerHalf, ValueGrows
  <2> QED
    BY <1>3, <1>7, <2>1, <2>2, <2>3, <2>4
<1> QED
  BY <1>6, <1>7

\* Every step keeps what has been read to be merged.
LEMMA RetStep ==
  ASSUME Routed, TypeInv, ChainInv, OnTimeInv, ReadInv, MemInv, RetInv, [Next]_vars
  PROVE  RetInv'
<1> SUFFICES ASSUME ~late', Busy', Partial(cmd'), cmd'.rw = "write", Current'.for \in {"ocp", "write"}
             PROVE  RetInv'
  BY DEF RetInv
<1>1. ASSUME cmd' = cmd, Current' = Current, Busy, UNCHANGED <<ptestio_cmd, k, before, RetVal, late>>
      PROVE  RetInv'
  BY <1>1 DEF RetInv, Meant
<1>2. CASE SameAccess
  BY <1>1, <1>2, SameStarted DEF SameAccess
<1>3. CASE PollBusy \/ UNCHANGED vars
  BY <1>2, <1>3, StillStep
<1>4. CASE Serve \/ ServeChannel \/ ChannelDone
  BY <1>2, <1>4 DEF Serve, ServeChannel, ChannelDone, fwVars, history, SameAccess
<1>5. CASE Start
  BY <1>1, <1>5, StartCurrent
<1>6. CASE NextCommand
  <2>1. RetVal' = {} /\ Current' = First(cmd') /\ cmd' \in Commands
    BY <1>6, NextCommandFirst
  <2>2. Current' = Access("read", 0, "ocp")
    BY <2>1, CommandFacts DEF First, Access
  <2>3. RetVal' = Value(cmd', Meant(k - 1)', 0)
    BY <2>1, ValueGrows
  <2> QED
    BY <2>2, <2>3 DEF RetInv, Access
<1>7. CASE PollDone
  <2>1. /\ Busy /\ Served /\ cmd' = cmd /\ Return(result[cmd.mode], {}) /\ pc = "poll" /\ ~late
        /\ UNCHANGED <<ptestio_cmd, k, before, late>>
    BY <1>7, PollDoneCurrent
  <2>2. /\ cmd \in Commands /\ cmd.mode \in Modes /\ Fits(Current, cmd) /\ Current \in AccessType
        /\ Current.half \in 0..Halves(cmd) - 1 /\ Size(cmd) \in {1, 2}
        /\ cmd.channel # "ocp" => cmd.channel \in Channels /\ cmd.mode = "alive" /\ cmd.size = "word"
    BY <2>1, AtCommand, CommandFacts
  <2>3. \A n : Meant(n)' = Meant(n)
    BY <2>1 DEF Meant
  <2>4. ASSUME NEW n, RetVal' = Value(cmd, Meant(k - 1), n),
               n = IF Current'.for = "ocp" /\ Current'.op = "read" THEN Current'.half ELSE Size(cmd)
        PROVE  RetInv'
    <3>1. Meant(k - 1)' = Meant(k - 1)
      BY <2>1 DEF Meant
    <3> QED
      BY <2>1, <2>4, <3>1 DEF RetInv
  <2>5. Current.op = "write" => UNCHANGED RetVal
    BY <2>1 DEF Return, ReturnOCP, ReturnChannel, Current
  <2>6. ASSUME Current'.op = "write" \/ Current'.for = "write", Current.for \in {"ocp", "write"}, Current.op = "write"
        PROVE  RetInv'
    BY <2>1, <2>4, <2>5, <2>6 DEF RetInv
  <2>7. CASE Current.for \in Ops /\ Current.op = "read" /\ Current' = Current /\ UNCHANGED RetVal
    BY <1>1, <2>1, <2>7
  <2>8. CASE Current.for = "ocp" /\ Current.half + 1 < Halves(cmd) /\ Current' = Access(Current.op, Current.half + 1, "ocp")
    <3>1. Current.op = "write" => RetInv'
      BY <2>6, <2>8 DEF Access
    <3>2. Current.op = "read" => RetInv'
      <4>1. cmd.mode = "stall"
        BY <2>2, <2>8 DEF Halves
      <4> QED
        BY <1>7, <2>1, <2>4, <2>8, <4>1, ReadGrows DEF Access
    <3> QED
      BY <2>2, <3>1, <3>2 DEF AccessType, Ops
  <2>9. CASE /\ Current.for = "ocp" /\ Current.half + 1 = Halves(cmd) /\ Current.op = "read"
             /\ Current' = Access("write", 0, "ocp")
    <3>1. RetVal' = Value(cmd, Meant(k - 1), Size(cmd))
      BY <1>7, <2>1, <2>9, ReadGrows DEF Halves
    <3> QED
      BY <2>4, <2>9, <3>1 DEF Access
  <2>10. CASE Current.for \in Ops /\ Current.op = "write" /\ Current' = Access("read", 0, Current.for)
    BY <2>6, <2>10 DEF Access, Ops
  <2>11. CASE /\ Current.for = "read" /\ Current.op = "read" /\ Polled(result[cmd.mode])
              /\ Current' = Access("write", 0, "write")
    <3>1. cmd.channel # "ocp" /\ Space(cmd) = cmd.channel /\ cmd.mode = "alive" /\ Size(cmd) = 1
      BY <2>2, <2>11 DEF Fits, Space, Size
    <3>2. RetVal' = Half(result["alive"], 0)
      BY <2>1, <2>11, <3>1 DEF Return, ReturnChannel, Current
    <3>3. Half(result["alive"], 0) = mem[Space(cmd)][cmd.addr]
      BY <2>1, <2>11, <3>1 DEF ReadInv
    <3>4. mem[Space(cmd)][cmd.addr] = Meant(k - 1)[Space(cmd)][cmd.addr]
      <4>1. StoredWords = 0
        BY <2>11 DEF StoredWords
      <4>2. 0 \in 0..Size(cmd) - 1 /\ cmd.addr + 0 = cmd.addr
        BY <2>2, <3>1, CommandFacts
      <4> QED
        BY <2>1, <4>1, <4>2, NoneStored
    <3>5. RetVal' = Value(cmd, Meant(k - 1), 1)
      <4>1. cmd.addr + 0 = cmd.addr /\ mem[Space(cmd)][cmd.addr] \in SUBSET Bits("dword")
        <5>1. cmd.addr \in Words /\ Space(cmd) \in Spaces /\ cmd.addr \in Nat
          BY <2>2, CommandFacts
        <5> QED
          BY <5>1, BitsFacts DEF TypeInv
      <4>2. Value(cmd, Meant(k - 1), 0 + 1) = Value(cmd, Meant(k - 1), 0) \cup AtHalf(Meant(k - 1)[Space(cmd)][cmd.addr + 0], 0)
            /\ Value(cmd, Meant(k - 1), 0) = {}
        BY ValueGrows
      <4>3. AtHalf(Meant(k - 1)[Space(cmd)][cmd.addr + 0], 0) = Half(result["alive"], 0)
        BY <3>3, <3>4, <4>1, LowerHalf
      <4> QED
        BY <3>2, <4>2, <4>3
    <3> QED
      BY <2>4, <2>11, <3>1, <3>5 DEF Access
  <2> QED
    BY <1>7, <2>1, <2>7, <2>8, <2>9, <2>10, <2>11, PollDoneNext DEF Busy, Access
<1>8. CASE Receive \/ GiveUp
  BY <1>8 DEF Receive, GiveUp, Busy
<1> QED
  BY <1>3, <1>4, <1>5, <1>6, <1>7, <1>8 DEF Next, Firmware

\* What a unit writes is what the command is meant to leave in those words.
LEMMA ServedWrite ==
  ASSUME TypeInv, ChainInv, OnTimeInv, DataInv, MemInv, RetInv, ~late, Serve, Current.op = "write"
  PROVE  \A s \in Spaces, x \in Words :
           mem'[s][x] = IF s = Space(cmd) /\ x \in cmd.addr + Current.half .. cmd.addr + Current.half + Span(cmd) - 1
                        THEN Written(cmd, Meant(k - 1)[Space(cmd)])[x] ELSE mem[s][x]
<1> DEFINE j   == JobOf(cmd, Current)
           h   == Current.half
           old == UNION {AtHalf(mem[j.dev][j.addr + g], g) : g \in 0..j.words - 1}
           new == (old \ j.enabled) \cup (result[cmd.mode] \cap j.enabled)
<1>1. /\ pc = "poll" /\ Current.for = "ocp" /\ cmd.channel = "ocp" /\ job[cmd.mode] # {}
      /\ mem' = [mem EXCEPT ![j.dev] = [a \in Words |-> IF a \in j.addr .. j.addr + j.words - 1
                                                        THEN Half(new, a - j.addr) ELSE mem[j.dev][a]]]
  BY ServeCurrent
<1>2. Busy /\ ~Served
  BY <1>1 DEF Busy, Served
<1>3. /\ cmd \in Commands /\ Current.half \in 0..Halves(cmd) - 1 /\ cmd.rw = "write" /\ cmd.mode \in Modes
      /\ k \in 1..Len(ptestio_cmd)
      /\ cmd.addr \in Nat /\ Space(cmd) \in Spaces /\ Size(cmd) \in {1, 2}
  BY <1>1, <1>2, AtCommand, CommandFacts DEF Fits
<1>4. j.dev = Space(cmd) /\ j.addr = cmd.addr + h /\ j.words = Span(cmd)
      /\ j.enabled = IF cmd.mode = "stall" THEN WordBits ELSE Enabled(cmd)
  BY DEF JobOf, Span
<1>5. Meant(k - 1) \in Memories /\ mem \in Memories
  <2>1. k - 1 \in 0..Len(ptestio_cmd)
    BY <1>3 DEF TypeInv
  <2> QED
    BY <2>1, MeantSteps DEF MemInv, TypeInv, Memories
<1>6. Partial(cmd) => RetVal = Value(cmd, Meant(k - 1), Size(cmd))
  BY <1>1, <1>2, <1>3 DEF RetInv
<1>7. ASSUME NEW x \in cmd.addr + h .. cmd.addr + h + Span(cmd) - 1
      PROVE  Half(new, x - j.addr) = Written(cmd, Meant(k - 1)[Space(cmd)])[x]
  <2>1. CASE cmd.mode = "stall"
    <3>1. h \in 0..Size(cmd) - 1 /\ x = cmd.addr + h /\ x - j.addr = 0 /\ Span(cmd) = 1
      BY <1>3, <1>4, <1>7, <2>1 DEF Halves, Span
    <3>2. result[cmd.mode] = Half(SetVal(cmd, RetVal), h)
      BY <1>1, <2>1 DEF DataInv
    <3>3. Half(SetVal(cmd, RetVal), h) = Written(cmd, Meant(k - 1)[Space(cmd)])[x]
      BY <1>3, <1>5, <1>6, <3>1, SetHalf
    <3>4. result[cmd.mode] \subseteq WordBits
      BY <2>1 DEF TypeInv
    <3>5. old \subseteq WordBits
      <4>1. cmd.addr + h \in Words /\ cmd.addr + h + 0 = cmd.addr + h
        BY <1>3, <3>1, WordsOf
      <4>2. mem[Space(cmd)][cmd.addr + h] \in SUBSET WordBits /\ WordBits \subseteq Bits("dword")
        BY <1>3, <1>5, <4>1, BitsFacts DEF Memories
      <4>3. AtHalf(mem[Space(cmd)][cmd.addr + h], 0) = mem[Space(cmd)][cmd.addr + h]
        BY <4>2, LowerHalf
      <4>4. 0..1 - 1 = {0}
        OBVIOUS
      <4>5. old = AtHalf(mem[Space(cmd)][cmd.addr + h], 0)
        BY <1>4, <3>1, <4>1, <4>4
      <4> QED
        BY <4>2, <4>3, <4>5
    <3>6. new = result[cmd.mode]
      BY <1>4, <2>1, <3>4, <3>5
    <3>7. Half(result[cmd.mode], 0) = result[cmd.mode]
      <4>1. \A b \in WordBits : b + 0 * 2 * ByteBits = b
        BY BitsFacts
      <4> QED
        BY <3>4, <4>1 DEF Half
    <3> QED
      BY <3>1, <3>2, <3>3, <3>6, <3>7
  <2>2. CASE cmd.mode = "alive"
    <3>1. h = 0 /\ Span(cmd) = Size(cmd) /\ cmd.addr + h = cmd.addr
      BY <1>3, <2>2 DEF Halves, Span
    <3>2. PICK g \in 0..Size(cmd) - 1 : x = cmd.addr + g /\ x - j.addr = g
      <4>1. x - cmd.addr \in 0..Size(cmd) - 1 /\ x = cmd.addr + (x - cmd.addr)
        BY <1>3, <1>7, <3>1
      <4> QED
        BY <1>4, <3>1, <4>1
    <3>3. result[cmd.mode] = SetVal(cmd, RetVal) \cap Bits(cmd.size)
      BY <1>1, <2>2 DEF DataInv
    <3>4. old = Value(cmd, Meant(k - 1), Size(cmd))
      <4>1. old = Value(cmd, mem, Size(cmd))
        BY <1>4, <3>1 DEF Value
      <4>2. StoredWords = 0 /\ Size(cmd) \in 0..Size(cmd)
        BY <1>1, <1>2, <1>3, <3>1 DEF StoredWords
      <4> QED
        BY <1>2, <4>1, <4>2, NoneStored
    <3> HIDE DEF old
    <3>5. Half((Value(cmd, Meant(k - 1), Size(cmd)) \ Enabled(cmd))
                 \cup ((SetVal(cmd, RetVal) \cap Bits(cmd.size)) \cap Enabled(cmd)), g)
            = Written(cmd, Meant(k - 1)[Space(cmd)])[cmd.addr + g]
      BY <1>3, <1>5, <1>6, MergeWrites
    <3> QED
      BY <1>4, <2>2, <3>2, <3>3, <3>4, <3>5
  <2> QED
    BY <1>3, <2>1, <2>2 DEF Modes
<1> HIDE DEF new, j
<1> QED
  BY <1>1, <1>3, <1>4, <1>5, <1>7 DEF Memories

\* What a channel writes is what the command is meant to leave in that word.
LEMMA ChannelWrite ==
  ASSUME TypeInv, ChainInv, OnTimeInv, ChanInv, MemInv, RetInv, ~late, ChannelDone, Current.for = "write"
  PROVE  \A s \in Spaces, x \in Words :
           mem'[s][x] = IF s = Space(cmd) /\ x = cmd.addr
                        THEN Written(cmd, Meant(k - 1)[Space(cmd)])[x] ELSE mem[s][x]
<1> DEFINE q == chan[cmd.channel]
<1>1. /\ Busy /\ cmd.channel \in Channels /\ Started(cmd.channel) /\ ~q.done
      /\ q.op = Current.for /\ q.reg = cmd.addr /\ Space(cmd) = cmd.channel
      /\ mem' = IF q.op = "write" THEN [mem EXCEPT ![cmd.channel][q.reg] = q.data] ELSE mem
  BY ChannelDoneCurrent
<1>2. /\ cmd \in Commands /\ cmd.rw = "write" /\ k \in 1..Len(ptestio_cmd)
      /\ cmd.addr \in Nat /\ cmd.addr \in Words /\ Space(cmd) \in Spaces /\ cmd.channel # "ocp"
      /\ Size(cmd) = 1 /\ cmd.size = "word"
  <2>1. cmd.channel # "ocp"
    BY <1>1 DEF Channels, Phys
  <2> QED
    BY <1>1, <2>1, AtCommand, CommandFacts DEF Size
<1>3. Meant(k - 1) \in Memories /\ mem \in Memories
  <2>1. k - 1 \in 0..Len(ptestio_cmd)
    BY <1>2 DEF TypeInv
  <2> QED
    BY <2>1, MeantSteps DEF MemInv, TypeInv, Memories
<1>4. Partial(cmd) => RetVal = Value(cmd, Meant(k - 1), Size(cmd))
  BY <1>1, <1>2 DEF RetInv
<1>5. q.data = SetVal(cmd, RetVal) \cap WordBits
  BY <1>1, <1>2 DEF ChanInv, WordBits
<1>6. q.data = Half(SetVal(cmd, RetVal), 0)
  <2>1. \A b \in WordBits : b + 0 * 2 * ByteBits = b
    BY BitsFacts
  <2> QED
    BY <1>5, <2>1 DEF Half
<1>7. Half(SetVal(cmd, RetVal), 0) = Written(cmd, Meant(k - 1)[Space(cmd)])[cmd.addr]
  <2>1. 0 \in 0..Size(cmd) - 1 /\ cmd.addr + 0 = cmd.addr
    BY <1>2
  <2> QED
    BY <1>2, <1>3, <1>4, <2>1, SetHalf
<1> HIDE DEF q
<1> QED
  BY <1>1, <1>2, <1>3, <1>6, <1>7 DEF Memories

\* What is stored when an access is over.
LEMMA AllStored ==
  ASSUME TypeInv, ChainInv, OnTimeInv, ReadInv, MemInv, ~late, PollDone, pc' = "next"
  PROVE  \A s \in Spaces, x \in Words : mem[s][x] = Meant(k)[s][x]
<1>1. Busy /\ Served
  BY PollDoneCurrent
<1>2. /\ cmd \in Commands /\ Current.half \in 0..Halves(cmd) - 1 /\ Size(cmd) \in {1, 2} /\ Fits(Current, cmd)
      /\ Current \in AccessType
      /\ cmd.channel # "ocp" => cmd.mode = "alive" /\ cmd.size = "word"
  BY <1>1, AtCommand, CommandFacts
<1>3. StoredWords \in Nat /\ (StoredWords = Size(cmd) \/ cmd.rw = "read")
  <2>1. CASE Current.for = "ocp" /\ Current.half + 1 = Halves(cmd) /\ (Current.op = "write" \/ cmd.rw = "read")
    BY <1>1, <1>2, <2>1 DEF StoredWords, Halves, Span
  <2>2. CASE /\ Current.for \in Ops /\ Current.op = "read" /\ Polled(result[cmd.mode])
             /\ Current.for = "write" \/ cmd.rw = "read"
    <3>1. Current.for # "ocp" /\ cmd.channel # "ocp" /\ Size(cmd) = 1
      BY <1>2, <2>2 DEF Ops, Fits, Size
    <3>2. chan[cmd.channel].done /\ Started(cmd.channel)
      BY <1>1, <1>2, <2>2, <3>1 DEF ReadInv, Started
    <3> QED
      BY <2>2, <3>1, <3>2 DEF StoredWords
  <2> QED
    BY <2>1, <2>2, PollDoneNext
<1> QED
  BY <1>1, <1>3, PartlyEnds DEF MemInv

\* The next access of a command has stored as much as the one before.
LEMMA SameStored ==
  ASSUME TypeInv, ChainInv, PollDone, pc' = "start"
  PROVE  StoredWords' = StoredWords
<1>1. Busy /\ Served /\ cmd' = cmd /\ UNCHANGED <<chan, mem>> /\ Busy' /\ ~Served'
  BY PollDoneCurrent DEF Busy, Served
<1>2. /\ cmd \in Commands /\ Current.half \in 0..Halves(cmd) - 1 /\ Size(cmd) \in {1, 2} /\ Fits(Current, cmd)
      /\ Current \in AccessType
  BY <1>1, AtCommand, CommandFacts
<1>3. StoredWords = IF Current.for = "ocp"
                      THEN IF Current.op = "read" THEN 0 ELSE Current.half + Span(cmd)
                      ELSE IF Current.for = "write" /\ chan[cmd.channel].done THEN 1 ELSE 0
  BY <1>1, <1>2 DEF StoredWords, Started, AccessType, Ops
<1>4. StoredWords' = IF Current'.for = "ocp"
                       THEN IF Current'.op = "read" THEN 0 ELSE Current'.half + 0
                       ELSE IF Current'.for = "write" /\ Current'.op = "read" /\ chan[cmd.channel].done THEN 1 ELSE 0
  BY <1>1 DEF StoredWords, Started, Ops
<1>5. CASE Current.for \in Ops /\ Current.op = "read" /\ Current' = Current
  BY <1>3, <1>4, <1>5 DEF Ops
<1>6. CASE Current.for = "ocp" /\ Current.half + 1 < Halves(cmd) /\ Current' = Access(Current.op, Current.half + 1, "ocp")
  <2>1. Span(cmd) = 1 /\ Current.op \in {"read", "write"}
    BY <1>2, <1>6 DEF Halves, Span, AccessType, Ops
  <2> QED
    BY <1>2, <1>3, <1>4, <1>6, <2>1 DEF Access
<1>7. CASE Current.for = "ocp" /\ Current.op = "read" /\ Current' = Access("write", 0, "ocp")
  BY <1>3, <1>4, <1>7 DEF Access
<1>8. CASE Current.for = "enable" /\ Current' = Access("write", 0, "read")
  BY <1>3, <1>4, <1>8 DEF Access
<1>9. CASE Current.for \in Ops /\ Current.op = "write" /\ Current' = Access("read", 0, Current.for)
  BY <1>3, <1>4, <1>9 DEF Access, Ops
<1>10. CASE Current.for = "read" /\ Current.op = "read" /\ Current' = Access("write", 0, "write")
  BY <1>3, <1>4, <1>10 DEF Access
<1> QED
  BY <1>5, <1>6, <1>7, <1>8, <1>9, <1>10, PollDoneNext

\* Every step keeps the memory as meant.
LEMMA MemStep ==
  ASSUME Routed, TypeInv, IInv, ChainInv, LeftInv, OnTimeInv, ReadInv, DataInv, ChanInv, MemInv, RetInv,
         [Next]_vars
  PROVE  MemInv'
<1>1. mem \in Memories /\ before' \in Memories
  <2>1. mem \in Memories /\ before \in Memories
    BY DEF TypeInv, MemInv, Memories
  <2>2. CASE Receive
    BY <2>1, <2>2 DEF Receive
  <2>3. CASE ~Receive
    <3>1. UNCHANGED before
      BY <2>3 DEF Next, Firmware, NextCommand, Start, PollBusy, PollDone, GiveUp, Serve, ServeChannel,
                  ChannelDone, vars, history
    <3> QED
      BY <2>1, <3>1
  <2> QED
    BY <2>1, <2>2, <2>3
<1> SUFFICES ASSUME ~late', NEW s \in Spaces, NEW x \in Words
             PROVE  mem'[s][x] = IF Busy' THEN Partly(StoredWords, s, x)' ELSE Meant(k)'[s][x]
  BY <1>1 DEF MemInv
<1>2. ASSUME UNCHANGED <<ptestio_cmd, k, before, mem, late>>, cmd' = cmd, Busy, Busy', StoredWords' = StoredWords
      PROVE  mem'[s][x] = Partly(StoredWords, s, x)'
  <2>1. Meant(k)' = Meant(k) /\ Meant(k - 1)' = Meant(k - 1)
    BY <1>2 DEF Meant
  <2> QED
    BY <1>2, <2>1 DEF MemInv, Partly
<1>3. CASE Receive
  <2>1. k' = 0 /\ ~Busy' /\ mem' = mem /\ before' = mem
    BY <1>3 DEF Receive, targetVars, Busy
  <2>2. ptestio_cmd' \in Seq(Commands)
    BY TypeStep DEF TypeInv
  <2>3. Meant(k)' = before'
    BY <1>1, <2>1, <2>2, AfterSteps DEF Meant
  <2> QED
    BY <2>1, <2>3
<1>4. CASE NextCommand
  <2>1. pc = "next" /\ UNCHANGED <<ptestio_cmd, mem, before, late>> /\ ~Busy
    BY <1>4 DEF NextCommand, targetVars, history, Busy
  <2>2. mem[s][x] = Meant(k)[s][x]
    BY <2>1 DEF MemInv
  <2>3. CASE Busy'
    <3>1. /\ k' = k + 1 /\ k' \in 1..Len(ptestio_cmd) /\ cmd' \in Commands /\ Current' = First(cmd') /\ ~Served'
          /\ \A ch \in Channels : ~Started(ch)'
      BY <1>4, <2>3, NextCommandFirst
    <3>2. StoredWords' = 0
      <4>1. CASE Current'.for = "ocp"
        BY <3>1, <4>1 DEF StoredWords, First, Access
      <4>2. CASE Current'.for # "ocp"
        <5>1. cmd'.channel \in Channels
          BY <3>1, <4>2, CommandFacts DEF First, Access
        <5> QED
          BY <3>1, <4>2, <5>1 DEF StoredWords
      <4> QED
        BY <4>1, <4>2
    <3>3. cmd' = ptestio_cmd[k + 1] /\ k + 1 \in 1..Len(ptestio_cmd) /\ k \in Nat /\ k + 1 - 1 = k
      BY <2>1, <3>1, KType DEF cmd
    <3>4. Meant(k)' = Meant(k + 1) /\ Meant(k - 1)' = Meant(k)
      BY <2>1, <3>1, <3>3 DEF Meant
    <3>5. Meant(k + 1) = Stored(cmd', Meant(k)) /\ Meant(k) \in Memories
      <4>1. k \in 0..Len(ptestio_cmd)
        BY DEF TypeInv
      <4>2. Meant(k + 1) = Stored(ptestio_cmd[k + 1], Meant(k + 1 - 1)) /\ Meant(k) \in Memories
        BY <3>3, <4>1, MeantSteps DEF MemInv
      <4> QED
        BY <3>3, <4>2
    <3>6. x < cmd'.addr => Meant(k + 1)[s][x] = Meant(k)[s][x]
      <4>1. cmd'.addr \in Nat /\ x \in Nat /\ Size(cmd') \in {1, 2}
        BY <3>1, CommandFacts, TestIoAssumption
      <4>2. x < cmd'.addr => x \notin cmd'.addr .. cmd'.addr + Size(cmd') - 1
        BY <4>1
      <4> QED
        BY <3>1, <3>5, <4>2, StoredType
    <3>7. Partly(StoredWords, s, x)' = IF s = Space(cmd') /\ x < cmd'.addr + 0 THEN Meant(k + 1)[s][x] ELSE Meant(k)[s][x]
      BY <3>2, <3>4 DEF Partly
    <3>8. cmd'.addr + 0 = cmd'.addr
      BY <3>1, CommandFacts
    <3> QED
      BY <2>1, <2>2, <2>3, <3>6, <3>7, <3>8
  <2>4. CASE ~Busy'
    <3>1. k' = k
      BY <1>4, <2>4 DEF NextCommand, Busy
    <3>2. Meant(k)' = Meant(k)
      BY <2>1, <3>1 DEF Meant
    <3> QED
      BY <2>1, <2>2, <2>4, <3>2
  <2> QED
    BY <2>3, <2>4
<1>5. CASE Start
  <2>1. /\ pc = "start" /\ cmd' = cmd /\ Current' = Current /\ Busy /\ Busy'
        /\ UNCHANGED <<ptestio_cmd, k, mem, chan, before, late>>
        /\ job' = [job EXCEPT !["stall"] = {}, ![cmd.mode] = {JobOf(cmd, Current)}]
    BY <1>5, StartCurrent
  <2>2. cmd.mode \in Modes
    BY <2>1, AtCommand, CommandFacts
  <2>3. ~Served /\ ~Served'
    BY <2>1, <2>2 DEF Served, TypeInv, Modes
  <2>4. StoredWords' = StoredWords
    BY <2>1, <2>3 DEF StoredWords, Started
  <2> QED
    BY <1>2, <2>1, <2>4
<1>6. CASE PollBusy \/ UNCHANGED vars
  <2>1. /\ SameAccess /\ UNCHANGED <<mem, chan>> /\ cmd' = cmd /\ Current' = Current /\ Busy' = Busy
        /\ Served' = Served /\ \A ch : Started(ch)' = Started(ch)
    BY <1>6, StillStep
  <2>2. CASE Busy
    <3>1. StoredWords' = StoredWords
      BY <2>1 DEF StoredWords
    <3> QED
      BY <1>2, <2>1, <2>2, <3>1 DEF SameAccess
  <2>3. CASE ~Busy
    BY <2>1, <2>3 DEF SameAccess, MemInv, Meant
  <2> QED
    BY <2>2, <2>3
<1>7. CASE Serve
  <2>0. ~late
    BY <1>7 DEF Serve, history
  <2>1. /\ pc = "poll" /\ Current.for = "ocp" /\ job[cmd.mode] # {} /\ SameAccess
        /\ job' = [job EXCEPT ![cmd.mode] = {}]
    BY <1>7, <2>0, ServeCurrent
  <2>2. cmd' = cmd /\ Current' = Current /\ Busy /\ Busy' /\ ~Served
    BY <2>1, SameStarted DEF Busy, Served
  <2>3. Current.op \in {"read", "write"} /\ cmd.mode \in Modes /\ cmd \in Commands
        /\ Current.half \in 0..Halves(cmd) - 1
    BY <2>2, AtCommand, CommandFacts DEF AccessType, Ops
  <2>4. Served'
    BY <2>1, <2>2, <2>3 DEF Served, SameAccess, TypeInv
  <2>5. CASE Current.op = "read"
    <3>1. UNCHANGED mem
      BY <1>7, <2>0, <2>5, ServedRead
    <3>2. StoredWords' = StoredWords
      BY <2>1, <2>2, <2>5 DEF StoredWords
    <3> QED
      BY <1>2, <2>1, <2>2, <3>1, <3>2 DEF SameAccess
  <2>6. CASE Current.op = "write"
    <3>1. StoredWords = Current.half + 0 /\ StoredWords' = Current.half + Span(cmd)
      BY <2>1, <2>2, <2>4, <2>6 DEF StoredWords, Span, Size
    <3>2. mem'[s][x] = IF s = Space(cmd) /\ x \in cmd.addr + Current.half .. cmd.addr + Current.half + Span(cmd) - 1
                       THEN Written(cmd, Meant(k - 1)[Space(cmd)])[x] ELSE mem[s][x]
      BY <1>7, <2>0, <2>6, ServedWrite
    <3>3. /\ cmd.addr \in Nat /\ Current.half \in Nat /\ Span(cmd) \in Nat /\ x \in Nat /\ cmd.rw = "write"
      <4>1. cmd.addr \in Nat /\ Size(cmd) \in {1, 2} /\ x \in Nat
        BY <2>3, CommandFacts, TestIoAssumption
      <4>2. cmd.rw = "write"
        BY <2>1, <2>2, <2>6, AtCommand DEF Fits
      <4> QED
        BY <2>3, <4>1, <4>2 DEF Halves, Span
    <3>4. Meant(k)[Space(cmd)][x] = Written(cmd, Meant(k - 1)[Space(cmd)])[x]
      BY <2>2, <3>3, PartlyEnds DEF MemInv
    <3>5. Meant(k)' = Meant(k) /\ Meant(k - 1)' = Meant(k - 1)
      BY <2>1 DEF Meant, SameAccess
    <3>6. mem[s][x] = IF s = Space(cmd) /\ x < cmd.addr + Current.half THEN Meant(k)[s][x] ELSE Meant(k - 1)[s][x]
      BY <2>0, <2>2, <3>1, <3>3 DEF MemInv, Partly
    <3>7. Partly(StoredWords, s, x)' =
            IF s = Space(cmd) /\ x < cmd.addr + (Current.half + Span(cmd)) THEN Meant(k)[s][x] ELSE Meant(k - 1)[s][x]
      BY <2>2, <3>1, <3>5 DEF Partly
    <3>8. mem'[s][x] = Partly(StoredWords, s, x)'
      <4>1. x < cmd.addr + (Current.half + Span(cmd)) <=>
              \/ x < cmd.addr + Current.half
              \/ x \in cmd.addr + Current.half .. cmd.addr + Current.half + Span(cmd) - 1
        BY <3>3
      <4>2. x \in cmd.addr + Current.half .. cmd.addr + Current.half + Span(cmd) - 1 => ~(x < cmd.addr + Current.half)
        BY <3>3
      <4> HIDE DEF Meant
      <4> QED
        BY <3>2, <3>4, <3>6, <3>7, <4>1, <4>2
    <3> QED
      BY <2>2, <3>8
  <2> QED
    BY <2>3, <2>5, <2>6
<1>8. CASE ServeChannel
  <2>0. ~late
    BY <1>8 DEF ServeChannel, history
  <2>1. /\ pc = "poll" /\ Current.for # "ocp" /\ cmd.channel \in Channels /\ cmd.mode = "alive"
        /\ job["alive"] # {} /\ UNCHANGED mem /\ SameAccess
        /\ chan' = IF Current.op = "write" /\ Current.for # "enable"
                   THEN [chan EXCEPT ![cmd.channel] = [op |-> Current.for, done |-> FALSE,
                                                       reg |-> cmd.addr, data |-> result["alive"]]]
                   ELSE chan
    BY <1>8, <2>0, ServeChannelCurrent
  <2>2. cmd' = cmd /\ Current' = Current /\ Busy /\ Busy' /\ ~Served
    BY <2>1, SameStarted DEF Busy, Served
  <2>3. Current.op \in {"read", "write"}
    BY <2>2, AtCommand DEF AccessType, Ops
  <2>4. StoredWords' = StoredWords
    <3>1. CASE Current.for # "write"
      BY <2>1, <2>2, <3>1 DEF StoredWords
    <3>2. CASE Current.for = "write" /\ Current.op = "read"
      BY <2>1, <2>2, <3>2 DEF StoredWords, Started
    <3>3. CASE Current.for = "write" /\ Current.op = "write"
      <4>1. ~Started(cmd.channel) /\ ~chan'[cmd.channel].done
        BY <2>1, <2>2, <3>3 DEF Started, TypeInv
      <4> QED
        BY <2>1, <2>2, <3>3, <4>1 DEF StoredWords
    <3> QED
      BY <2>3, <3>1, <3>2, <3>3
  <2> QED
    BY <1>2, <2>1, <2>2, <2>4 DEF SameAccess
<1>9. CASE ChannelDone
  <2>0. ~late
    BY <1>9 DEF ChannelDone, history
  <2> DEFINE q == chan[cmd.channel]
  <2>1. /\ Busy /\ cmd.channel \in Channels /\ Started(cmd.channel) /\ ~q.done
        /\ q.op = Current.for /\ q.reg = cmd.addr /\ Space(cmd) = cmd.channel
        /\ chan' = [chan EXCEPT ![cmd.channel].done = TRUE,
                                ![cmd.channel].data = IF q.op = "read" THEN mem[cmd.channel][q.reg] ELSE @]
        /\ mem' = IF q.op = "write" THEN [mem EXCEPT ![cmd.channel][q.reg] = q.data] ELSE mem
        /\ SameAccess /\ UNCHANGED <<job, result>>
    BY <1>9, <2>0, ChannelDoneCurrent
  <2>2. cmd' = cmd /\ Current' = Current /\ Busy' /\ Started(cmd.channel)' /\ chan'[cmd.channel].done
    BY <2>1, SameStarted DEF TypeInv
  <2>3. Current.for \in {"read", "write"}
    BY <2>1 DEF Started, Ops
  <2>4. CASE Current.for = "read"
    <3>1. StoredWords' = StoredWords /\ UNCHANGED mem
      BY <2>1, <2>2, <2>4 DEF StoredWords
    <3> QED
      BY <1>2, <2>1, <2>2, <3>1 DEF SameAccess
  <2>5. CASE Current.for = "write"
    <3>1. StoredWords = 0 /\ StoredWords' = 1
      BY <2>1, <2>2, <2>5 DEF StoredWords
    <3>2. mem'[s][x] = IF s = Space(cmd) /\ x = cmd.addr
                       THEN Written(cmd, Meant(k - 1)[Space(cmd)])[x] ELSE mem[s][x]
      BY <1>9, <2>0, <2>5, ChannelWrite
    <3>3. cmd.addr \in Nat /\ x \in Nat /\ cmd.rw = "write"
      BY <2>1, <2>5, AtCommand, CommandFacts, TestIoAssumption
    <3>4. Meant(k)[Space(cmd)][x] = Written(cmd, Meant(k - 1)[Space(cmd)])[x]
      BY <2>1, <3>3, PartlyEnds DEF MemInv
    <3>5. Meant(k)' = Meant(k) /\ Meant(k - 1)' = Meant(k - 1)
      BY <2>1 DEF Meant, SameAccess
    <3>6. mem[s][x] = IF s = Space(cmd) /\ x < cmd.addr + 0 THEN Meant(k)[s][x] ELSE Meant(k - 1)[s][x]
      BY <2>0, <2>1, <3>1 DEF MemInv, Partly
    <3>7. Partly(StoredWords, s, x)' = IF s = Space(cmd) /\ x < cmd.addr + 1 THEN Meant(k)[s][x] ELSE Meant(k - 1)[s][x]
      BY <2>2, <3>1, <3>5 DEF Partly
    <3>8. mem'[s][x] = Partly(StoredWords, s, x)'
      <4>1. x < cmd.addr + 1 <=> x < cmd.addr + 0 \/ x = cmd.addr
        BY <3>3
      <4>2. x = cmd.addr => ~(x < cmd.addr + 0)
        BY <3>3
      <4> QED
        BY <3>2, <3>4, <3>6, <3>7, <4>1, <4>2
    <3> QED
      BY <2>2, <3>8
  <2> QED
    BY <2>3, <2>4, <2>5
<1>10. CASE PollDone
  <2>1. /\ Busy /\ cmd' = cmd /\ ~late /\ UNCHANGED <<ptestio_cmd, k, mem, before, late>>
    BY <1>10, PollDoneCurrent
  <2>2. CASE pc' = "next"
    <3>1. mem[s][x] = Meant(k)[s][x] /\ ~Busy'
      BY <1>10, <2>1, <2>2, AllStored DEF Busy
    <3>2. Meant(k)' = Meant(k)
      BY <2>1 DEF Meant
    <3> QED
      BY <2>1, <3>1, <3>2
  <2>3. CASE pc' = "start"
    <3>1. StoredWords' = StoredWords /\ Busy'
      BY <1>10, <2>3, SameStored DEF Busy
    <3> QED
      BY <1>2, <2>1, <3>1
  <2> QED
    BY <1>10, <2>2, <2>3, PollDoneNext
<1>11. CASE GiveUp
  BY <1>11 DEF GiveUp
<1> QED
  BY <1>3, <1>4, <1>5, <1>6, <1>7, <1>8, <1>9, <1>10, <1>11 DEF Next, Firmware

-----------------------------------------------------------------------------
(* The answers.                                                            *)

\* The response holds what the words of the n-th command held.
Answered(n) ==
    LET c == ptestio_cmd[n]
    IN  c.rw = "read" =>
          \A h \in 0..Size(c) - 1 :
            answer[DataNum(ptestio_cmd)[n - 1] + h] = {Meant(n - 1)[Space(c)][c.addr + h]}

\* It holds the answers of the commands so far, and the words a stalled read
\* has been given.
AnswerInv ==
    ~late =>
      /\ \A n \in 1..(IF Busy THEN k - 1 ELSE k) : Answered(n)
      /\ Busy /\ cmd.rw = "read" /\ cmd.mode = "stall" =>
           \A h \in 0..Current.half - 1 :
             answer[DataNum(ptestio_cmd)[k - 1] + h] = {Meant(k - 1)[Space(cmd)][cmd.addr + h]}

\* A batch ends with its last command.
EndInv == pc = "idle" => k = Len(ptestio_cmd)

\* What is stored from the place of a command on keeps the answers before.
LEMMA AnswersKept ==
  ASSUME TypeInv, k \in 1..Len(ptestio_cmd), UNCHANGED <<ptestio_cmd, before>>,
         \A p \in 0 .. 2 * MaxSet - 1 : p < DataNum(ptestio_cmd)[k - 1] => answer'[p] = answer[p]
  PROVE  \A n \in 1..k - 1 : Answered(n) => Answered(n)'
<1>1. PICK num : num = DataNum(ptestio_cmd)
  OBVIOUS
<1>2. PICK L \in Nat : L = Len(ptestio_cmd) /\ k \in 1..L
  BY DEF TypeInv
<1>3. ASSUME NEW n \in 1..k - 1, Answered(n) PROVE Answered(n)'
  <2>1. PICK c \in Commands : c = ptestio_cmd[n]
    BY <1>2 DEF TypeInv
  <2>2. num[n - 1] \in Nat /\ num[n - 1] + Width(c) <= num[k - 1] /\ num[k - 1] \in Nat
        /\ num[k - 1] + Width(ptestio_cmd[k]) <= 2 * MaxSet
    BY <1>1, <1>2, <2>1, Places DEF TypeInv
  <2>3. MaxSet \in Nat /\ Width(ptestio_cmd[k]) \in Nat /\ Size(c) \in {1, 2}
    BY TestIoAssumption, <2>1 DEF Width, Size
  <2>4. ASSUME c.rw = "read", NEW h \in 0..Size(c) - 1 PROVE answer'[num[n - 1] + h] = answer[num[n - 1] + h]
    <3>1. num[n - 1] + h < num[k - 1]
      BY <2>2, <2>3, <2>4 DEF Width
    <3>2. num[n - 1] + h \in 0 .. 2 * MaxSet - 1
      BY <2>2, <2>3, <3>1
    <3> QED
      BY <1>1, <3>1, <3>2
  <2>5. Meant(n - 1)' = Meant(n - 1)
    BY DEF Meant
  <2> QED
    BY <1>1, <1>3, <2>1, <2>4, <2>5 DEF Answered
<1> QED
  BY <1>3

\* What does not touch the response keeps the answers.
LEMMA AnswersSame ==
  ASSUME UNCHANGED <<ptestio_cmd, before, answer>>, NEW n, Answered(n)
  PROVE  Answered(n)'
<1>1. Meant(n - 1)' = Meant(n - 1)
  BY DEF Meant
<1> QED
  BY <1>1 DEF Answered

\* What a served read stores in the response: the words it was to find.
LEMMA ReadAnswers ==
  ASSUME TypeInv, ChainInv, ReadInv, MemInv, ~late, PollDone, cmd.rw = "read", Current.op = "read",
         cmd.channel = "ocp" \/ (Current.for = "read" /\ Polled(result[cmd.mode]))
  PROVE  LET at == DataNum(ptestio_cmd)[k - 1]
             word(h) == {Meant(k - 1)[Space(cmd)][cmd.addr + h]}
         IN  /\ \A p \in 0 .. 2 * MaxSet - 1 : p < at => answer'[p] = answer[p]
             /\ cmd.mode = "stall" =>
                  /\ answer'[at + Current.half] = word(Current.half)
                  /\ \A h \in 0..Current.half - 1 : answer'[at + h] = answer[at + h]
             /\ cmd.mode = "alive" => \A h \in 0..Size(cmd) - 1 : answer'[at + h] = word(h)
<1> DEFINE at == DataNum(ptestio_cmd)[k - 1]
           word(h) == {Meant(k - 1)[Space(cmd)][cmd.addr + h]}
<1>1. Busy /\ Served /\ Return(result[cmd.mode], {})
  BY PollDoneCurrent
<1>2. /\ cmd \in Commands /\ cmd = ptestio_cmd[k] /\ k \in 1..Len(ptestio_cmd) /\ Current.half \in 0..Halves(cmd) - 1
      /\ Size(cmd) \in {1, 2} /\ Fits(Current, cmd) /\ cmd.mode \in {"alive", "stall"} /\ cmd.addr \in Nat
      /\ cmd.channel # "ocp" => cmd.mode = "alive" /\ cmd.size = "word" /\ Space(cmd) = cmd.channel
      /\ (cmd.size = "dword" <=> Size(cmd) = 2)
  BY <1>1, AtCommand, CommandFacts DEF Space, Size, Modes
<1>3. PICK places : places = 0 .. 2 * MaxSet - 1 /\ answer \in [places -> SUBSET SUBSET WordBits]
  BY DEF TypeInv
<1>4. at \in Nat /\ at + Size(cmd) <= 2 * MaxSet /\ MaxSet \in Nat
  BY <1>2, Places, TestIoAssumption DEF TypeInv, Width
<1>5. \A h \in 0..Size(cmd) - 1 : at + h \in places /\ at + h \in Nat
  BY <1>2, <1>3, <1>4
<1>6. /\ \A h \in 0..Size(cmd) - 1 : word(h) = {mem[Space(cmd)][cmd.addr + h]}
      /\ Value(cmd, mem, Size(cmd)) = Value(cmd, Meant(k - 1), Size(cmd))
  <2>1. StoredWords = 0
    BY <1>2 DEF StoredWords, Fits
  <2>2. Size(cmd) \in 0..Size(cmd)
    BY <1>2
  <2> QED
    BY <1>1, <2>1, <2>2, NoneStored
<1>7. mem \in Memories
  BY DEF TypeInv, Memories
<1>8. \A p \in places : p \in Nat
  BY <1>3
<1> HIDE DEF at
<1>9. CASE cmd.channel = "ocp" /\ cmd.mode = "stall"
  <2>1. Current.half \in 0..Size(cmd) - 1
    BY <1>2, <1>9 DEF Halves
  <2>2. {result[cmd.mode]} = word(Current.half)
    BY <1>1, <1>2, <1>6, <1>9, <2>1 DEF ReadInv, Fits
  <2>3. answer' = [answer EXCEPT ![at + Current.half] = {result[cmd.mode]}]
    BY <1>1, <1>9 DEF Return, ReturnOCP, Current, at
  <2>4. \A p \in places : answer'[p] = IF p = at + Current.half THEN word(Current.half) ELSE answer[p]
    BY <1>3, <2>2, <2>3
  <2>5. \A h \in 0..Current.half - 1 : h \in 0..Size(cmd) - 1 /\ at + h # at + Current.half
    BY <1>2, <1>4, <2>1
  <2>6. \A p \in places : p < at => p # at + Current.half
    BY <1>4, <1>8, <2>1
  <2> HIDE DEF word
  <2> QED
    BY <1>3, <1>5, <1>9, <2>1, <2>4, <2>5, <2>6 DEF at, word
<1>10. CASE cmd.channel = "ocp" /\ cmd.mode = "alive"
  <2>1. result[cmd.mode] = Value(cmd, mem, Size(cmd))
    BY <1>1, <1>2, <1>10 DEF ReadInv, Fits
  <2>2. \A h \in 0..Size(cmd) - 1 : {Half(result[cmd.mode], h)} = word(h)
    BY <1>2, <1>6, <1>7, <2>1, ValueHalf
  <2>3. answer' = [answer EXCEPT ![at] = {Half(result[cmd.mode], 0)},
                     ![at + 1] = IF cmd.size = "dword" THEN {Half(result[cmd.mode], 1)} ELSE {}]
    BY <1>1, <1>10 DEF Return, ReturnOCP, Current, at
  <2>4. \A p \in places : answer'[p] = IF p = at + 1 THEN IF cmd.size = "dword" THEN {Half(result[cmd.mode], 1)} ELSE {}
                                       ELSE IF p = at THEN {Half(result[cmd.mode], 0)} ELSE answer[p]
    BY <1>3, <1>4, <1>8, <2>3
  <2>5. \A p \in places : p < at => p # at /\ p # at + 1
    BY <1>4, <1>8
  <2>6. answer'[at] = word(0)
    <3>1. 0 \in 0..Size(cmd) - 1 /\ at + 0 = at /\ at # at + 1
      BY <1>2, <1>4
    <3>2. at \in places /\ {Half(result[cmd.mode], 0)} = word(0)
      BY <1>5, <2>2, <3>1
    <3> HIDE DEF word
    <3> QED
      BY <2>4, <3>1, <3>2
  <2>7. cmd.size = "dword" => answer'[at + 1] = word(1)
    <3>1. cmd.size = "dword" => 1 \in 0..Size(cmd) - 1
      BY <1>2
    <3>2. cmd.size = "dword" => at + 1 \in places /\ {Half(result[cmd.mode], 1)} = word(1)
      BY <1>5, <2>2, <3>1
    <3> HIDE DEF word
    <3> QED
      BY <2>4, <3>2
  <2>8. \A h \in 0..Size(cmd) - 1 : (h = 0 /\ at + h = at) \/ (h = 1 /\ cmd.size = "dword")
    BY <1>2, <1>4
  <2> HIDE DEF word
  <2>9. \A h \in 0..Size(cmd) - 1 : answer'[at + h] = word(h)
    BY <2>6, <2>7, <2>8
  <2> QED
    BY <1>3, <1>10, <2>4, <2>5, <2>9 DEF at, word
<1>11. CASE cmd.channel # "ocp"
  <2>1. cmd.mode = "alive" /\ Size(cmd) = 1 /\ Current.for = "read" /\ Polled(result[cmd.mode])
    BY <1>2, <1>11
  <2>2. Half(result[cmd.mode], 0) = mem[Space(cmd)][cmd.addr]
    BY <1>1, <1>2, <1>11, <2>1 DEF ReadInv
  <2>3. {Half(result[cmd.mode], 0)} = word(0)
    <3>1. 0 \in 0..Size(cmd) - 1 /\ cmd.addr + 0 = cmd.addr
      BY <1>2, <2>1
    <3> QED
      BY <1>6, <2>2, <3>1
  <2>4. answer' = [answer EXCEPT ![at] = {Half(result[cmd.mode], 0)}]
    BY <1>1, <1>11, <2>1 DEF Return, ReturnChannel, Current, at
  <2>5. \A p \in places : answer'[p] = IF p = at THEN word(0) ELSE answer[p]
    BY <1>3, <2>3, <2>4
  <2>6. \A h \in 0..Size(cmd) - 1 : h = 0 /\ at + h = at
    BY <1>4, <2>1
  <2>7. \A p \in places : p < at => p # at
    BY <1>4, <1>8
  <2> HIDE DEF word
  <2>8. \A h \in 0..Size(cmd) - 1 : answer'[at + h] = word(h)
    BY <1>5, <2>5, <2>6
  <2> QED
    BY <1>3, <2>1, <2>5, <2>7, <2>8 DEF at, word
<1> QED
  BY <1>2, <1>9, <1>10, <1>11

\* Every step keeps the answers.
LEMMA AnswerStep ==
  ASSUME Routed, TypeInv, ChainInv, OnTimeInv, ReadInv, MemInv, AnswerInv, [Next]_vars
  PROVE  AnswerInv'
<1> SUFFICES ASSUME ~late' PROVE AnswerInv'
  BY DEF AnswerInv
<1>0. k \in Nat
  BY KType
<1>1. CASE Receive
  <2>1. k' = 0 /\ ~Busy' /\ 1..0 = {}
    BY <1>1 DEF Receive, Busy
  <2> QED
    BY <2>1 DEF AnswerInv
<1>2. CASE NextCommand
  <2>1. pc = "next" /\ UNCHANGED <<ptestio_cmd, before, answer, late>> /\ ~Busy
    BY <1>2 DEF NextCommand, history, Busy
  <2>2. \A n \in 1..k : Answered(n)'
    BY <2>1, AnswersSame DEF AnswerInv
  <2>3. CASE Busy'
    <3>1. k' = k + 1 /\ Current' = First(cmd') /\ k' - 1 = k
      BY <1>0, <1>2, <2>3, NextCommandFirst
    <3>2. Current'.half = 0 /\ 0..0 - 1 = {}
      BY <3>1 DEF First, Access
    <3> QED
      BY <2>2, <2>3, <3>1, <3>2 DEF AnswerInv
  <2>4. CASE ~Busy'
    <3>1. k' = k
      BY <1>2, <2>4 DEF NextCommand, Busy
    <3> QED
      BY <2>2, <2>4, <3>1 DEF AnswerInv
  <2> QED
    BY <2>3, <2>4
<1>3. ASSUME cmd' = cmd, Current'.half = Current.half, Busy' = Busy,
             UNCHANGED <<ptestio_cmd, k, before, answer, late>>
      PROVE  AnswerInv'
  <2>1. \A n \in 1..(IF Busy THEN k - 1 ELSE k) : Answered(n)'
    BY <1>3, AnswersSame DEF AnswerInv
  <2>2. Meant(k - 1)' = Meant(k - 1)
    BY <1>3 DEF Meant
  <2> QED
    BY <1>3, <2>1, <2>2 DEF AnswerInv
<1>4. CASE SameAccess
  BY <1>3, <1>4, SameStarted DEF SameAccess
<1>5. CASE PollBusy \/ UNCHANGED vars
  BY <1>4, <1>5, StillStep
<1>6. CASE Serve \/ ServeChannel \/ ChannelDone
  BY <1>4, <1>6 DEF Serve, ServeChannel, ChannelDone, fwVars, history, SameAccess
<1>7. CASE Start
  <2>1. cmd' = cmd /\ Current' = Current /\ Busy' /\ Busy /\ UNCHANGED <<ptestio_cmd, k, before, answer, late>>
    BY <1>7, StartCurrent
  <2>2. Busy' = Busy
    BY <1>7 DEF Start, Busy
  <2> QED
    BY <1>3, <2>1, <2>2
<1>8. CASE PollDone
  <2>1. /\ Busy /\ Served /\ pc = "poll" /\ cmd' = cmd /\ ~late /\ Return(result[cmd.mode], {})
        /\ UNCHANGED <<ptestio_cmd, k, before, late>>
    BY <1>8, PollDoneCurrent
  <2>2. /\ cmd \in Commands /\ cmd = ptestio_cmd[k] /\ k \in 1..Len(ptestio_cmd)
        /\ Current.half \in 0..Halves(cmd) - 1 /\ Current \in AccessType
        /\ Size(cmd) \in {1, 2} /\ Fits(Current, cmd) /\ cmd.mode \in {"alive", "stall"}
        /\ cmd.channel # "ocp" => cmd.mode = "alive"
        /\ cmd.rw \in {"read", "write"} /\ (Current.for = "write" => cmd.rw = "write")
    BY <2>1, AtCommand, CommandFacts DEF Modes, Ops
  <2>3. \A n \in 1..k - 1 : Answered(n)
    BY <2>1 DEF AnswerInv
  <2>4. Meant(k - 1)' = Meant(k - 1)
    BY <2>1 DEF Meant
  <2>5. 1..k = 1..k - 1 \cup {k}
    BY <1>0, <2>2
  <2>6. \/ pc' = "next" /\ ~Busy'
        \/ pc' = "start" /\ Busy'
    <3>1. pc' \in {"next", "start"}
      BY <1>8, PollDoneNext
    <3> QED
      BY <3>1 DEF Busy
  <2>7. ASSUME UNCHANGED answer, cmd.rw = "write" \/ (pc' = "start" /\ cmd.mode = "alive")
        PROVE  AnswerInv'
    <3>1. \A n \in 1..k - 1 : Answered(n)'
      BY <2>1, <2>3, <2>7, AnswersSame
    <3>2. cmd.rw = "write" => Answered(k)'
      BY <2>1, <2>2 DEF Answered
    <3> QED
      BY <2>1, <2>5, <2>6, <2>7, <3>1, <3>2 DEF AnswerInv
  <2>8. CASE cmd.rw = "write"
    <3>1. UNCHANGED answer
      BY <2>1, <2>8 DEF Return, ReturnOCP, ReturnChannel
    <3> QED
      BY <2>7, <2>8, <3>1
  <2>9. CASE cmd.rw = "read" /\ cmd.channel # "ocp" /\ ~(Current.op = "read" /\ Polled(result[cmd.mode]))
    <3>1. UNCHANGED answer
      BY <2>1, <2>9 DEF Return, ReturnChannel, Current
    <3>2. pc' = "start"
      <4>1. Current.for # "ocp"
        BY <2>2, <2>9 DEF Fits
      <4> QED
        BY <1>8, <2>9, <4>1, PollDoneNext
    <3> QED
      BY <2>2, <2>7, <2>9, <3>1, <3>2
  <2>10. CASE /\ cmd.rw = "read" /\ Current.op = "read"
              /\ cmd.channel = "ocp" \/ (Current.for = "read" /\ Polled(result[cmd.mode]))
    <3> DEFINE at == DataNum(ptestio_cmd)[k - 1]
               word(h) == {Meant(k - 1)[Space(cmd)][cmd.addr + h]}
    <3>1. /\ \A p \in 0 .. 2 * MaxSet - 1 : p < at => answer'[p] = answer[p]
          /\ cmd.mode = "stall" =>
               /\ answer'[at + Current.half] = word(Current.half)
               /\ \A h \in 0..Current.half - 1 : answer'[at + h] = answer[at + h]
          /\ cmd.mode = "alive" => \A h \in 0..Size(cmd) - 1 : answer'[at + h] = word(h)
      BY <1>8, <2>1, <2>10, ReadAnswers
    <3>2. \A n \in 1..k - 1 : Answered(n)'
      BY <2>1, <2>2, <2>3, <3>1, AnswersKept
    <3>3. /\ Current.for = "ocp" => \/ Current.half + 1 = Halves(cmd) /\ pc' = "next"
                                    \/ /\ Current.half + 1 < Halves(cmd) /\ pc' = "start"
                                       /\ Current'.half = Current.half + 1
          /\ Current.for # "ocp" => pc' = "next"
      <4>1. cmd.channel = "ocp" <=> Current.for = "ocp"
        BY <2>2 DEF Fits
      <4> QED
        BY <1>8, <2>10, <4>1, PollDoneNext DEF Access, Ops
    <3>4. cmd.mode = "stall" => \A h \in 0..Current.half : answer'[at + h] = word(h)
      <4>1. Current.half \in Nat /\ 0..Current.half = 0..Current.half - 1 \cup {Current.half}
        BY <2>2 DEF Halves
      <4>2. cmd.mode = "stall" => \A h \in 0..Current.half - 1 : answer[at + h] = word(h)
        BY <2>1, <2>10 DEF AnswerInv
      <4> HIDE DEF at, word
      <4> QED
        BY <3>1, <4>1, <4>2
    <3>5. CASE pc' = "next"
      <4>1. \A h \in 0..Size(cmd) - 1 : answer'[at + h] = word(h)
        <5>1. cmd.mode = "stall" => Current.half = Size(cmd) - 1
          BY <2>2, <3>3, <3>5 DEF Halves, Fits
        <5> HIDE DEF at, word
        <5> QED
          BY <2>2, <3>1, <3>4, <5>1
      <4>2. Answered(k)'
        BY <2>1, <2>2, <2>4, <4>1 DEF Answered
      <4> QED
        BY <2>1, <2>5, <2>6, <3>2, <3>5, <4>2 DEF AnswerInv
    <3>6. CASE pc' = "start"
      <4>1. Current'.half = Current.half + 1 /\ Current'.half - 1 = Current.half
        BY <2>2, <3>3, <3>6 DEF Halves
      <4> QED
        BY <2>1, <2>4, <2>6, <3>2, <3>4, <3>6, <4>1 DEF AnswerInv
    <3> QED
      BY <2>6, <3>5, <3>6
  <2>11. cmd.channel = "ocp" => (cmd.rw = "read" => Current.op = "read")
    BY <2>2 DEF Fits, AccessType, Ops
  <2>12. cmd.channel # "ocp" /\ cmd.rw = "read" /\ Current.op = "read" => Current.for = "read"
    BY <2>2 DEF Fits, AccessType, Ops
  <2> QED
    BY <2>2, <2>8, <2>9, <2>10, <2>11, <2>12
<1>9. CASE GiveUp
  BY <1>9 DEF GiveUp
<1> QED
  BY <1>1, <1>2, <1>5, <1>6, <1>7, <1>8, <1>9 DEF Next, Firmware

\* Every step keeps the end.
LEMMA EndStep == ASSUME TypeInv, ChainInv, EndInv, [Next]_vars PROVE EndInv'
<1>1. CASE NextCommand
  BY <1>1 DEF NextCommand, EndInv, TypeInv
<1>2. CASE Serve \/ ServeChannel \/ ChannelDone \/ UNCHANGED vars
  BY <1>2 DEF Serve, ServeChannel, ChannelDone, vars, fwVars, EndInv
<1>3. CASE pc' # "idle"
  BY <1>3 DEF EndInv
<1>4. CASE PollDone \/ GiveUp
  <2>1. pc = "poll" /\ \E value, upper : Return(value, upper)
    BY <1>4 DEF PollDone, GiveUp
  <2> QED
    BY <1>3, <2>1, AfterReturn
<1> QED
  BY <1>1, <1>2, <1>3, <1>4 DEF Next, Firmware, Receive, Start, PollBusy

-----------------------------------------------------------------------------

\* What is true from the start and in every step of a batch.
BatchInv ==
    /\ TypeInv /\ IInv /\ ChainInv /\ LeftInv /\ OnTimeInv
    /\ ReadInv /\ DataInv /\ ChanInv /\ MemInv /\ RetInv
    /\ AnswerInv /\ EndInv

\* A batch is done as asked if everything is as meant when it ends.
LEMMA BatchDone == BatchInv => DoneAsAsked
<1> SUFFICES ASSUME BatchInv, pc = "idle", ~late
             PROVE  LET at == After(ptestio_cmd, before)
                    IN  /\ mem = at[Len(ptestio_cmd)]
                        /\ \A n \in 1..Len(ptestio_cmd) : Answered(n)
  BY DEF DoneAsAsked, Answered, Meant
<1>1. k = Len(ptestio_cmd) /\ ~Busy
  BY DEF BatchInv, EndInv, Busy
<1>2. \A n \in 1..Len(ptestio_cmd) : Answered(n)
  BY <1>1 DEF BatchInv, AnswerInv
<1>3. \A s \in Spaces, x \in Words : mem[s][x] = Meant(Len(ptestio_cmd))[s][x]
  BY <1>1 DEF BatchInv, MemInv
<1>4. mem \in Memories /\ Meant(Len(ptestio_cmd)) \in Memories
  <2>1. Len(ptestio_cmd) \in 0..Len(ptestio_cmd)
    BY DEF BatchInv, TypeInv
  <2> QED
    BY <2>1, MeantSteps DEF BatchInv, MemInv, TypeInv, Memories
<1>5. mem = Meant(Len(ptestio_cmd))
  BY <1>3, <1>4 DEF Memories
<1> QED
  BY <1>2, <1>5 DEF Meant

\* For any commands, bounds and target, when the stalled writes are for the PLA
\* MCU: a batch during which no access was given up or left over has done what
\* its commands ask for, one after the other, and the response holds, at the
\* place of each read, what the register held when its turn came.
THEOREM BatchesDoneAsAsked == ASSUME Routed PROVE Spec => []DoneAsAsked
<1>1. Init => BatchInv
  <2> SUFFICES ASSUME Init PROVE BatchInv
    OBVIOUS
  <2>1. /\ pc = "idle" /\ k = 0 /\ ptestio_cmd = <<>> /\ before = mem /\ mem \in Memories
        /\ \A m \in Modes : job[m] = {}
        /\ \A ch \in Channels : chan[ch].done
    BY TestIoAssumption DEF Init, NoJob, Memories
  <2>2. TypeInv /\ IInv
    BY TypeInit, InitHolds
  <2>3. ~Busy /\ ~Served /\ \A ch : ~Started(ch)
    BY <2>1 DEF Busy, Served, Started
  <2>4. MemInv
    BY <2>1, <2>2, <2>3, MeantSteps DEF MemInv
  <2>5. LeftInv
    BY <2>1 DEF LeftInv, StalledLeft, AliveLeft, ChannelsLeft, Modes
  <2>6. Len(ptestio_cmd) = 0 /\ 1..0 = {}
    BY <2>1
  <2> QED
    BY <2>1, <2>2, <2>3, <2>4, <2>5, <2>6
    DEF BatchInv, ChainInv, OnTimeInv, ReadInv, DataInv, ChanInv, RetInv, AnswerInv, EndInv
<1>2. ASSUME BatchInv, [Next]_vars PROVE BatchInv'
  BY <1>2, TypeStep, StepKeeps, ChainStep, LeftStep, OnTimeStep, ReadStep, DataStep, ChanStep, MemStep, RetStep,
     AnswerStep, EndStep
  DEF BatchInv
<1> QED
  BY <1>1, <1>2, BatchDone, PTL DEF Spec
=============================================================================
