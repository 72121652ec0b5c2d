----------------------------- MODULE Mmd_proofs -----------------------------
(***************************************************************************)
(* Proofs about Mmd, for any commands, images, bounds and losses: its      *)
(* types, that the selection of the MCU has its default value between      *)
(* accesses until one is given up, for a USB chip, that only the words     *)
(* change that a write names, and that a batch nothing was late in has     *)
(* done what it asks.                                                      *)
(***************************************************************************)
EXTENDS Mmd, SequenceTheorems, Iteration_proofs, TLAPS

AtAccess == pc \in {"access", "start", "poll"}

\* The accesses left are those of the command: no write for a command that
\* does not ask for one, and posts for post commands only.
TodoOK ==
    AtAccess =>
      /\ \A n \in 1..Len(todo) : /\ todo[n] = "write" => cmd.rw = "write"
                                 /\ todo[n] = "post" <=> cmd.rw = "post"
      /\ cmd.rw = "post" => Len(todo) <= cmd.num

\* A unit is set up only for a command that needs one.
UnitOK == pc \in {"start", "poll"} => ~Direct(cmd)

TypeInv == TypeOK /\ TodoOK /\ UnitOK

-----------------------------------------------------------------------------
(* Commands, accesses and words.                                           *)

\* The fields of a command, and the words it may name.
LEMMA CommandFields ==
    ASSUME NEW c \in Commands
    PROVE  /\ c.rw \in {"read", "write", "post"} /\ c.route \in Routes /\ c.dev \in Devs
           /\ c.lbit \in WordBits /\ c.hbit \in WordBits /\ c.data \in Word
           /\ c.num \in Nat
           /\ Reg(c) \in Regs
           /\ c.rw = "post" => c.route \notin Channels
BY MmdAssumption DEF MmdAssumption, CommandType

\* A command that is not made directly has a unit, a data register and words.
LEMMA UnitFields ==
    ASSUME NEW c \in Commands, ~Direct(c)
    PROVE  /\ Unit(c) \in Units /\ c.rw # "post"
           /\ Slot(Unit(c), Reg(c)) \in Slots
           /\ WordsOf(Unit(c), Reg(c)) \subseteq Regs
<1>1. Unit(c) \in Units /\ c.rw # "post"
  BY CommandFields DEF Direct, Unit, Units, Routes, Channels
<1>2. Reg(c) \in Regs /\ Reg(c) \in Nat
  BY CommandFields, MmdAssumption DEF MmdAssumption
<1>3. Slot(Unit(c), Reg(c)) \in Slots
  BY <1>2 DEF Slot, Slots
<1>4. {2 * (Reg(c) \div 2), 2 * (Reg(c) \div 2) + 1} \subseteq Regs
  BY <1>2, MmdAssumption DEF MmdAssumption
<1> QED
  BY <1>1, <1>2, <1>3, <1>4 DEF WordsOf

\* The accesses of a command.
LEMMA AccessesType ==
    ASSUME NEW c \in Commands
    PROVE  /\ Accesses(c) \in Seq({"read", "write", "post"})
           /\ \A n \in 1..Len(Accesses(c)) :
                /\ Accesses(c)[n] = "write" => c.rw = "write"
                /\ Accesses(c)[n] = "post" <=> c.rw = "post"
           /\ c.rw = "post" => Len(Accesses(c)) <= c.num
<1>1. CASE c.rw = "post"
  <2> DEFINE posts == [n \in 1..c.num |-> "post"]
  <2>1. Accesses(c) = posts /\ c.num \in Nat
    BY <1>1, CommandFields DEF Accesses
  <2>2. posts \in [1..c.num -> {"read", "write", "post"}]
    OBVIOUS
  <2>3. posts \in Seq({"read", "write", "post"}) /\ Len(posts) = c.num
    BY <2>1, <2>2, SeqDef
  <2>4. \A n \in 1..c.num : posts[n] = "post"
    OBVIOUS
  <2> HIDE DEF posts
  <2> QED
    BY <1>1, <2>1, <2>3, <2>4
<1>2. CASE c.rw # "post"
  <2>1. c.rw \in {"read", "write"}
    BY <1>2, CommandFields
  <2>2. CASE c.rw = "write" /\ Accesses(c) = <<"read", "write">>
    <3> DEFINE both == <<"read", "write">>
    <3>1. both \in Seq({"read", "write", "post"}) /\ \A n \in 1..Len(both) : both[n] # "post"
      OBVIOUS
    <3>2. Accesses(c) = both
      BY <2>2
    <3> HIDE DEF both
    <3> QED
      BY <2>2, <3>1, <3>2
  <2>3. CASE Accesses(c) = <<c.rw>>
    <3> DEFINE one == <<c.rw>>
    <3>1. one \in Seq({"read", "write", "post"}) /\ \A n \in 1..Len(one) : one[n] = c.rw
      BY <2>1
    <3>2. Accesses(c) = one
      BY <2>3
    <3> HIDE DEF one
    <3> QED
      BY <1>2, <3>1, <3>2
  <2> QED
    BY <1>2, <2>1, <2>2, <2>3 DEF Accesses
<1> QED
  BY <1>1, <1>2

\* What a write stores and what a read answers are words.
LEMMA Values ==
    ASSUME NEW c \in Commands, NEW old \in Word
    PROVE  SetVal(c, old) \in Word /\ Field(c, old) \in Word
<1>1. c.data \in Word /\ c.lbit \in WordBits /\ c.hbit \in WordBits
  BY CommandFields
<1>2. \A b \in old \cap Mask(c) : b - c.lbit \in WordBits
  BY <1>1, MmdAssumption DEF MmdAssumption, Word, WordBits, Mask
<1>3. Field(c, old) \subseteq WordBits
  BY <1>2 DEF Field
<1> QED
  BY <1>1, <1>3 DEF SetVal, Word

\* What may be in readval, and what a read on MDIO returns.
LEMMA ReadType ==
    ASSUME TypeOK
    PROVE  Readvals \subseteq Word /\ \A v \in Word : mdiobb_read(v) \subseteq Word
BY DEF TypeOK, Readvals, mdiobb_read, Word

\* The command being processed, while it is.
LEMMA AtCommand == ASSUME TypeOK, AtAccess PROVE cmd \in Commands /\ i \in 1..Len(pmmd_cmd)
BY ElementOfSeq DEF TypeOK, AtAccess, cmd

\* The end of an access leaves a suffix of the accesses.
LEMMA FinishKeeps ==
    ASSUME TypeInv, AtAccess, Finish, UNCHANGED <<pmmd_cmd, i>>
    PROVE  /\ todo' \in Seq({"read", "write", "post"})
           /\ polls' \in 0..MaxPolls - 1
           /\ pc' \in {"next", "access"} /\ (pc' = "access" => i' > 0 /\ todo' # <<>>)
           /\ TodoOK' /\ UnitOK'
<1>1. todo \in Seq({"read", "write", "post"}) /\ todo # <<>> /\ i > 0
  BY DEF TypeInv, TypeOK, AtAccess
<1>2. /\ Tail(todo) \in Seq({"read", "write", "post"}) /\ Len(Tail(todo)) = Len(todo) - 1
      /\ \A n \in 1..Len(Tail(todo)) : Tail(todo)[n] = todo[n + 1] /\ n + 1 \in 1..Len(todo)
  BY <1>1, HeadTailProperties
<1>3. TodoOK'
  <2>1. cmd.rw = "post" => cmd.num \in Nat
    BY AtCommand, CommandFields DEF TypeInv
  <2>2. Len(todo) \in Nat
    BY <1>1
  <2> QED
    BY <1>2, <2>1, <2>2 DEF TypeInv, TodoOK, AtAccess, Finish, cmd
<1>4. polls' \in 0..MaxPolls - 1
  BY MmdAssumption DEF MmdAssumption, Finish
<1> QED
  BY <1>1, <1>2, <1>3, <1>4 DEF Finish, UnitOK

\* A read command's answer is a word.
LEMMA StoreKeeps ==
    ASSUME TypeOK, AtAccess, NEW v \in Word, Store(v)
    PROVE  answer' \in [0 .. (MaxPost + 1) * MaxSet - 1 -> SUBSET Word]
<1>1. {Field(cmd, v)} \in SUBSET Word
  BY AtCommand, Values
<1> QED
  BY <1>1 DEF Store, TypeOK

\* Fetching keeps the types of the words read and the answer.
LEMMA FetchKeeps ==
    ASSUME TypeOK, AtAccess, ~Direct(cmd), Fetch
    PROVE  /\ readval' \subseteq Word /\ rd_data' \in Word /\ lost' \in BOOLEAN
           /\ answer' \in [0 .. (MaxPost + 1) * MaxSet - 1 -> SUBSET Word]
<1>1. data[Unit(cmd)][Slot(Unit(cmd), Reg(cmd))] \in Word
  BY AtCommand, UnitFields DEF TypeOK
<1> DEFINE word == data[Unit(cmd)][Slot(Unit(cmd), Reg(cmd))]
<1>2. CASE Head(todo) = "read"
  <2>1. PICK v \in mdiobb_read(word) :
          /\ IF Unit(cmd) \in Channels /\ cmd.rw = "write"
               THEN rd_data' = v /\ UNCHANGED <<readval, answer>>
               ELSE readval' = {v} /\ Store(v) /\ UNCHANGED rd_data
          /\ lost' = (lost \/ v # word)
    BY <1>2 DEF Fetch
  <2>2. v \in Word
    BY <1>1, <2>1, ReadType
  <2>3. lost' \in BOOLEAN
    BY <2>1
  <2>4. CASE rd_data' = v /\ UNCHANGED <<readval, answer>>
    BY <2>2, <2>3, <2>4 DEF TypeOK
  <2>5. CASE readval' = {v} /\ Store(v) /\ UNCHANGED rd_data
    BY <2>2, <2>3, <2>5, StoreKeeps DEF TypeOK
  <2> QED
    BY <2>1, <2>4, <2>5
<1>3. CASE UNCHANGED <<readval, rd_data, answer, lost>>
  BY <1>3 DEF TypeOK
<1> QED
  BY <1>2, <1>3 DEF Fetch

-----------------------------------------------------------------------------
(* Types.                                                                  *)

\* The types hold initially.
LEMMA TypeInit == Init => TypeInv
<1> SUFFICES ASSUME Init PROVE TypeInv
  OBVIOUS
<1>1. pmmd_cmd \in Seq(Commands) /\ Len(pmmd_cmd) = 0 /\ todo \in Seq({"read", "write", "post"})
  BY EmptySeq DEF Init
<1>2. mem \in [Spaces -> [Regs -> Word]] /\ {} \in Word
  BY MmdAssumption DEF MmdAssumption, Init, Word
<1>3. answer \in [0 .. (MaxPost + 1) * MaxSet - 1 -> SUBSET Word]
  BY DEF Init
<1>4. job \in [Units -> SUBSET JobType] /\ data \in [Units -> [Slots -> Word]]
  BY <1>2 DEF Init
<1>5. /\ pc = "idle" /\ i = 0 /\ polls = 0 /\ retval = 0 /\ received = 0 /\ sel = "default"
      /\ readval = {} /\ rd_data = {} /\ before = mem /\ earlier = {} /\ late = FALSE /\ lost = FALSE
  BY DEF Init
<1>6. MaxPolls \in Nat \ {0} /\ MaxSet \in Nat /\ MaxCommands \in Nat
  BY MmdAssumption DEF MmdAssumption
<1>7. /\ i \in 0..Len(pmmd_cmd) /\ Len(pmmd_cmd) <= MaxSet
      /\ polls \in 0..MaxPolls - 1 /\ received \in 0..MaxCommands
      /\ pc \in {"access", "start", "poll"} => i > 0 /\ todo # <<>>
  BY <1>1, <1>5, <1>6
<1>8. TypeOK
  BY <1>1, <1>2, <1>3, <1>4, <1>5, <1>7 DEF TypeOK
<1> QED
  BY <1>5, <1>8 DEF TypeInv, TodoOK, UnitOK, AtAccess

\* A batch and its next command.
LEMMA TypeBatch ==
    ASSUME TypeInv, Receive \/ NextCommand
    PROVE  TypeInv'
<1>1. CASE Receive
  <2>1. PICK n \in 0..MaxSet : \E cmds \in [1..n -> Commands] :
          /\ received + n <= MaxCommands
          /\ pmmd_cmd' = cmds /\ received' = received + n
    BY <1>1 DEF Receive
  <2>2. PICK cmds \in [1..n -> Commands] :
          /\ received + n <= MaxCommands
          /\ pmmd_cmd' = cmds /\ received' = received + n
    BY <2>1
  <2>3. pmmd_cmd' \in Seq(Commands) /\ Len(pmmd_cmd') = n
    BY <2>2, SeqDef
  <2>4. received' \in 0..MaxCommands
    BY <2>2, MmdAssumption DEF MmdAssumption, TypeInv, TypeOK
  <2>5. earlier' \subseteq JobType
    BY <1>1 DEF Receive, TypeInv, TypeOK
  <2> QED
    <3>1. i' = 0 /\ pc' = "next" /\ readval' = {} /\ retval' = 0 /\ before' = mem /\ lost' = FALSE
      BY <1>1 DEF Receive
    <3>2. answer' \in [0 .. (MaxPost + 1) * MaxSet - 1 -> SUBSET Word]
      BY <1>1 DEF Receive
    <3>3. late' \in BOOLEAN /\ UNCHANGED <<todo, rd_data, polls, chipVars>>
      BY <1>1 DEF Receive, TypeInv, TypeOK
    <3>4. Len(pmmd_cmd') <= MaxSet /\ i' \in 0..Len(pmmd_cmd')
      BY <2>3, <3>1, MmdAssumption DEF MmdAssumption
    <3>5. TypeOK'
      BY <2>3, <2>4, <2>5, <3>1, <3>2, <3>3, <3>4 DEF chipVars, TypeInv, TypeOK
    <3> QED
      BY <3>1, <3>5 DEF TypeInv, TodoOK, UnitOK, AtAccess
<1>2. CASE NextCommand
  <2>0. i \in Nat /\ Len(pmmd_cmd) \in Nat
    BY DEF TypeInv, TypeOK
  <2>1. CASE i < Len(pmmd_cmd)
    <3> DEFINE accesses == Accesses(pmmd_cmd[i + 1])
    <3>1. pmmd_cmd[i + 1] \in Commands
      BY <2>0, <2>1, ElementOfSeq DEF TypeInv, TypeOK
    <3>2. /\ accesses \in Seq({"read", "write", "post"})
          /\ \A n \in 1..Len(accesses) :
               /\ accesses[n] = "write" => pmmd_cmd[i + 1].rw = "write"
               /\ accesses[n] = "post" <=> pmmd_cmd[i + 1].rw = "post"
          /\ pmmd_cmd[i + 1].rw = "post" => Len(accesses) <= pmmd_cmd[i + 1].num
      BY <3>1, AccessesType
    <3>3. /\ i' = i + 1 /\ todo' = accesses /\ pmmd_cmd' = pmmd_cmd
          /\ pc' = IF accesses = <<>> THEN "next" ELSE "access"
          /\ retval' \in {0, retval}
      BY <1>2, <2>1 DEF NextCommand
    <3> HIDE DEF accesses
    <3>4. TypeOK'
      BY <1>2, <2>0, <2>1, <3>2, <3>3 DEF NextCommand, chipVars, history, TypeInv, TypeOK
    <3>5. TodoOK' /\ UnitOK'
      BY <3>2, <3>3 DEF TodoOK, UnitOK, AtAccess, cmd
    <3> QED
      BY <3>4, <3>5 DEF TypeInv
  <2>2. CASE ~(i < Len(pmmd_cmd))
    BY <1>2, <2>2 DEF NextCommand, chipVars, history, TypeInv, TypeOK, TodoOK, UnitOK, AtAccess
  <2> QED
    BY <2>1, <2>2
<1> QED
  BY <1>1, <1>2

\* The accesses made directly.
LEMMA TypeDirect ==
    ASSUME TypeInv, DirectRead \/ DirectWrite \/ PostRead \/ PostReadLost
    PROVE  TypeInv'
<1>0. /\ AtAccess /\ TypeOK /\ cmd \in Commands
      /\ Reg(cmd) \in Regs /\ mem["mdio"][Reg(cmd)] \in Word
  <2>1. AtAccess /\ TypeOK
    BY DEF DirectRead, DirectWrite, PostRead, PostReadLost, AtAccess, TypeInv
  <2>2. cmd \in Commands /\ Reg(cmd) \in Regs
    BY <2>1, AtCommand, CommandFields
  <2> QED
    BY <2>1, <2>2 DEF TypeOK, Spaces
<1>1. CASE DirectRead
  <2>1. PICK v \in mdiobb_read(mem["mdio"][Reg(cmd)]) : readval' = {v} /\ Store(v)
    BY <1>1 DEF DirectRead
  <2>2. v \in Word
    BY <1>0, <2>1, ReadType
  <2>3. answer' \in [0 .. (MaxPost + 1) * MaxSet - 1 -> SUBSET Word]
    BY <1>0, <2>1, <2>2, StoreKeeps
  <2>4. /\ todo' \in Seq({"read", "write", "post"}) /\ polls' \in 0..MaxPolls - 1
        /\ pc' \in {"next", "access"} /\ (pc' = "access" => i' > 0 /\ todo' # <<>>)
        /\ TodoOK' /\ UnitOK'
    BY <1>0, <1>1, FinishKeeps DEF DirectRead
  <2>5. readval' \subseteq Word
    BY <2>1, <2>2
  <2> QED
    BY <1>1, <2>3, <2>4, <2>5 DEF DirectRead, chipVars, history, TypeInv, TypeOK
<1>2. CASE DirectWrite
  <2>1. PICK old \in Readvals : mem' = [mem EXCEPT !["mdio"][Reg(cmd)] = SetVal(cmd, old)]
    BY <1>2 DEF DirectWrite
  <2>2. SetVal(cmd, old) \in Word
    BY <1>0, <2>1, ReadType, Values
  <2>3. mem' \in [Spaces -> [Regs -> Word]]
    BY <1>0, <2>1, <2>2 DEF TypeOK, Spaces
  <2>4. /\ todo' \in Seq({"read", "write", "post"}) /\ polls' \in 0..MaxPolls - 1
        /\ pc' \in {"next", "access"} /\ (pc' = "access" => i' > 0 /\ todo' # <<>>)
        /\ TodoOK' /\ UnitOK'
    BY <1>0, <1>2, FinishKeeps DEF DirectWrite
  <2> QED
    BY <1>2, <2>3, <2>4 DEF DirectWrite, history, TypeInv, TypeOK
<1>3. CASE PostRead
  <2>1. cmd.rw = "post"
    <3>1. Head(todo) = todo[1] /\ 1 \in 1..Len(todo)
      BY <1>0 DEF TypeOK, AtAccess
    <3> QED
      BY <1>0, <1>3, <3>1 DEF PostRead, TypeInv, TodoOK
  <2>2. todo \in Seq({"read", "write", "post"}) /\ Len(todo) \in Nat
    BY DEF TypeInv, TypeOK
  <2> DEFINE w == mem["mdio"][Reg(cmd) + (cmd.num - Len(todo))]
             at == DataNum(pmmd_cmd)[i - 1] + (cmd.num - Len(todo))
  <2>3. answer' = [answer EXCEPT ![at] = {w}]
    BY <1>3 DEF PostRead
  <2>4. w \in Word
    <3>1. Len(todo) \in 1..cmd.num /\ cmd.num \in Nat
      BY <1>0, <2>1, <2>2, CommandFields, EmptySeq DEF TypeInv, TypeOK, TodoOK, AtAccess
    <3>2. cmd.num - Len(todo) \in 0..cmd.num - 1
      BY <3>1
    <3>3. Reg(cmd) + (cmd.num - Len(todo)) \in Regs
      BY <1>0, <2>1, <3>2, MmdAssumption DEF MmdAssumption
    <3> QED
      BY <3>3 DEF TypeInv, TypeOK, Spaces
  <2>5. answer' \in [0 .. (MaxPost + 1) * MaxSet - 1 -> SUBSET Word]
    <3>1. {w} \in SUBSET Word
      BY <2>4
    <3> HIDE DEF w, at
    <3> QED
      BY <2>3, <3>1 DEF TypeInv, TypeOK
  <2>6. /\ todo' \in Seq({"read", "write", "post"}) /\ polls' \in 0..MaxPolls - 1
        /\ pc' \in {"next", "access"} /\ (pc' = "access" => i' > 0 /\ todo' # <<>>)
        /\ TodoOK' /\ UnitOK'
    BY <1>0, <1>3, FinishKeeps DEF PostRead
  <2> QED
    BY <1>3, <2>5, <2>6 DEF PostRead, chipVars, history, TypeInv, TypeOK
<1>4. CASE PostReadLost
  BY <1>0, <1>4, EmptySeq, MmdAssumption
  DEF MmdAssumption, PostReadLost, chipVars, history, TypeInv, TypeOK, TodoOK, UnitOK, AtAccess
<1> QED
  BY <1>1, <1>2, <1>3, <1>4

\* Setting up and starting a unit.
LEMMA TypeUnit ==
    ASSUME TypeInv, Setup \/ Start
    PROVE  TypeInv'
<1>0. AtAccess /\ TypeOK /\ cmd \in Commands /\ ~Direct(cmd)
  <2>1. AtAccess /\ TypeOK /\ ~Direct(cmd)
    BY DEF Setup, Start, AtAccess, TypeInv, UnitOK
  <2> QED
    BY <2>1, AtCommand
<1> DEFINE u == Unit(cmd)
           s == Slot(Unit(cmd), Reg(cmd))
<1>1. u \in Units /\ s \in Slots /\ WordsOf(u, Reg(cmd)) \subseteq Regs /\ cmd.rw # "post"
  BY <1>0, UnitFields
<1>2. CASE Setup
  <2>1. PICK old \in IF u = "ocp" THEN Readvals ELSE {rd_data} :
          data' = IF Head(todo) = "write" THEN [data EXCEPT ![u][s] = SetVal(cmd, old)] ELSE data
    BY <1>2 DEF Setup
  <2>2. SetVal(cmd, old) \in Word
    BY <1>0, <2>1, ReadType, Values DEF TypeOK
  <2>3. data \in [Units -> [Slots -> Word]]
    BY <1>0 DEF TypeOK
  <2> HIDE DEF u, s
  <2>4. data' \in [Units -> [Slots -> Word]]
    BY <1>1, <2>1, <2>2, <2>3
  <2>5. sel' \in {"default", "dma", "unknown"}
    BY <1>0, <1>2 DEF Setup, Select, TypeOK
  <2>6. TodoOK' /\ UnitOK'
    BY <1>0, <1>2 DEF Setup, TypeInv, TodoOK, UnitOK, AtAccess, cmd, Direct
  <2> QED
    BY <1>0, <1>2, <2>4, <2>5, <2>6 DEF Setup, history, TypeInv, TypeOK
<1>3. CASE Start
  <2> DEFINE j == [op |-> Head(todo), space |-> Space(cmd), words |-> WordsOf(u, Reg(cmd))]
  <2>1. Head(todo) \in {"read", "write"}
    <3>1. Head(todo) = todo[1] /\ 1 \in 1..Len(todo) /\ todo[1] \in {"read", "write", "post"}
      BY <1>0, ElementOfSeq DEF TypeOK, AtAccess
    <3> QED
      BY <1>0, <1>1, <3>1 DEF TypeInv, TodoOK
  <2>2. Space(cmd) \in Spaces
    BY <1>0, CommandFields DEF Space, Spaces, Routes, Direct
  <2>3. j \in JobType
    BY <1>1, <2>1, <2>2 DEF JobType
  <2>4. job' = [job EXCEPT ![u] = {j}]
    BY <1>3 DEF Start
  <2>5. job \in [Units -> SUBSET JobType]
    BY <1>0 DEF TypeOK
  <2> HIDE DEF u, s, j
  <2>6. job' \in [Units -> SUBSET JobType]
    BY <1>1, <2>3, <2>4, <2>5
  <2>7. CASE Finish
    <3>1. /\ todo' \in Seq({"read", "write", "post"}) /\ polls' \in 0..MaxPolls - 1
          /\ pc' \in {"next", "access"} /\ (pc' = "access" => i' > 0 /\ todo' # <<>>)
          /\ TodoOK' /\ UnitOK'
      BY <1>0, <1>3, <2>7, FinishKeeps DEF Start
    <3> QED
      BY <1>0, <1>3, <2>6, <3>1 DEF Start, TypeInv, TypeOK
  <2>8. CASE pc' = "poll" /\ UNCHANGED <<todo, polls>>
    <3>1. TodoOK' /\ UnitOK'
      BY <1>0, <1>3, <2>8 DEF Start, TypeInv, TodoOK, UnitOK, AtAccess, cmd, Direct
    <3> QED
      BY <1>0, <1>3, <2>6, <2>8, <3>1 DEF Start, TypeInv, TypeOK, AtAccess
  <2> QED
    BY <1>3, <2>7, <2>8 DEF Start
<1> QED
  BY <1>2, <1>3

\* Polling a unit and fetching its data.
LEMMA TypePoll ==
    ASSUME TypeInv, PollBusy \/ PollDone \/ GiveUp
    PROVE  TypeInv'
<1>0. AtAccess /\ TypeOK /\ ~Direct(cmd)
  BY DEF PollBusy, PollDone, GiveUp, AtAccess, TypeInv, UnitOK
<1>1. CASE PollBusy
  <2>1. polls' \in 0..MaxPolls - 1
    BY <1>0, <1>1, MmdAssumption DEF MmdAssumption, PollBusy, TypeOK
  <2>2. TodoOK' /\ UnitOK'
    BY <1>0, <1>1 DEF PollBusy, TypeInv, TodoOK, UnitOK, AtAccess, cmd, Direct
  <2> QED
    BY <1>0, <1>1, <2>1, <2>2 DEF PollBusy, chipVars, history, TypeInv, TypeOK
<1>2. CASE PollDone
  <2>1. /\ readval' \subseteq Word /\ rd_data' \in Word /\ lost' \in BOOLEAN
        /\ answer' \in [0 .. (MaxPost + 1) * MaxSet - 1 -> SUBSET Word]
    BY <1>0, <1>2, FetchKeeps DEF PollDone
  <2>2. /\ todo' \in Seq({"read", "write", "post"}) /\ polls' \in 0..MaxPolls - 1
        /\ pc' \in {"next", "access"} /\ (pc' = "access" => i' > 0 /\ todo' # <<>>)
        /\ TodoOK' /\ UnitOK'
    BY <1>0, <1>2, FinishKeeps DEF PollDone
  <2>3. sel' \in {"default", "dma", "unknown"} /\ retval' \in {0, 255}
    BY <1>0, <1>2 DEF PollDone, TypeOK
  <2> QED
    BY <1>0, <1>2, <2>1, <2>2, <2>3 DEF PollDone, TypeInv, TypeOK
<1>3. CASE GiveUp
  <2>1. /\ readval' \subseteq Word /\ rd_data' \in Word /\ lost' \in BOOLEAN
        /\ answer' \in [0 .. (MaxPost + 1) * MaxSet - 1 -> SUBSET Word]
    <3>1. CASE Unit(cmd) = "ocp"
      <4>1. PICK v \in Readvals : Store(v) /\ UNCHANGED <<readval, rd_data, lost>>
        BY <1>3, <3>1 DEF GiveUp
      <4>2. v \in Word
        BY <1>0, <4>1, ReadType DEF TypeOK, Readvals, Word
      <4> QED
        BY <1>0, <4>1, <4>2, StoreKeeps DEF TypeOK
    <3>2. CASE Unit(cmd) # "ocp"
      BY <1>0, <1>3, <3>2, FetchKeeps DEF GiveUp
    <3> QED
      BY <3>1, <3>2
  <2>2. /\ todo' \in Seq({"read", "write", "post"}) /\ polls' \in 0..MaxPolls - 1
        /\ pc' \in {"next", "access"} /\ (pc' = "access" => i' > 0 /\ todo' # <<>>)
        /\ TodoOK' /\ UnitOK'
    BY <1>0, <1>3, FinishKeeps DEF GiveUp
  <2>3. retval' \in {0, 255} /\ UNCHANGED chipVars
    BY <1>0, <1>3 DEF GiveUp, TypeOK
  <2> QED
    BY <1>0, <1>3, <2>1, <2>2, <2>3 DEF GiveUp, chipVars, TypeInv, TypeOK
<1> QED
  BY <1>1, <1>2, <1>3

\* A unit serves an access: it stores words it read, or words of its registers.
LEMMA TypeServe ==
    ASSUME TypeInv, Serve
    PROVE  TypeInv'
<1>0. PICK u \in Units : \E j \in job[u] : ServeJob(u, j)
  BY DEF Serve
<1>1. PICK j \in job[u] : ServeJob(u, j)
  BY <1>0
<1>2. /\ mem \in [Spaces -> [Regs -> Word]] /\ data \in [Units -> [Slots -> Word]]
      /\ job \in [Units -> SUBSET JobType]
  BY DEF TypeInv, TypeOK
<1>3. j \in JobType
  BY <1>2
<1>4. j.space \in Spaces /\ j.words \subseteq Regs
  BY <1>3 DEF JobType
<1>5. data' \in [Units -> [Slots -> Word]]
  <2> DEFINE held(s) == UNION {mem[j.space][r] : r \in {w \in j.words : Slot(u, w) = s}}
             new == [s \in Slots |-> IF \E r \in j.words : Slot(u, r) = s
                                       THEN held(s) ELSE data[u][s]]
  <2>1. \A s \in Slots : held(s) \in Word
    BY <1>2, <1>4 DEF Word
  <2>2. \A s \in Slots : data[u][s] \in Word
    BY <1>2
  <2> HIDE DEF held
  <2>3. new \in [Slots -> Word]
    BY <2>1, <2>2
  <2> HIDE DEF new
  <2>4. data' \in {data, [data EXCEPT ![u] = new]}
    BY <1>1 DEF ServeJob, new, held
  <2> QED
    BY <1>2, <2>3, <2>4
<1>6. mem' \in [Spaces -> [Regs -> Word]]
  <2> DEFINE new == [r \in Regs |-> IF r \in j.words THEN data[u][Slot(u, r)] ELSE mem[j.space][r]]
  <2>1. \A r \in Regs : Slot(u, r) \in Slots
    BY MmdAssumption DEF MmdAssumption, Slot, Slots
  <2>2. new \in [Regs -> Word]
    BY <1>2, <1>4, <2>1
  <2> HIDE DEF new
  <2>3. mem' \in {mem, [mem EXCEPT ![j.space] = new]}
    BY <1>1 DEF ServeJob, new
  <2> QED
    BY <1>2, <2>2, <2>3
<1>7. job' \in [Units -> SUBSET JobType]
  BY <1>1, <1>2 DEF ServeJob
<1>8. UNCHANGED <<fwVars, sel, history>>
  BY <1>1 DEF ServeJob
<1> QED
  BY <1>5, <1>6, <1>7, <1>8
  DEF fwVars, history, TypeInv, TypeOK, TodoOK, UnitOK, AtAccess, cmd, Direct

\* Every step keeps the types.
LEMMA TypeStep == TypeInv /\ [Next]_vars => TypeInv'
<1> SUFFICES ASSUME TypeInv, [Next]_vars PROVE TypeInv'
  OBVIOUS
<1>1. CASE UNCHANGED vars
  BY <1>1
  DEF vars, fwVars, chipVars, history, TypeInv, TypeOK, TodoOK, UnitOK, AtAccess, cmd, Direct
<1> QED
  BY <1>1, TypeBatch, TypeDirect, TypeUnit, TypePoll, TypeServe DEF Next, Firmware

\* The variables keep their types for any commands, images, losses and bounds.
THEOREM TypeCorrect == Spec => []TypeOK
<1>1. TypeInv => TypeOK
  BY DEF TypeInv
<1> QED
  BY TypeInit, TypeStep, <1>1, PTL DEF Spec

-----------------------------------------------------------------------------
(* The selection of the MCU.                                               *)

\* Until an access is given up, a selection other than the default is that of
\* an access to the DMA MCU under way, which will set it back.
SelectionInv ==
    sel # "default" =>
      \/ late
      \/ pc \in {"start", "poll"} /\ Unit(cmd) = "ocp" /\ cmd.dev = "dma"

\* Every step keeps it: only OCD_Read and OCD_Write touch the selection, and
\* they set it back when the access was served in time.
LEMMA SelectionStep == TypeInv /\ SelectionInv /\ [Next]_vars => SelectionInv'
<1> SUFFICES ASSUME TypeInv, SelectionInv, [Next]_vars PROVE SelectionInv'
  OBVIOUS
<1> USE DEF SelectionInv, cmd, Unit
<1>1. CASE Receive \/ NextCommand \/ DirectRead \/ DirectWrite \/ PostRead \/ PostReadLost
  BY <1>1 DEF Receive, NextCommand, DirectRead, DirectWrite, PostRead, PostReadLost,
              chipVars, history
<1>2. CASE Setup
  <2>1. cmd \in Commands
    BY <1>2, AtCommand DEF Setup, AtAccess, TypeInv
  <2> QED
    BY <1>2, <2>1, CommandFields DEF Setup, Select, Devs, history
<1>3. CASE Start
  BY <1>3 DEF Start, Finish
<1>4. CASE PollBusy \/ PollDone \/ GiveUp
  BY <1>4 DEF PollBusy, PollDone, GiveUp, chipVars, history
<1>5. CASE Serve
  BY <1>5 DEF Serve, ServeJob, fwVars, history
<1>6. CASE UNCHANGED vars
  BY <1>6 DEF vars, fwVars, chipVars, history
<1> QED
  BY <1>1, <1>2, <1>3, <1>4, <1>5, <1>6 DEF Next, Firmware

\* For any batches, until an access is given up or started over another, the
\* selection has its default value whenever no access is under way.
THEOREM SelectionDefault == Spec => []DefaultSelected
<1>1. Init => SelectionInv
  BY DEF Init, SelectionInv
<1>2. SelectionInv => DefaultSelected
  BY DEF SelectionInv, DefaultSelected
<1> QED
  BY TypeInit, TypeStep, <1>1, SelectionStep, <1>2, PTL DEF Spec

-----------------------------------------------------------------------------
(* The words that change.                                                  *)

\* A USB chip is sent no commands for a PCI one.
UsbChip == \A c \in Commands : c.dev # "pci"

\* A write command names the words of an access.
Names(c, j) == c.rw = "write" /\ Home(c) = j.space /\ j.words = WordsOf(Unit(c), Reg(c))

\* A unit about to be started for a write will make it where the word is, and a
\* write pending on a unit is one of the batch or of an earlier one.
NamedInv ==
    /\ pc = "start" /\ Head(todo) = "write" => Space(cmd) = Home(cmd)
    /\ \A u \in Units : \A j \in job[u] :
         j.op = "write" => \/ j \in earlier
                           \/ \E n \in 1..i : Names(pmmd_cmd[n], j)

\* Every step keeps it.
LEMMA NamedStep ==
    ASSUME UsbChip, TypeInv, NamedInv, [Next]_vars
    PROVE  NamedInv'
<1>0. job \in [Units -> SUBSET JobType] /\ i \in Nat
  BY DEF TypeInv, TypeOK
<1>1. CASE Receive
  <2>1. /\ \A u \in Units : job'[u] \subseteq earlier'
        /\ pc' = "next"
    BY <1>1 DEF Receive, chipVars
  <2> QED
    BY <2>1 DEF NamedInv
<1>2. CASE NextCommand
  <2>1. /\ i' \in {i, i + 1} /\ 1..i \subseteq 1..i'
        /\ pmmd_cmd' = pmmd_cmd /\ job' = job /\ earlier' = earlier /\ pc' # "start"
    BY <1>0, <1>2 DEF NextCommand, chipVars, history
  <2> QED
    BY <2>1 DEF NamedInv
<1>3. CASE \/ DirectRead \/ DirectWrite \/ PostRead \/ PostReadLost
           \/ PollBusy \/ PollDone \/ GiveUp
  <2>1. UNCHANGED <<i, pmmd_cmd, job, earlier>> /\ pc' # "start"
    BY <1>3 DEF DirectRead, DirectWrite, PostRead, PostReadLost, PollBusy, PollDone, GiveUp,
                chipVars, history, Finish
  <2> QED
    BY <2>1 DEF NamedInv
<1>4. CASE Setup
  <2>1. UNCHANGED <<i, pmmd_cmd, todo, job, earlier>> /\ sel' = Select(Head(todo))
    BY <1>4 DEF Setup, history
  <2>2. cmd \in Commands /\ ~Direct(cmd)
    BY <1>4, AtCommand DEF Setup, AtAccess, TypeInv
  <2>3. cmd.dev \in {"pla", "dma"} /\ cmd.route \in {"alive"} \cup Channels
    BY <2>2, CommandFields DEF UsbChip, Devs, Routes, Direct, Channels
  <2>4. Head(todo) = "write" => Space(cmd)' = Home(cmd)
    BY <2>1, <2>3 DEF Space, Home, Select, Unit, cmd, Channels
  <2>5. cmd' = cmd
    BY <2>1 DEF cmd
  <2> QED
    BY <2>1, <2>4, <2>5 DEF NamedInv, Space, Home
<1>5. CASE Start
  <2> DEFINE u == Unit(cmd)
             j == [op |-> Head(todo), space |-> Space(cmd), words |-> WordsOf(u, Reg(cmd))]
  <2>1. /\ job' = [job EXCEPT ![u] = {j}] /\ pc = "start" /\ pc' # "start"
        /\ UNCHANGED <<i, pmmd_cmd, earlier>>
    BY <1>5 DEF Start, Finish
  <2>2. j.op = "write" => Names(cmd, j) /\ i \in 1..i
    <3>1. Head(todo) = todo[1] /\ 1 \in 1..Len(todo) /\ i \in 1..i
      BY <2>1 DEF TypeInv, TypeOK
    <3>2. Head(todo) = "write" => cmd.rw = "write"
      BY <2>1, <3>1 DEF TypeInv, TodoOK, AtAccess
    <3> QED
      BY <2>1, <3>1, <3>2 DEF Names, NamedInv
  <2> HIDE DEF u, j
  <2>3. \A v \in Units : \A a \in job'[v] : a = j \/ a \in job[v]
    BY <1>0, <2>1
  <2> QED
    BY <2>1, <2>2, <2>3 DEF NamedInv, cmd
<1>6. CASE Serve
  <2>1. /\ \A u \in Units : job'[u] \subseteq job[u]
        /\ UNCHANGED <<i, pmmd_cmd, todo, pc, sel, earlier>>
    BY <1>0, <1>6 DEF Serve, ServeJob, fwVars, history
  <2> QED
    BY <2>1 DEF NamedInv, Space, Home, cmd
<1>7. CASE UNCHANGED vars
  BY <1>7 DEF vars, fwVars, chipVars, history, NamedInv, Space, Home, cmd
<1> QED
  BY <1>1, <1>2, <1>3, <1>4, <1>5, <1>6, <1>7 DEF Next, Firmware

\* A step changes a word only where a write of the batch or a write left
\* pending by an earlier one names it.
LEMMA ChangesNamed ==
    ASSUME TypeInv, NamedInv, [Next]_vars,
           NEW s \in Spaces, NEW r \in Regs, mem'[s][r] # mem[s][r]
    PROVE  \/ \E j \in earlier : j.op = "write" /\ j.space = s /\ r \in j.words
           \/ \E n \in 1..i : LET c == pmmd_cmd[n]
                              IN  /\ c.rw = "write" /\ Home(c) = s
                                  /\ r \in WordsOf(Unit(c), Reg(c))
<1>0. mem \in [Spaces -> [Regs -> Word]] /\ job \in [Units -> SUBSET JobType]
  BY DEF TypeInv, TypeOK
<1>1. DirectWrite \/ Serve
  BY DEF Next, Firmware, Receive, NextCommand, DirectRead, PostRead, PostReadLost, Setup, Start,
         PollBusy, PollDone, GiveUp, chipVars, vars
<1>2. CASE DirectWrite
  <2>1. AtAccess /\ TypeOK /\ Direct(cmd) /\ Head(todo) = "write"
    BY <1>2 DEF DirectWrite, AtAccess, TypeInv
  <2>2. cmd \in Commands /\ i \in 1..Len(pmmd_cmd)
    BY <2>1, AtCommand
  <2>3. cmd.rw = "write"
    <3>1. Head(todo) = todo[1] /\ 1 \in 1..Len(todo)
      BY <2>1 DEF TypeOK, AtAccess
    <3> QED
      BY <2>1, <3>1 DEF TypeInv, TodoOK
  <2>4. cmd.route \in {"stall", "other"}
    BY <2>1, <2>3 DEF Direct
  <2>5. Home(cmd) = "mdio" /\ WordsOf(Unit(cmd), Reg(cmd)) = {Reg(cmd)}
    BY <2>4 DEF Home, WordsOf, Unit
  <2>6. PICK old : mem' = [mem EXCEPT !["mdio"][Reg(cmd)] = SetVal(cmd, old)]
    BY <1>2 DEF DirectWrite
  <2>7. s = "mdio" /\ r = Reg(cmd)
    BY <1>0, <2>6
  <2>8. i \in 1..i
    BY <2>2
  <2> QED
    BY <2>3, <2>5, <2>7, <2>8 DEF cmd
<1>3. CASE Serve
  <2>0. PICK u \in Units : \E j \in job[u] : ServeJob(u, j)
    BY <1>3 DEF Serve
  <2>1. PICK j \in job[u] : ServeJob(u, j)
    BY <2>0
  <2>2. j.op # "read" /\
        mem' = [mem EXCEPT ![j.space] = [w \in Regs |->
                  IF w \in j.words THEN data[u][Slot(u, w)] ELSE mem[j.space][w]]]
    BY <2>1 DEF ServeJob
  <2>3. j \in JobType
    BY <1>0
  <2>4. j.op = "write"
    BY <2>2, <2>3 DEF JobType
  <2>5. s = j.space /\ r \in j.words
    BY <1>0, <2>2
  <2> QED
    BY <2>4, <2>5 DEF NamedInv, Names
<1> QED
  BY <1>1, <1>2, <1>3

\* For a USB chip, however late it is and whatever is lost on MDIO, only words
\* change that a write of the batch, or one pending when it came, names.
THEOREM OnlyNamedWordsChange == ASSUME UsbChip PROVE Spec => OnlyNamedWords
<1>1. Init => NamedInv
  BY DEF Init, NamedInv
<1>2. TypeInv /\ NamedInv /\ [Next]_vars => NamedInv'
  BY NamedStep
<1>3. TypeInv /\ NamedInv /\ [Next]_vars =>
        [\A s \in Spaces, r \in Regs : mem'[s][r] # mem[s][r] =>
           \/ \E j \in earlier : j.op = "write" /\ j.space = s /\ r \in j.words
           \/ \E n \in 1..i : LET c == pmmd_cmd[n]
                              IN  /\ c.rw = "write" /\ Home(c) = s
                                  /\ r \in WordsOf(Unit(c), Reg(c))]_vars
  BY ChangesNamed
<1> QED
  BY TypeInit, TypeStep, <1>1, <1>2, <1>3, PTL DEF Spec, OnlyNamedWords

-----------------------------------------------------------------------------
(* What a batch is meant to do.                                            *)

Memories == [Spaces -> [Regs -> Word]]

\* What a write of a command leaves in a word, and in the chip.
Written(c, r, w) == IF r = Reg(c) THEN (w \ Mask(c)) \cup (c.data \cap Mask(c)) ELSE w

Stored(c, m) ==
    IF c.rw # "write" THEN m
    ELSE [m EXCEPT ![Home(c)][Reg(c)] = (@ \ Mask(c)) \cup (c.data \cap Mask(c))]

\* A command has a home, and the words it stores are words.
LEMMA StoredType ==
    ASSUME NEW c \in Commands, NEW m \in Memories
    PROVE  /\ Home(c) \in Spaces
           /\ Stored(c, m) \in Memories
           /\ \A s \in Spaces, r \in Regs :
                Stored(c, m)[s][r] = IF c.rw = "write" /\ s = Home(c) THEN Written(c, r, m[s][r])
                                                                       ELSE m[s][r]
<1>1. Home(c) \in Spaces /\ Reg(c) \in Regs /\ c.data \in Word
  BY CommandFields DEF Home, Spaces, Routes
<1>2. m[Home(c)] \in [Regs -> Word] /\ m[Home(c)][Reg(c)] \in Word
  BY <1>1 DEF Memories
<1> DEFINE w == (m[Home(c)][Reg(c)] \ Mask(c)) \cup (c.data \cap Mask(c))
<1>3. w \in Word
  BY <1>1, <1>2 DEF Word
<1>4. Stored(c, m) = IF c.rw # "write" THEN m ELSE [m EXCEPT ![Home(c)][Reg(c)] = w]
  BY DEF Stored
<1>5. \A s \in Spaces, r \in Regs : s = Home(c) =>
        Written(c, r, m[s][r]) = IF r = Reg(c) THEN w ELSE m[s][r]
  BY DEF Written
<1> HIDE DEF w
<1>6. Stored(c, m) \in Memories
  BY <1>1, <1>2, <1>3, <1>4 DEF Memories
<1>7. ASSUME NEW s \in Spaces, NEW r \in Regs
      PROVE  Stored(c, m)[s][r] = IF c.rw = "write" /\ s = Home(c) THEN Written(c, r, m[s][r])
                                                                    ELSE m[s][r]
  BY <1>1, <1>2, <1>4, <1>5 DEF Memories
<1> QED
  BY <1>1, <1>6, <1>7

\* The memory after each command of a batch: that before, with what the command
\* stores.
LEMMA AfterSteps ==
    ASSUME NEW cmds \in Seq(Commands), NEW m \in Memories
    PROVE  /\ After(cmds, m) \in [0..Len(cmds) -> Memories]
           /\ After(cmds, m)[0] = m
           /\ \A n \in 1..Len(cmds) : After(cmds, m)[n] = Stored(cmds[n], After(cmds, m)[n - 1])
<1>1. PICK L \in Nat : L = Len(cmds)
  OBVIOUS
<1> DEFINE Def(at) == [n \in 0..L |-> IF n = 0 THEN m ELSE Stored(cmds[n], at[n - 1])]
<1>2. After(cmds, m) = CHOOSE at : at = Def(at)
  BY <1>1 DEF After, Stored
<1>3. \A n \in 1..L : cmds[n] \in Commands
  BY <1>1
<1>4. PICK step : step = [n \in 1..L |-> [x \in Memories |-> Stored(cmds[n], x)]]
  OBVIOUS
<1>5. step \in [1..L -> [Memories -> Memories]]
  <2>1. \A n \in 1..L : \A x \in Memories : Stored(cmds[n], x) \in Memories
    BY <1>3, StoredType
  <2> QED
    BY <1>4, <2>1
<1>6. \E f : Iteration(f, L, Memories, m, step)
  BY <1>5, Iterates
<1>7. PICK f : Iteration(f, L, Memories, m, step)
  BY <1>6
<1>8. f \in [0..L -> Memories] /\ f[0] = m /\ \A n \in 1..L : f[n] = step[n][f[n - 1]]
  BY <1>7 DEF Iteration
<1>9. \A n \in 1..L : f[n] = Stored(cmds[n], f[n - 1])
  <2>1. \A n \in 1..L : f[n - 1] \in Memories
    BY <1>8
  <2> QED
    BY <1>4, <1>8, <2>1
<1>10. f = Def(f)
  BY <1>8, <1>9
<1>11. After(cmds, m) = Def(After(cmds, m))
  <2> HIDE DEF Def
  <2> QED
    BY <1>2, <1>10, Zenon
<1> DEFINE at == After(cmds, m)
<1>12. at = [n \in 0..L |-> IF n = 0 THEN m ELSE Stored(cmds[n], at[n - 1])]
  BY <1>11
<1> HIDE DEF at
<1>13. at[0] = m /\ \A n \in 1..L : at[n] = Stored(cmds[n], at[n - 1])
  BY <1>12
<1>14. at \in [0..L -> Memories]
  <2> DEFINE Bad == {n \in 0..L : at[n] \notin Memories}
  <2>1. Bad \in SUBSET Nat
    OBVIOUS
  <2>2. CASE Bad # {}
    <3>1. PICK n \in Bad : \A k \in Bad : n <= k
      <4> HIDE DEF Bad
      <4> QED
        BY <2>1, <2>2, LeastElement
    <3>2. n \in 0..L /\ at[n] \notin Memories /\ n # 0
      BY <1>13
    <3>3. n - 1 \in 0..L /\ n \in 1..L /\ ~(n <= n - 1)
      BY <3>2
    <3>4. at[n - 1] \in Memories
      BY <3>1, <3>3
    <3> QED
      BY <1>3, <1>13, <3>2, <3>3, <3>4, StoredType
  <2>3. CASE Bad = {}
    BY <1>12, <2>3
  <2> QED
    BY <2>2, <2>3
<1> QED
  BY <1>1, <1>13, <1>14 DEF at

\* The words a command answers.
Width(c) == CASE c.rw = "read"  -> 1
              [] c.rw = "post"  -> c.num
              [] c.rw = "write" -> 0

\* A command answers no more words than a post may read.
LEMMA WidthType == ASSUME NEW c \in Commands PROVE Width(c) \in Nat /\ Width(c) <= MaxPost + 1
BY CommandFields, MmdAssumption DEF MmdAssumption, CommandType, Width

\* Where the words of each command are in the response.
LEMMA DataNumSteps ==
    ASSUME NEW cmds \in Seq(Commands)
    PROVE  /\ DataNum(cmds) \in [0..Len(cmds) -> Nat]
           /\ DataNum(cmds)[0] = 0
           /\ \A n \in 1..Len(cmds) : DataNum(cmds)[n] = DataNum(cmds)[n - 1] + Width(cmds[n])
<1>1. PICK L \in Nat : L = Len(cmds)
  OBVIOUS
<1> DEFINE Def(num) == [n \in 0..L |-> IF n = 0 THEN 0 ELSE num[n - 1] + Width(cmds[n])]
<1>2. DataNum(cmds) = CHOOSE num : num = Def(num)
  BY <1>1 DEF DataNum, Width
<1>3. \A n \in 1..L : Width(cmds[n]) \in Nat
  BY <1>1, WidthType
<1>4. PICK step : step = [n \in 1..L |-> [x \in Nat |-> x + Width(cmds[n])]]
  OBVIOUS
<1>5. step \in [1..L -> [Nat -> Nat]]
  BY <1>3, <1>4
<1>6. \E f : Iteration(f, L, Nat, 0, step)
  BY <1>5, Iterates
<1>7. PICK f : Iteration(f, L, Nat, 0, step)
  BY <1>6
<1>8. f \in [0..L -> Nat] /\ f[0] = 0 /\ \A n \in 1..L : f[n] = step[n][f[n - 1]]
  BY <1>7 DEF Iteration
<1>9. \A n \in 1..L : f[n] = f[n - 1] + Width(cmds[n])
  <2>1. \A n \in 1..L : f[n - 1] \in Nat
    BY <1>8
  <2> QED
    BY <1>4, <1>8, <2>1
<1>10. f = Def(f)
  BY <1>8, <1>9
<1>11. DataNum(cmds) = Def(DataNum(cmds))
  <2> HIDE DEF Def
  <2> QED
    BY <1>2, <1>10, Zenon
<1> DEFINE num == DataNum(cmds)
<1>12. num = [n \in 0..L |-> IF n = 0 THEN 0 ELSE num[n - 1] + Width(cmds[n])]
  BY <1>11
<1> HIDE DEF num
<1>13. num[0] = 0 /\ \A n \in 1..L : num[n] = num[n - 1] + Width(cmds[n])
  BY <1>12
<1>14. num \in [0..L -> Nat]
  <2> DEFINE Bad == {n \in 0..L : num[n] \notin Nat}
  <2>1. Bad \in SUBSET Nat
    OBVIOUS
  <2>2. CASE Bad # {}
    <3>1. PICK n \in Bad : \A k \in Bad : n <= k
      <4> HIDE DEF Bad
      <4> QED
        BY <2>1, <2>2, LeastElement
    <3>2. n \in 0..L /\ num[n] \notin Nat /\ n # 0
      BY <1>13
    <3>3. n - 1 \in 0..L /\ n \in 1..L /\ ~(n <= n - 1)
      BY <3>2
    <3>4. num[n - 1] \in Nat
      BY <3>1, <3>3
    <3> QED
      BY <1>3, <1>13, <3>2, <3>3, <3>4
  <2>3. CASE Bad = {}
    BY <1>12, <2>3
  <2> QED
    BY <2>2, <2>3
<1> QED
  BY <1>1, <1>13, <1>14 DEF num

\* The words of a command have a place of their own: in the response, and
\* behind those of the commands before.
LEMMA Places ==
    ASSUME NEW cmds \in Seq(Commands), Len(cmds) <= MaxSet,
           NEW n \in 1..Len(cmds), NEW w \in 0..Width(cmds[n]) - 1
    PROVE  /\ DataNum(cmds)[n - 1] + w \in 0 .. (MaxPost + 1) * MaxSet - 1
           /\ \A k \in 1..n - 1 :
                DataNum(cmds)[k - 1] + Width(cmds[k]) <= DataNum(cmds)[n - 1]
<1>1. PICK L \in Nat : L = Len(cmds)
  OBVIOUS
<1>2. PICK num : num = DataNum(cmds)
  OBVIOUS
<1>3. num \in [0..L -> Nat] /\ num[0] = 0 /\ \A k \in 1..L : num[k] = num[k - 1] + Width(cmds[k])
  BY <1>1, <1>2, DataNumSteps
<1>4. PICK wide \in Nat : wide = MaxPost + 1
  BY MmdAssumption DEF MmdAssumption
<1>5. \A k \in 1..L : Width(cmds[k]) \in Nat /\ Width(cmds[k]) <= wide
  BY <1>1, <1>4, WidthType
<1>6. \A k \in 1..L : num[k - 1] \in Nat /\ num[k - 1] <= num[k] /\ num[k] <= num[k - 1] + wide
  BY <1>3, <1>5
<1>7. \A a, b \in 0..L : a <= b => num[a] <= num[b]
  BY <1>3, <1>6, Rising
<1>8. n \in 1..L /\ n \in 0..L /\ n - 1 \in 0..L /\ num[n] \in Nat
  BY <1>1, <1>3
<1>9. num[n] <= wide * n
  BY <1>3, <1>4, <1>6, <1>8, Bounded
<1>10. wide * n <= wide * MaxSet
  <2>1. MaxSet \in Nat /\ n <= MaxSet
    BY <1>1, <1>8, MmdAssumption DEF MmdAssumption
  <2>2. PICK d \in Nat : MaxSet = n + d
    <3>1. MaxSet - n \in Nat /\ MaxSet = n + (MaxSet - n)
      BY <1>8, <2>1
    <3> QED
      BY <3>1
  <2>3. wide * (n + d) = wide * n + wide * d /\ wide * n \in Nat /\ wide * d \in Nat
    BY <1>4, <1>8, <2>2
  <2> QED
    BY <2>2, <2>3
<1>11. num[n - 1] + w \in 0..wide * MaxSet - 1
  <2>1. num[n] = num[n - 1] + Width(cmds[n]) /\ num[n - 1] \in Nat /\ Width(cmds[n]) \in Nat
    BY <1>3, <1>5, <1>8
  <2>2. wide * n \in Nat /\ wide * MaxSet \in Nat
    BY <1>4, <1>8, MmdAssumption DEF MmdAssumption
  <2> QED
    BY <1>9, <1>10, <2>1, <2>2
<1>12. ASSUME NEW k \in 1..n - 1 PROVE num[k - 1] + Width(cmds[k]) <= num[n - 1]
  <2>1. k \in 1..L /\ k \in 0..L /\ k <= n - 1
    BY <1>8
  <2> QED
    BY <1>3, <1>7, <1>8, <2>1
<1> QED
  BY <1>2, <1>4, <1>11, <1>12

-----------------------------------------------------------------------------
(* The accesses left, and what the units have been started for.            *)

ReadsFirst(c) == Partial(c) \/ c.route = "efuse"

\* The accesses left of a read or write command.
TodoShape ==
    AtAccess => \/ cmd.rw = "post"
                \/ cmd.rw = "read" /\ todo = <<"read">>
                \/ cmd.rw = "write" /\ todo = <<"write">>
                \/ cmd.rw = "write" /\ ReadsFirst(cmd) /\ todo = <<"read", "write">>

\* The access being made, and those after it.
LEMMA AccessKinds ==
    ASSUME TypeInv, TodoShape, AtAccess
    PROVE  \/ cmd.rw = "post" /\ Head(todo) = "post"
           \/ cmd.rw = "read" /\ Head(todo) = "read" /\ Tail(todo) = <<>>
           \/ cmd.rw = "write" /\ Head(todo) = "write" /\ Tail(todo) = <<>>
           \/ cmd.rw = "write" /\ Head(todo) = "read" /\ Tail(todo) = <<"write">> /\ ReadsFirst(cmd)
<1>1. CASE cmd.rw = "post"
  <2>1. Head(todo) = todo[1] /\ 1 \in 1..Len(todo)
    BY DEF TypeInv, TypeOK, AtAccess
  <2> QED
    BY <1>1, <2>1 DEF TypeInv, TodoOK
<1>2. CASE cmd.rw # "post"
  <2>1. Head(<<"read">>) = "read" /\ Tail(<<"read">>) = <<>>
    OBVIOUS
  <2>2. Head(<<"write">>) = "write" /\ Tail(<<"write">>) = <<>>
    OBVIOUS
  <2>3. Head(<<"read", "write">>) = "read" /\ Tail(<<"read", "write">>) = <<"write">>
    OBVIOUS
  <2> QED
    BY <1>2, <2>1, <2>2, <2>3 DEF TodoShape
<1> QED
  BY <1>1, <1>2

\* Every step keeps their shape.
LEMMA ShapeStep == TypeInv /\ TodoShape /\ [Next]_vars => TodoShape'
<1> SUFFICES ASSUME TypeInv, TodoShape, [Next]_vars PROVE TodoShape'
  OBVIOUS
<1>1. CASE Receive \/ PostReadLost
  BY <1>1 DEF Receive, PostReadLost, TodoShape, AtAccess
<1>2. CASE NextCommand
  <2>1. CASE i < Len(pmmd_cmd)
    <3>1. /\ i' = i + 1 /\ todo' = Accesses(pmmd_cmd[i + 1]) /\ pmmd_cmd' = pmmd_cmd
      BY <1>2, <2>1 DEF NextCommand
    <3>2. cmd' = pmmd_cmd[i + 1]
      BY <3>1 DEF cmd
    <3>3. pmmd_cmd[i + 1] \in Commands
      BY <2>1, ElementOfSeq DEF TypeInv, TypeOK
    <3> QED
      BY <3>1, <3>2, <3>3, CommandFields DEF TodoShape, Accesses, ReadsFirst
  <2>2. CASE ~(i < Len(pmmd_cmd))
    BY <1>2, <2>2 DEF NextCommand, TodoShape, AtAccess
  <2> QED
    BY <2>1, <2>2
<1>3. CASE Finish /\ AtAccess /\ UNCHANGED <<pmmd_cmd, i>>
  <2>1. cmd' = cmd /\ todo' = Tail(todo) /\ (AtAccess' => todo' # <<>>)
    BY <1>3 DEF cmd, Finish, AtAccess
  <2> QED
    BY <1>3, <2>1, AccessKinds DEF TodoShape
<1>4. CASE UNCHANGED <<pmmd_cmd, i, todo>> /\ (AtAccess' => AtAccess)
  BY <1>4 DEF TodoShape, cmd
<1>5. CASE DirectRead \/ DirectWrite \/ PostRead
  BY <1>3, <1>5 DEF DirectRead, DirectWrite, PostRead, AtAccess
<1>6. CASE Setup \/ Start
  BY <1>3, <1>4, <1>6 DEF Setup, Start, AtAccess
<1>7. CASE PollBusy \/ PollDone \/ GiveUp
  BY <1>3, <1>4, <1>7 DEF PollBusy, PollDone, GiveUp, AtAccess
<1>8. CASE Serve
  BY <1>4, <1>8 DEF Serve, ServeJob, fwVars, AtAccess
<1>9. CASE UNCHANGED vars
  BY <1>4, <1>9 DEF vars, fwVars, AtAccess
<1> QED
  BY <1>1, <1>2, <1>5, <1>6, <1>7, <1>8, <1>9 DEF Next, Firmware

\* The unit of a space of the chip.
UnitOf(s) == IF s \in {"pla", "dma"} THEN "ocp" ELSE s

\* A unit has been started for at most one access, to words of a space of its own.
JobsInv ==
    \A u \in Units : \A j \in job[u] :
      /\ job[u] = {j} /\ j.space # "mdio" /\ UnitOf(j.space) = u
      /\ \E r \in Regs : j.words = WordsOf(u, r)

\* Every step keeps it.
LEMMA JobsStep == TypeInv /\ TodoShape /\ JobsInv /\ [Next]_vars => JobsInv'
<1> SUFFICES ASSUME TypeInv, TodoShape, JobsInv, [Next]_vars PROVE JobsInv'
  OBVIOUS
<1>0. job \in [Units -> SUBSET JobType]
  BY DEF TypeInv, TypeOK
<1>1. CASE UNCHANGED job
  BY <1>1 DEF JobsInv
<1>2. CASE Start
  <2>1. cmd \in Commands /\ ~Direct(cmd)
    BY <1>2, AtCommand DEF Start, AtAccess, TypeInv, UnitOK
  <2>2. /\ Unit(cmd) \in Units /\ Reg(cmd) \in Regs
        /\ Space(cmd) # "mdio" /\ UnitOf(Space(cmd)) = Unit(cmd)
    BY <2>1, CommandFields DEF Space, Unit, UnitOf, Units, Direct, Channels, Routes
  <2> DEFINE j == [op |-> Head(todo), space |-> Space(cmd), words |-> WordsOf(Unit(cmd), Reg(cmd))]
  <2>3. job' = [job EXCEPT ![Unit(cmd)] = {j}]
    BY <1>2 DEF Start
  <2>4. j.space = Space(cmd) /\ j.words = WordsOf(Unit(cmd), Reg(cmd))
    OBVIOUS
  <2> HIDE DEF j
  <2> QED
    BY <1>0, <2>2, <2>3, <2>4 DEF JobsInv
<1>3. CASE Serve
  BY <1>0, <1>3 DEF Serve, ServeJob, JobsInv
<1>4. CASE Receive \/ NextCommand \/ DirectRead \/ DirectWrite \/ PostRead \/ PostReadLost
           \/ Setup \/ PollBusy \/ PollDone \/ GiveUp \/ UNCHANGED vars
  BY <1>1, <1>4 DEF Receive, NextCommand, DirectRead, DirectWrite, PostRead, PostReadLost,
                    Setup, PollBusy, PollDone, GiveUp, vars, chipVars
<1> QED
  BY <1>2, <1>3, <1>4 DEF Next, Firmware

-----------------------------------------------------------------------------
(* Accesses in time.                                                       *)

\* Commands whose accesses to the DMA MCU reach it: OCD_Read selects it with a
\* value that it does not have.
DmaWritesWhole ==
    \A c \in Commands : c.route = "alive" /\ c.dev = "dma" =>
      c.rw = "post" \/ (c.rw = "write" /\ ~Partial(c))

\* The access a command asks its unit for.
Access(c, op) == [op |-> op, space |-> Home(c), words |-> WordsOf(Unit(c), Reg(c))]

\* While every access has been served in its time, a unit has an access pending
\* only while it is polled for that, or for an EFUSE write, which nobody polls;
\* a unit has none when its registers are set for a write; and a unit is started
\* for the space of the command.
OnTimeInv ==
    ~late =>
      /\ \A u \in Units : job[u] # {} => \/ pc = "poll" /\ u = Unit(cmd)
                                         \/ u = "efuse" /\ \A j \in job[u] : j.op = "write"
      /\ pc = "poll" => /\ job[Unit(cmd)] \subseteq {Access(cmd, Head(todo))}
                        /\ ~(Unit(cmd) = "efuse" /\ Head(todo) = "write")
      /\ pc \in {"access", "start"} /\ ~Direct(cmd) /\ Head(todo) = "write" => job[Unit(cmd)] = {}
      /\ pc = "start" => Space(cmd) = Home(cmd)

\* A set-up makes the selection its access needs.
LEMMA SetupSelects ==
    ASSUME DmaWritesWhole, TypeInv, SelectionInv, TodoShape, ~late, Setup
    PROVE  Space(cmd)' = Home(cmd)
<1>1. AtAccess /\ cmd \in Commands /\ ~Direct(cmd) /\ cmd' = cmd
  BY AtCommand DEF Setup, AtAccess, TypeInv, cmd
<1>2. sel = "default" /\ sel' = Select(Head(todo))
  BY DEF Setup, SelectionInv
<1>3. CASE cmd.route = "alive"
  <2>1. cmd.dev = "dma" => Head(todo) = "write"
    BY <1>1, <1>3, AccessKinds DEF DmaWritesWhole, ReadsFirst, Direct
  <2> QED
    BY <1>1, <1>2, <1>3, <2>1, CommandFields DEF Select, Space, Home, Unit, Devs
<1>4. CASE cmd.route # "alive"
  <2>1. cmd.route \in Channels
    BY <1>1, <1>4, CommandFields DEF Routes, Direct
  <2> QED
    BY <1>1, <1>4, <2>1 DEF Space, Home, Channels
<1> QED
  BY <1>3, <1>4

\* A batch that arrives while nothing is late finds no access pending.
LEMMA NoneEarlier ==
    ASSUME Receive, ~late'
    PROVE  ~late /\ \A u \in Units : job[u] = {} /\ job'[u] = {}
<1>1. ~late /\ UNION {job[u] : u \in Units} = {} /\ job' = job
  BY DEF Receive, chipVars
<1>2. \A u \in Units : job[u] \subseteq UNION {job[v] : v \in Units}
  OBVIOUS
<1> QED
  BY <1>1, <1>2

\* Every step keeps it.
LEMMA OnTimeStep ==
    ASSUME DmaWritesWhole, TypeInv, SelectionInv, TodoShape, OnTimeInv, [Next]_vars
    PROVE  OnTimeInv'
<1> SUFFICES ASSUME ~late' PROVE OnTimeInv'
  BY DEF OnTimeInv
<1>0. job \in [Units -> SUBSET JobType]
  BY DEF TypeInv, TypeOK
<1>1. CASE Receive
  <2>1. \A u \in Units : job'[u] = {}
    BY <1>1, NoneEarlier
  <2>2. pc' = "next"
    BY <1>1 DEF Receive
  <2> QED
    BY <2>1, <2>2 DEF OnTimeInv
<1>2. CASE NextCommand
  <2>1. UNCHANGED <<job, late, pmmd_cmd>> /\ pc = "next" /\ pc' \in {"idle", "next", "access"}
    BY <1>2 DEF NextCommand, chipVars, history
  <2>2. ASSUME pc' = "access", ~Direct(cmd'), Head(todo') = "write"
        PROVE  job[Unit(cmd')] = {}
    <3>1. i < Len(pmmd_cmd) /\ i' = i + 1 /\ todo' = Accesses(pmmd_cmd[i + 1])
      BY <1>2, <2>2 DEF NextCommand
    <3>2. cmd' = pmmd_cmd[i + 1] /\ cmd' \in Commands
      BY <2>1, <3>1, ElementOfSeq DEF cmd, TypeInv, TypeOK
    <3>3. cmd'.route # "efuse"
      <4>1. Head(<<"read", "write">>) = "read" /\ \A op : Head(<<op>>) = op
        OBVIOUS
      <4> QED
        BY <2>2, <3>1, <3>2, <4>1 DEF Accesses, Direct
    <3>4. Unit(cmd') \in Units /\ Unit(cmd') # "efuse"
      BY <2>2, <3>2, <3>3, UnitFields DEF Unit
    <3> QED
      BY <2>1, <3>4 DEF OnTimeInv
  <2> QED
    BY <2>1, <2>2 DEF OnTimeInv, Direct
<1>3. CASE DirectRead \/ DirectWrite \/ PostRead \/ PostReadLost
  <2>1. /\ UNCHANGED <<job, late, pmmd_cmd, i>> /\ pc = "access" /\ pc' \in {"next", "access"}
        /\ pc' = "access" => Direct(cmd)
    <3>1. Head(todo) = "post" => Direct(cmd)
      <4>1. pc = "access" => AtAccess
        BY DEF AtAccess
      <4> QED
        BY <1>3, <4>1, AccessKinds DEF Direct, DirectRead, DirectWrite, PostRead, PostReadLost
    <3> QED
      BY <1>3, <3>1 DEF DirectRead, DirectWrite, PostRead, PostReadLost, chipVars, history, Finish
  <2>2. cmd' = cmd
    BY <2>1 DEF cmd
  <2> QED
    BY <2>1, <2>2 DEF OnTimeInv, Direct
<1>4. CASE Setup
  <2>1. UNCHANGED <<job, late, pmmd_cmd, i, todo>> /\ pc = "access" /\ pc' = "start"
    BY <1>4 DEF Setup, history
  <2>2. cmd' = cmd /\ Space(cmd)' = Home(cmd)
    BY <1>4, <2>1, SetupSelects DEF cmd
  <2> QED
    BY <2>1, <2>2 DEF OnTimeInv, Direct, Space, Home
<1>5. CASE Start
  <2>1. /\ pc = "start" /\ AtAccess /\ ~late /\ job[Unit(cmd)] = {}
        /\ UNCHANGED <<pmmd_cmd, i>>
        /\ job' = [job EXCEPT ![Unit(cmd)] =
                     {[op |-> Head(todo), space |-> Space(cmd), words |-> WordsOf(Unit(cmd), Reg(cmd))]}]
    BY <1>5 DEF Start, AtAccess
  <2>2. cmd \in Commands /\ ~Direct(cmd) /\ cmd' = cmd
    BY <2>1, AtCommand DEF TypeInv, UnitOK, cmd
  <2>3. Unit(cmd) \in Units /\ Space(cmd) = Home(cmd)
    BY <2>1, <2>2, UnitFields DEF OnTimeInv
  <2> DEFINE j == Access(cmd, Head(todo))
  <2>4. job' = [job EXCEPT ![Unit(cmd)] = {j}] /\ j.op = Head(todo)
    BY <2>1, <2>3 DEF Access
  <2> HIDE DEF j
  <2>5. \A u \in Units : job'[u] = IF u = Unit(cmd) THEN {j} ELSE job[u]
    BY <1>0, <2>3, <2>4
  <2>6. \A u \in Units : job[u] # {} => u = "efuse" /\ \A a \in job[u] : a.op = "write"
    BY <2>1 DEF OnTimeInv
  <2>7. CASE Unit(cmd) = "efuse" /\ Head(todo) = "write"
    <3>1. pc' = "next"
      BY <1>5, <2>1, <2>7, AccessKinds DEF Start, Finish
    <3>2. \A u \in Units : job'[u] # {} => u = "efuse" /\ \A a \in job'[u] : a.op = "write"
      BY <2>4, <2>5, <2>6, <2>7
    <3> QED
      BY <3>1, <3>2 DEF OnTimeInv
  <2>8. CASE ~(Unit(cmd) = "efuse" /\ Head(todo) = "write")
    <3>1. pc' = "poll" /\ todo' = todo
      BY <1>5, <2>8 DEF Start
    <3>2. job'[Unit(cmd)] \subseteq {Access(cmd, Head(todo))}
      BY <2>3, <2>5 DEF j
    <3> QED
      BY <2>2, <2>5, <2>6, <2>8, <3>1, <3>2 DEF OnTimeInv, Access, Unit, Home, WordsOf, Reg
  <2> QED
    BY <2>7, <2>8
<1>6. CASE PollBusy \/ UNCHANGED vars
  <2>1. UNCHANGED <<pmmd_cmd, i, todo, pc, late, job, sel>>
    BY <1>6 DEF PollBusy, chipVars, history, vars, fwVars
  <2> QED
    BY <2>1 DEF OnTimeInv, cmd, Direct, Unit, Space, Home, Access, WordsOf, Reg
<1>7. CASE PollDone
  <2>1. /\ UNCHANGED <<pmmd_cmd, i, job>> /\ pc = "poll" /\ ~late /\ job[Unit(cmd)] = {}
        /\ pc' \in {"next", "access"}
    BY <1>7 DEF PollDone, Finish
  <2>2. cmd' = cmd
    BY <2>1 DEF cmd
  <2> QED
    BY <2>1, <2>2 DEF OnTimeInv, Unit
<1>8. CASE GiveUp
  BY <1>8 DEF GiveUp
<1>9. CASE Serve
  <2>1. UNCHANGED <<pmmd_cmd, i, todo, pc, late, sel>> /\ \A u \in Units : job'[u] \subseteq job[u]
    BY <1>0, <1>9 DEF Serve, ServeJob, fwVars, history
  <2>2. /\ pc \in {"access", "start", "poll"} /\ ~Direct(cmd) => Unit(cmd) \in Units
        /\ pc = "poll" => ~Direct(cmd)
    BY AtCommand, UnitFields DEF TypeInv, UnitOK, AtAccess
  <2>3. cmd' = cmd
    BY <2>1 DEF cmd
  <2> QED
    BY <2>1, <2>2, <2>3 DEF OnTimeInv, Direct, Unit, Space, Home, Access, WordsOf, Reg
<1> QED
  BY <1>1, <1>2, <1>3, <1>4, <1>5, <1>6, <1>7, <1>8, <1>9 DEF Next, Firmware

-----------------------------------------------------------------------------
(* The memory of the chip.                                                 *)

\* Everything has been served in its time, and every read answered.
InOrder == ~late /\ ~lost

\* What a word holds once the write pending for it has been made.
Coming(s, r) ==
    IF s # "mdio" /\ \E j \in job[UnitOf(s)] : j.op = "write" /\ j.space = s /\ r \in j.words
      THEN data[UnitOf(s)][Slot(UnitOf(s), r)]
      ELSE mem[s][r]

\* What the chip is meant to hold after n commands, and how many commands have
\* had their effect: that of a write is made when its unit is started.
Meant(n)  == After(pmmd_cmd, before)[n]
Made      == pc \in {"idle", "next"} \/ (pc = "poll" /\ Head(todo) = "write")
Performed == IF Made THEN i ELSE i - 1

\* The chip holds, or is about to hold, what it is meant to.
MemoryInv == \A s \in Spaces, r \in Regs : Coming(s, r) = Meant(Performed)[s][r]

\* A write that reads first has read the word as it is.
ReadInv ==
    pc = "access" /\ cmd.rw = "write" /\ Head(todo) = "write" /\ ReadsFirst(cmd) =>
      IF Unit(cmd) \in Channels THEN rd_data = Coming(Home(cmd), Reg(cmd))
                                ELSE readval = {Coming(Home(cmd), Reg(cmd))}

\* The data registers of a unit hold the words of the access: as they are before
\* an EFUSE write is set up, ...
RestInv ==
    pc = "access" /\ cmd.rw = "write" /\ Head(todo) = "write" /\ Unit(cmd) = "efuse" =>
      \A r \in WordsOf(Unit(cmd), Reg(cmd)) :
        data[Unit(cmd)][Slot(Unit(cmd), r)] = Coming(Home(cmd), r)

\* ... with the field written before the unit is started for a write, ...
SetInv ==
    pc = "start" /\ Head(todo) = "write" =>
      \A r \in WordsOf(Unit(cmd), Reg(cmd)) :
        data[Unit(cmd)][Slot(Unit(cmd), r)] = Written(cmd, r, Coming(Home(cmd), r))

\* ... and as they are when it has served a read.
FetchedInv ==
    pc = "poll" /\ Head(todo) = "read" /\ job[Unit(cmd)] = {} =>
      \A r \in WordsOf(Unit(cmd), Reg(cmd)) :
        data[Unit(cmd)][Slot(Unit(cmd), r)] = Coming(Home(cmd), r)

MemInv == InOrder => MemoryInv /\ ReadInv /\ RestInv /\ SetInv /\ FetchedInv

\* The words of an access have data registers of their own.
LEMMA Slots1 ==
    ASSUME NEW c \in Commands, ~Direct(c), NEW r \in WordsOf(Unit(c), Reg(c))
    PROVE  /\ r \in Regs /\ Slot(Unit(c), r) \in Slots
           /\ \A w \in WordsOf(Unit(c), Reg(c)) : Slot(Unit(c), w) = Slot(Unit(c), r) => w = r
           /\ Reg(c) \in WordsOf(Unit(c), Reg(c))
           /\ Unit(c) # "efuse" => r = Reg(c)
<1>1. Reg(c) \in Nat /\ Reg(c) \in Regs /\ r \in Regs /\ r \in Nat
  BY CommandFields, UnitFields, MmdAssumption DEF MmdAssumption
<1> DEFINE h == Reg(c) \div 2
<1>2. h \in Nat /\ (Reg(c) = 2 * h \/ Reg(c) = 2 * h + 1)
  BY <1>1
<1>3. (2 * h) % 2 = 0 /\ (2 * h + 1) % 2 = 1
  BY <1>2
<1> QED
  BY <1>1, <1>2, <1>3 DEF WordsOf, Slot, Slots

\* Words are words, pending or not.
LEMMA ComingType ==
    ASSUME TypeInv, NEW s \in Spaces, NEW r \in Regs
    PROVE  Coming(s, r) \in Word
<1>1. s # "mdio" => UnitOf(s) \in Units
  BY DEF UnitOf, Units, Spaces, Channels
<1>2. \A u : Slot(u, r) \in Slots
  BY MmdAssumption DEF MmdAssumption, Slot, Slots
<1> QED
  BY <1>1, <1>2 DEF Coming, TypeInv, TypeOK

\* The unit of a command is that of its home.
LEMMA HomeUnit ==
    ASSUME NEW c \in Commands
    PROVE  /\ Home(c) \in Spaces
           /\ ~Direct(c) => Home(c) # "mdio" /\ UnitOf(Home(c)) = Unit(c)
           /\ Direct(c) /\ c.rw # "post" => Home(c) = "mdio" /\ Unit(c) \notin Channels
BY CommandFields DEF Home, Unit, UnitOf, Direct, Routes, Channels, Spaces

\* What a write command stores is its field in the word it has read.
LEMMA SetValWritten ==
    ASSUME NEW c \in Commands, NEW w \in Word, NEW old, Partial(c) => old = w
    PROVE  SetVal(c, old) = Written(c, Reg(c), w)
<1>1. c.data \subseteq WordBits /\ w \subseteq WordBits
  BY CommandFields DEF Word
<1>2. CASE Partial(c)
  BY <1>2 DEF SetVal, Written
<1>3. CASE ~Partial(c)
  BY <1>1, <1>3 DEF SetVal, Written, Partial
<1> QED
  BY <1>2, <1>3

\* The memory meant after each command of the batch.
LEMMA MeantSteps ==
    ASSUME TypeInv
    PROVE  /\ Meant(0) = before
           /\ \A n \in 0..Len(pmmd_cmd) : Meant(n) \in Memories
           /\ \A n \in 1..Len(pmmd_cmd), s \in Spaces, r \in Regs :
                LET c == pmmd_cmd[n]
                IN  Meant(n)[s][r] = IF c.rw = "write" /\ s = Home(c)
                                       THEN Written(c, r, Meant(n - 1)[s][r])
                                       ELSE Meant(n - 1)[s][r]
<1>1. pmmd_cmd \in Seq(Commands) /\ before \in Memories
  BY DEF TypeInv, TypeOK, Memories
<1>2. /\ Meant(0) = before
      /\ \A n \in 0..Len(pmmd_cmd) : Meant(n) \in Memories
      /\ \A n \in 1..Len(pmmd_cmd) : Meant(n) = Stored(pmmd_cmd[n], Meant(n - 1))
  BY <1>1, AfterSteps DEF Meant
<1>3. \A n \in 1..Len(pmmd_cmd) : pmmd_cmd[n] \in Commands /\ n - 1 \in 0..Len(pmmd_cmd)
  BY <1>1, ElementOfSeq
<1> HIDE DEF Meant
<1> QED
  BY <1>2, <1>3, StoredType

\* A unit that serves its access does not change what is coming.
LEMMA ServeComing ==
    ASSUME TypeInv, JobsInv, NEW u \in Units, NEW j \in job[u], ServeJob(u, j),
           NEW s \in Spaces, NEW r \in Regs
    PROVE  Coming(s, r)' = Coming(s, r)
<1>1. /\ mem \in [Spaces -> [Regs -> Word]] /\ job \in [Units -> SUBSET JobType]
      /\ data \in [Units -> [Slots -> Word]]
  BY DEF TypeInv, TypeOK
<1>2. job[u] = {j} /\ UnitOf(j.space) = u /\ j.space # "mdio" /\ j \in JobType
  BY <1>1 DEF JobsInv
<1>3. j.op \in {"read", "write"} /\ j.space \in Spaces
  BY <1>2 DEF JobType
<1>4. job'[u] = {} /\ \A v \in Units : v # u => job'[v] = job[v] /\ data'[v] = data[v]
  BY <1>1 DEF ServeJob
<1>5. s # "mdio" => UnitOf(s) \in Units
  BY DEF UnitOf, Units, Spaces, Channels
<1>6. mem'[s][r] = IF j.op = "write" /\ s = j.space /\ r \in j.words
                     THEN data[u][Slot(u, r)] ELSE mem[s][r]
  BY <1>1, <1>3 DEF ServeJob
<1>7. CASE s # "mdio" /\ UnitOf(s) = u
  BY <1>2, <1>4, <1>6, <1>7 DEF Coming
<1>8. CASE ~(s # "mdio" /\ UnitOf(s) = u)
  <2>1. mem'[s][r] = mem[s][r]
    BY <1>2, <1>6, <1>8
  <2> QED
    BY <1>4, <1>5, <1>8, <2>1 DEF Coming
<1> QED
  BY <1>7, <1>8

\* A batch and its next command.
LEMMA MemBatch ==
    ASSUME TypeInv, TypeInv', MemInv, Receive \/ NextCommand
    PROVE  MemInv'
<1> SUFFICES ASSUME InOrder' PROVE (MemoryInv /\ ReadInv /\ RestInv /\ SetInv /\ FetchedInv)'
  BY DEF MemInv
<1>1. CASE Receive
  <2>1. UNCHANGED mem /\ pc' = "next" /\ i' = 0 /\ before' = mem
    BY <1>1 DEF Receive, chipVars
  <2>2. \A u \in Units : job'[u] = {}
    BY <1>1, NoneEarlier DEF InOrder
  <2>3. \A s \in Spaces : s # "mdio" => UnitOf(s) \in Units
    BY DEF UnitOf, Units, Spaces, Channels
  <2>4. \A s \in Spaces, r \in Regs : Coming(s, r)' = mem[s][r]
    BY <2>1, <2>2, <2>3 DEF Coming
  <2>5. Meant(Performed)' = mem
    <3>1. pmmd_cmd' \in Seq(Commands) /\ before' \in Memories
      BY DEF TypeInv, TypeOK, Memories
    <3>2. After(pmmd_cmd', before')[0] = before'
      BY <3>1, AfterSteps
    <3>3. Made'
      BY <2>1 DEF Made
    <3> QED
      BY <2>1, <3>2, <3>3 DEF Meant, Performed
  <2> QED
    BY <2>1, <2>4, <2>5 DEF MemoryInv, ReadInv, RestInv, SetInv, FetchedInv
<1>2. CASE NextCommand
  <2>1. /\ UNCHANGED <<pmmd_cmd, readval, rd_data, chipVars, history>>
        /\ pc = "next" /\ pc' \in {"idle", "next", "access"}
    BY <1>2 DEF NextCommand
  <2>2. MemoryInv /\ Performed = i
    <3>1. Made
      BY <2>1 DEF Made
    <3> QED
      BY <2>1, <3>1 DEF MemInv, InOrder, history, Performed
  <2>3. \A s \in Spaces, r \in Regs : Coming(s, r)' = Coming(s, r)
    BY <2>1 DEF Coming, chipVars
  <2>4. UNCHANGED <<pmmd_cmd, before>>
    BY <2>1 DEF history
  <2>5. CASE i < Len(pmmd_cmd)
    <3> DEFINE c == pmmd_cmd[i + 1]
    <3>1. /\ i' = i + 1 /\ todo' = Accesses(c)
          /\ pc' = IF Accesses(c) = <<>> THEN "next" ELSE "access"
      BY <1>2, <2>5 DEF NextCommand
    <3>2. c \in Commands /\ cmd' = c /\ i + 1 \in 1..Len(pmmd_cmd) /\ i \in Nat /\ i' - 1 = i
      BY <2>1, <2>5, <3>1, ElementOfSeq DEF TypeInv, TypeOK, cmd
    <3>3. /\ Head(<<"read", "write">>) = "read" /\ <<"read", "write">> # <<>>
          /\ \A op : Head(<<op>>) = op /\ <<op>> # <<>>
      OBVIOUS
    <3>4. pc' = "next" => c.rw = "post"
      BY <3>1, <3>3 DEF Accesses
    <3>5. c.rw = "write" /\ ReadsFirst(c) => Head(todo') = "read"
      BY <3>1, <3>3 DEF Accesses, ReadsFirst
    <3>6. \A s \in Spaces, r \in Regs : Meant(Performed)'[s][r] = Meant(i)[s][r]
      <4>1. CASE pc' = "next"
        <5>1. Made'
          BY <4>1 DEF Made
        <5>2. Meant(Performed)' = Meant(i + 1)
          BY <2>4, <3>1, <5>1 DEF Performed, Meant
        <5>3. \A s \in Spaces, r \in Regs : Meant(i + 1)[s][r] = Meant(i + 1 - 1)[s][r]
          BY <3>2, <3>4, <4>1, MeantSteps
        <5> QED
          BY <3>2, <5>2, <5>3
      <4>2. CASE pc' = "access"
        <5>1. ~Made'
          BY <4>2 DEF Made
        <5>2. Meant(Performed)' = Meant(i)
          BY <2>4, <3>1, <3>2, <5>1 DEF Performed, Meant
        <5> QED
          BY <5>2
      <4> QED
        BY <3>1, <4>1, <4>2
    <3>7. Unit(c) = "efuse" => ReadsFirst(c)
      BY DEF Unit, ReadsFirst
    <3> HIDE DEF c
    <3> QED
      BY <2>1, <2>2, <2>3, <3>2, <3>5, <3>6, <3>7
      DEF MemoryInv, ReadInv, RestInv, SetInv, FetchedInv
  <2>6. CASE ~(i < Len(pmmd_cmd))
    <3>1. pc' = "idle" /\ i' = i
      BY <1>2, <2>6 DEF NextCommand
    <3>2. Made'
      BY <3>1 DEF Made
    <3>3. Meant(Performed)' = Meant(i)
      BY <2>4, <3>1, <3>2 DEF Performed, Meant
    <3> QED
      BY <2>2, <2>3, <3>1, <3>3 DEF MemoryInv, ReadInv, RestInv, SetInv, FetchedInv
  <2> QED
    BY <2>5, <2>6
<1> QED
  BY <1>1, <1>2

\* The accesses made directly.
LEMMA MemDirect ==
    ASSUME TypeInv, TodoShape, MemInv, DirectRead \/ DirectWrite \/ PostRead \/ PostReadLost
    PROVE  MemInv'
<1> SUFFICES ASSUME InOrder' PROVE (MemoryInv /\ ReadInv /\ RestInv /\ SetInv /\ FetchedInv)'
  BY DEF MemInv
<1>0. /\ AtAccess /\ cmd' = cmd /\ pmmd_cmd[i] = cmd /\ pc = "access" /\ i' = i
      /\ UNCHANGED <<pmmd_cmd, before, job, data>>
  BY DEF DirectRead, DirectWrite, PostRead, PostReadLost, AtAccess, cmd, chipVars, history
<1>1. cmd \in Commands /\ i \in 1..Len(pmmd_cmd) /\ Reg(cmd) \in Regs
  BY <1>0, AtCommand, CommandFields DEF TypeInv
<1>2. Performed = i - 1
  <2>1. ~Made
    BY <1>0 DEF Made
  <2> QED
    BY <2>1 DEF Performed
<1>3. ~PostReadLost
  BY DEF PostReadLost, InOrder
<1>4. MemoryInv
  BY DEF MemInv, InOrder, DirectRead, DirectWrite, PostRead, PostReadLost, history
<1>5. pc' \in {"next", "access"} /\ todo' = Tail(todo) /\ (pc' = "access" <=> Tail(todo) # <<>>)
  BY <1>3 DEF DirectRead, DirectWrite, PostRead, Finish
<1>6. Meant(Performed)' = Meant(IF pc' = "next" THEN i ELSE i - 1)
  <2>1. Made' <=> pc' = "next"
    BY <1>5 DEF Made
  <2> QED
    BY <1>0, <2>1 DEF Performed, Meant
<1>7. CASE DirectWrite
  <2>1. PICK old \in Readvals : mem' = [mem EXCEPT !["mdio"][Reg(cmd)] = SetVal(cmd, old)]
    BY <1>7 DEF DirectWrite
  <2>2. cmd.rw = "write" /\ pc' = "next" /\ Direct(cmd) /\ Home(cmd) = "mdio" /\ Unit(cmd) \notin Channels
    BY <1>0, <1>1, <1>5, <1>7, AccessKinds, HomeUnit DEF DirectWrite
  <2> DEFINE w == Coming("mdio", Reg(cmd))
  <2>3. w = mem["mdio"][Reg(cmd)] /\ w \in Word
    BY <1>1, ComingType DEF Coming, Spaces
  <2>4. Partial(cmd) => readval = {w}
    BY <1>0, <1>7, <2>2 DEF MemInv, InOrder, ReadInv, ReadsFirst, DirectWrite, history
  <2>5. SetVal(cmd, old) = Written(cmd, Reg(cmd), w)
    BY <1>1, <2>1, <2>3, <2>4, SetValWritten DEF Readvals
  <2>6. ASSUME NEW s \in Spaces, NEW r \in Regs
        PROVE  Coming(s, r)' = IF s = "mdio" THEN Written(cmd, r, Coming(s, r)) ELSE Coming(s, r)
    <3>1. mem'[s][r] = IF s = "mdio" /\ r = Reg(cmd) THEN SetVal(cmd, old) ELSE mem[s][r]
      BY <1>1, <2>1 DEF TypeInv, TypeOK
    <3> QED
      BY <1>0, <2>5, <3>1 DEF Coming, Written
  <2> HIDE DEF w
  <2> QED
    BY <1>0, <1>1, <1>2, <1>4, <1>6, <2>2, <2>6, MeantSteps
    DEF MemoryInv, ReadInv, RestInv, SetInv, FetchedInv
<1>8. CASE DirectRead \/ PostRead
  <2>1. UNCHANGED mem /\ Head(todo) # "write"
    BY <1>8 DEF DirectRead, PostRead, chipVars
  <2>2. \A s \in Spaces, r \in Regs : Coming(s, r)' = Coming(s, r)
    BY <1>0, <2>1 DEF Coming
  <2>3. MemoryInv'
    <3>1. pc' = "next" => cmd.rw # "write"
      BY <1>0, <1>5, <2>1, AccessKinds
    <3> QED
      BY <1>0, <1>1, <1>2, <1>4, <1>5, <1>6, <2>2, <3>1, MeantSteps DEF MemoryInv
  <2>4. RestInv' /\ SetInv' /\ FetchedInv'
    <3>1. cmd.rw = "write" => Direct(cmd)
      BY <1>0, <1>8, AccessKinds DEF DirectRead, PostRead
    <3> QED
      BY <1>0, <1>1, <1>5, <3>1, HomeUnit DEF RestInv, SetInv, FetchedInv, Channels
  <2>5. ReadInv'
    <3>1. SUFFICES ASSUME cmd.rw = "write" PROVE ReadInv'
      BY <1>0 DEF ReadInv
    <3>2. DirectRead /\ Home(cmd) = "mdio" /\ Unit(cmd) \notin Channels
      BY <1>0, <1>1, <1>8, <3>1, AccessKinds, HomeUnit DEF PostRead, DirectRead
    <3>3. readval' = {Coming("mdio", Reg(cmd))}
      BY <3>2 DEF DirectRead, InOrder, Coming
    <3> QED
      BY <1>0, <1>1, <2>2, <3>2, <3>3 DEF ReadInv, Spaces
  <2> QED
    BY <2>3, <2>4, <2>5
<1> QED
  BY <1>3, <1>7, <1>8

\* The data registers are set up for a write.
LEMMA MemSetup ==
    ASSUME TypeInv, TodoShape, OnTimeInv, MemInv, Setup
    PROVE  MemInv'
<1> SUFFICES ASSUME InOrder' PROVE (MemoryInv /\ ReadInv /\ RestInv /\ SetInv /\ FetchedInv)'
  BY DEF MemInv
<1>0. /\ AtAccess /\ cmd' = cmd /\ ~Direct(cmd) /\ pc = "access" /\ pc' = "start"
      /\ UNCHANGED <<pmmd_cmd, i, todo, before, job, mem>>
  BY DEF Setup, AtAccess, cmd, history
<1>1. cmd \in Commands /\ Reg(cmd) \in Regs /\ Unit(cmd) \in Units /\ Slot(Unit(cmd), Reg(cmd)) \in Slots
  BY <1>0, AtCommand, CommandFields, UnitFields DEF TypeInv
<1>2. ~late /\ MemoryInv /\ ReadInv /\ RestInv
  BY DEF MemInv, InOrder, Setup, history
<1>3. Home(cmd) \in Spaces /\ Home(cmd) # "mdio" /\ UnitOf(Home(cmd)) = Unit(cmd)
  BY <1>0, <1>1, HomeUnit
<1>4. PICK old \in IF Unit(cmd) = "ocp" THEN Readvals ELSE {rd_data} :
        data' = IF Head(todo) = "write"
                  THEN [data EXCEPT ![Unit(cmd)][Slot(Unit(cmd), Reg(cmd))] = SetVal(cmd, old)]
                  ELSE data
  BY DEF Setup
<1>5. data \in [Units -> [Slots -> Word]]
  BY DEF TypeInv, TypeOK
<1>6. Head(todo) = "write" => job[Unit(cmd)] = {}
  BY <1>0, <1>2 DEF OnTimeInv
<1>7. \A s \in Spaces, r \in Regs : Coming(s, r)' = Coming(s, r)
  <2>1. \A u \in Units : data'[u] = data[u] \/ job[u] = {}
    BY <1>1, <1>4, <1>5, <1>6
  <2>2. \A s \in Spaces : s # "mdio" => UnitOf(s) \in Units
    BY DEF UnitOf, Units, Spaces, Channels
  <2> QED
    BY <1>0, <2>1, <2>2 DEF Coming
<1>8. MemoryInv'
  <2>1. ~Made /\ ~Made'
    BY <1>0 DEF Made
  <2>2. Meant(Performed)' = Meant(Performed)
    BY <1>0, <2>1 DEF Performed, Meant
  <2> QED
    BY <1>2, <1>7, <2>2 DEF MemoryInv
<1>9. SetInv'
  <2>1. SUFFICES ASSUME Head(todo) = "write", NEW r \in WordsOf(Unit(cmd), Reg(cmd))
                 PROVE  data'[Unit(cmd)][Slot(Unit(cmd), r)] = Written(cmd, r, Coming(Home(cmd), r))
    <3>1. \A r \in WordsOf(Unit(cmd), Reg(cmd)) : r \in Regs
      BY <1>0, <1>1, UnitFields
    <3> QED
      BY <1>0, <1>3, <1>7, <3>1 DEF SetInv
  <2>2. cmd.rw = "write"
    BY <1>0, <2>1, AccessKinds
  <2>3. /\ r \in Regs /\ Slot(Unit(cmd), r) \in Slots
        /\ Slot(Unit(cmd), Reg(cmd)) = Slot(Unit(cmd), r) => r = Reg(cmd)
        /\ Unit(cmd) # "efuse" => r = Reg(cmd)
    BY <1>0, <1>1, <2>1, Slots1
  <2> DEFINE w == Coming(Home(cmd), Reg(cmd))
  <2>4. w \in Word
    BY <1>1, <1>3, ComingType
  <2>5. Partial(cmd) => old = w
    <3>1. Unit(cmd) = "ocp" <=> Unit(cmd) \notin Channels
      BY <1>1 DEF Units, Channels
    <3> QED
      BY <1>0, <1>2, <1>4, <2>1, <2>2, <3>1 DEF ReadInv, ReadsFirst, Readvals
  <2>6. SetVal(cmd, old) = Written(cmd, Reg(cmd), w)
    BY <1>1, <2>4, <2>5, SetValWritten
  <2>7. CASE r = Reg(cmd)
    BY <1>1, <1>4, <1>5, <2>1, <2>6, <2>7
  <2>8. CASE r # Reg(cmd)
    <3>1. data'[Unit(cmd)][Slot(Unit(cmd), r)] = data[Unit(cmd)][Slot(Unit(cmd), r)]
      BY <1>1, <1>4, <1>5, <2>1, <2>3, <2>8
    <3> QED
      BY <1>0, <1>2, <2>1, <2>2, <2>3, <2>8, <3>1 DEF RestInv, Written
  <2> QED
    BY <2>7, <2>8
<1> QED
  BY <1>0, <1>8, <1>9 DEF ReadInv, RestInv, FetchedInv

\* A unit is started.
LEMMA MemStart ==
    ASSUME TypeInv, TodoShape, OnTimeInv, MemInv, Start
    PROVE  MemInv'
<1> SUFFICES ASSUME InOrder' PROVE (MemoryInv /\ ReadInv /\ RestInv /\ SetInv /\ FetchedInv)'
  BY DEF MemInv
<1>0. /\ AtAccess /\ cmd' = cmd /\ pmmd_cmd[i] = cmd /\ pc = "start"
      /\ UNCHANGED <<pmmd_cmd, i, before, mem, data>>
      /\ ~late /\ ~lost /\ job[Unit(cmd)] = {}
  BY DEF Start, AtAccess, cmd, InOrder
<1>1. ~Direct(cmd) /\ cmd \in Commands /\ i \in 1..Len(pmmd_cmd) /\ Reg(cmd) \in Regs /\ Unit(cmd) \in Units
  BY <1>0, AtCommand, CommandFields, UnitFields DEF TypeInv, UnitOK
<1>2. MemoryInv /\ SetInv /\ Space(cmd) = Home(cmd)
  BY <1>0 DEF MemInv, InOrder, OnTimeInv
<1>3. Home(cmd) \in Spaces /\ Home(cmd) # "mdio" /\ UnitOf(Home(cmd)) = Unit(cmd)
  BY <1>0, <1>1, HomeUnit
<1> DEFINE j == Access(cmd, Head(todo))
<1>4. j.op = Head(todo) /\ j.space = Home(cmd) /\ j.words = WordsOf(Unit(cmd), Reg(cmd))
  BY DEF Access
<1>5. \A u \in Units : job'[u] = IF u = Unit(cmd) THEN {j} ELSE job[u]
  <2>1. job' = [job EXCEPT ![Unit(cmd)] = {j}]
    BY <1>2 DEF Start, Access
  <2> HIDE DEF j
  <2> QED
    BY <2>1 DEF TypeInv, TypeOK
<1> HIDE DEF j
<1>6. Performed = i - 1
  <2>1. ~Made
    BY <1>0 DEF Made
  <2> QED
    BY <2>1 DEF Performed
<1>7. \A s \in Spaces, r \in Regs :
        Coming(s, r)' = IF Head(todo) = "write" /\ s = Home(cmd) THEN Written(cmd, r, Coming(s, r))
                                                                 ELSE Coming(s, r)
  <2>1. \A s \in Spaces : s # "mdio" => UnitOf(s) \in Units
    BY DEF UnitOf, Units, Spaces, Channels
  <2> SUFFICES ASSUME NEW s \in Spaces, NEW r \in Regs
               PROVE  Coming(s, r)' = IF Head(todo) = "write" /\ s = Home(cmd)
                                        THEN Written(cmd, r, Coming(s, r)) ELSE Coming(s, r)
    OBVIOUS
  <2>2. CASE s # "mdio" /\ UnitOf(s) = Unit(cmd)
    <3>1. Coming(s, r) = mem[s][r]
      BY <1>0, <2>2 DEF Coming
    <3>2. Coming(s, r)' = IF Head(todo) = "write" /\ s = Home(cmd) /\ r \in WordsOf(Unit(cmd), Reg(cmd))
                            THEN data[Unit(cmd)][Slot(Unit(cmd), r)] ELSE mem[s][r]
      BY <1>0, <1>1, <1>4, <1>5, <2>2 DEF Coming
    <3>3. r \notin WordsOf(Unit(cmd), Reg(cmd)) => r # Reg(cmd)
      <4>1. Reg(cmd) \in WordsOf(Unit(cmd), Reg(cmd))
        <5>1. \E w : w \in WordsOf(Unit(cmd), Reg(cmd))
          BY DEF WordsOf
        <5> QED
          BY <1>1, <5>1, Slots1
      <4> QED
        BY <4>1
    <3> QED
      BY <1>0, <1>2, <3>1, <3>2, <3>3 DEF SetInv, Written
  <2>3. CASE ~(s # "mdio" /\ UnitOf(s) = Unit(cmd))
    BY <1>0, <1>3, <1>5, <2>1, <2>3 DEF Coming
  <2> QED
    BY <2>2, <2>3
<1>8. CASE Head(todo) = "write"
  <2>1. cmd.rw = "write" /\ Tail(todo) = <<>>
    BY <1>0, <1>8, AccessKinds
  <2>2. pc' = "next" \/ (pc' = "poll" /\ todo' = todo)
    BY <2>1 DEF Start, Finish
  <2>3. Made'
    BY <1>8, <2>2 DEF Made
  <2>4. Meant(Performed)' = Meant(i)
    BY <1>0, <2>3 DEF Performed, Meant
  <2>5. \A s \in Spaces, r \in Regs :
          Meant(i)[s][r] = IF s = Home(cmd) THEN Written(cmd, r, Meant(i - 1)[s][r]) ELSE Meant(i - 1)[s][r]
    BY <1>0, <1>1, <2>1, MeantSteps
  <2> QED
    BY <1>2, <1>6, <1>7, <1>8, <2>2, <2>4, <2>5
    DEF MemoryInv, ReadInv, RestInv, SetInv, FetchedInv
<1>9. CASE Head(todo) # "write"
  <2>1. pc' = "poll" /\ todo' = todo
    BY <1>9 DEF Start
  <2>2. ~Made'
    BY <1>9, <2>1 DEF Made
  <2>3. Meant(Performed)' = Meant(i - 1)
    BY <1>0, <2>2 DEF Performed, Meant
  <2>4. job'[Unit(cmd)] # {}
    BY <1>1, <1>5
  <2> QED
    BY <1>0, <1>2, <1>6, <1>7, <1>9, <2>1, <2>3, <2>4
    DEF MemoryInv, ReadInv, RestInv, SetInv, FetchedInv
<1> QED
  BY <1>8, <1>9

\* A poll finds the unit done.
LEMMA MemPoll ==
    ASSUME TypeInv, TodoShape, OnTimeInv, MemInv, PollDone
    PROVE  MemInv'
<1> SUFFICES ASSUME InOrder' PROVE (MemoryInv /\ ReadInv /\ RestInv /\ SetInv /\ FetchedInv)'
  BY DEF MemInv
<1>0. /\ AtAccess /\ cmd' = cmd /\ pmmd_cmd[i] = cmd /\ pc = "poll"
      /\ UNCHANGED <<pmmd_cmd, i, before, mem, job, data>>
      /\ ~late /\ job[Unit(cmd)] = {} /\ Fetch
      /\ todo' = Tail(todo) /\ pc' \in {"next", "access"} /\ (pc' = "access" <=> Tail(todo) # <<>>)
  BY DEF PollDone, AtAccess, cmd, InOrder, Finish
<1>1. ~Direct(cmd) /\ cmd \in Commands /\ i \in 1..Len(pmmd_cmd) /\ Reg(cmd) \in Regs /\ Unit(cmd) \in Units
  BY <1>0, AtCommand, CommandFields, UnitFields DEF TypeInv, UnitOK
<1>2. cmd.rw # "post"
  BY <1>1 DEF Direct
<1>3. ~lost
  BY DEF PollDone, Fetch, InOrder
<1>4. MemoryInv /\ FetchedInv
  BY <1>0, <1>3 DEF MemInv, InOrder
<1>5. \A s \in Spaces, r \in Regs : Coming(s, r)' = Coming(s, r)
  BY <1>0 DEF Coming
<1>6. MemoryInv'
  <2>1. Made' <=> pc' = "next"
    BY <1>0 DEF Made
  <2>2. Made <=> Head(todo) = "write"
    BY <1>0 DEF Made
  <2>3. \/ Head(todo) = "write" /\ pc' = "next"
        \/ Head(todo) = "read" /\ pc' = "next" /\ cmd.rw = "read"
        \/ Head(todo) = "read" /\ pc' = "access"
    BY <1>0, <1>2, AccessKinds
  <2>4. /\ Meant(Performed)' = Meant(IF pc' = "next" THEN i ELSE i - 1)
        /\ Performed = IF Head(todo) = "write" THEN i ELSE i - 1
    BY <1>0, <2>1, <2>2 DEF Performed, Meant
  <2>5. cmd.rw = "read" => \A s \in Spaces, r \in Regs : Meant(i)[s][r] = Meant(i - 1)[s][r]
    BY <1>0, <1>1, MeantSteps
  <2> QED
    BY <1>4, <1>5, <2>3, <2>4, <2>5 DEF MemoryInv
<1>7. CASE pc' = "next"
  BY <1>6, <1>7 DEF ReadInv, RestInv, SetInv, FetchedInv
<1>8. CASE pc' = "access"
  <2>1. Head(todo) = "read" /\ cmd.rw = "write" /\ ReadsFirst(cmd)
    BY <1>0, <1>2, <1>8, AccessKinds
  <2>2. \A r \in WordsOf(Unit(cmd), Reg(cmd)) :
          r \in Regs /\ data[Unit(cmd)][Slot(Unit(cmd), r)] = Coming(Home(cmd), r)
    BY <1>0, <1>1, <1>4, <2>1, UnitFields DEF FetchedInv
  <2>3. Reg(cmd) \in WordsOf(Unit(cmd), Reg(cmd)) /\ Home(cmd) \in Spaces
    <3>1. \E w : w \in WordsOf(Unit(cmd), Reg(cmd))
      BY DEF WordsOf
    <3> QED
      BY <1>1, <3>1, Slots1, HomeUnit
  <2>4. IF Unit(cmd) \in Channels THEN rd_data' = Coming(Home(cmd), Reg(cmd))
                                  ELSE readval' = {Coming(Home(cmd), Reg(cmd))}
    BY <2>1, <2>2, <2>3 DEF Fetch, PollDone, InOrder
  <2> QED
    BY <1>0, <1>1, <1>5, <1>6, <1>8, <2>2, <2>3, <2>4 DEF ReadInv, RestInv, SetInv, FetchedInv
<1> QED
  BY <1>0, <1>7, <1>8

\* A unit serves its access.
LEMMA MemServe ==
    ASSUME TypeInv, TodoShape, JobsInv, OnTimeInv, MemInv, Serve
    PROVE  MemInv'
<1> SUFFICES ASSUME InOrder' PROVE (MemoryInv /\ ReadInv /\ RestInv /\ SetInv /\ FetchedInv)'
  BY DEF MemInv
<1> PICK u \in Units : \E j \in job[u] : ServeJob(u, j)
  BY DEF Serve
<1>0. PICK j \in job[u] : ServeJob(u, j)
  OBVIOUS
<1>1. UNCHANGED <<pmmd_cmd, i, todo, pc, readval, rd_data, before, late, lost>> /\ cmd' = cmd
  BY <1>0 DEF ServeJob, fwVars, history, cmd
<1>2. ~late /\ MemoryInv /\ ReadInv /\ RestInv /\ SetInv /\ FetchedInv
  BY <1>1 DEF MemInv, InOrder
<1>3. \A s \in Spaces, r \in Regs : Coming(s, r)' = Coming(s, r)
  BY <1>0, ServeComing
<1>4. MemoryInv'
  <2>1. Meant(Performed)' = Meant(Performed)
    BY <1>1 DEF Meant, Performed, Made
  <2> QED
    BY <1>2, <1>3, <2>1 DEF MemoryInv
<1>5. /\ mem \in [Spaces -> [Regs -> Word]] /\ job \in [Units -> SUBSET JobType]
      /\ data \in [Units -> [Slots -> Word]]
  BY DEF TypeInv, TypeOK
<1>6. /\ job'[u] = {} /\ \A v \in Units : v # u => job'[v] = job[v] /\ data'[v] = data[v]
      /\ job[u] = {j} /\ UnitOf(j.space) = u /\ j.space \in Spaces
  BY <1>0, <1>5 DEF ServeJob, JobsInv, JobType
<1> DEFINE Used == AtAccess /\ ~Direct(cmd)
<1>7. Used => /\ cmd \in Commands /\ Unit(cmd) \in Units /\ Home(cmd) \in Spaces /\ Reg(cmd) \in Regs
              /\ WordsOf(Unit(cmd), Reg(cmd)) \subseteq Regs
  BY AtCommand, CommandFields, UnitFields, HomeUnit DEF TypeInv
<1>8. ReadInv'
  <2>1. pc = "access" /\ cmd.rw = "write" => Home(cmd) \in Spaces /\ Reg(cmd) \in Regs
    BY AtCommand, CommandFields, HomeUnit DEF TypeInv, AtAccess
  <2> QED
    BY <1>1, <1>2, <1>3, <2>1 DEF ReadInv
<1>9. RestInv' /\ SetInv'
  <2>1. /\ pc = "access" /\ cmd.rw = "write" /\ Unit(cmd) = "efuse" => Used
        /\ pc = "start" => Used
    BY DEF TypeInv, UnitOK, AtAccess, Direct, Unit
  <2>2. Used /\ pc \in {"access", "start"} /\ Head(todo) = "write" => Unit(cmd) # u
    BY <1>2, <1>6 DEF OnTimeInv
  <2>3. Used /\ pc \in {"access", "start"} /\ Head(todo) = "write" => data'[Unit(cmd)] = data[Unit(cmd)]
    BY <1>6, <1>7, <2>2
  <2> HIDE DEF Used
  <2> QED
    BY <1>1, <1>2, <1>3, <1>7, <2>1, <2>3 DEF RestInv, SetInv
<1>10. FetchedInv'
  <2> SUFFICES ASSUME pc = "poll", Head(todo) = "read", job'[Unit(cmd)] = {},
                      NEW r \in WordsOf(Unit(cmd), Reg(cmd))
               PROVE  data'[Unit(cmd)][Slot(Unit(cmd), r)] = Coming(Home(cmd), r)
    <3>1. pc = "poll" => Used
      BY DEF TypeInv, UnitOK, AtAccess
    <3> HIDE DEF Used
    <3> QED
      BY <1>1, <1>3, <1>7, <3>1 DEF FetchedInv
  <2>1. Used
    BY DEF TypeInv, UnitOK, AtAccess
  <2>2. CASE Unit(cmd) # u
    BY <1>2, <1>6, <1>7, <2>1, <2>2 DEF FetchedInv
  <2>3. CASE Unit(cmd) = u
    <3>1. j = Access(cmd, Head(todo))
      BY <1>2, <1>6, <2>3 DEF OnTimeInv
    <3>2. j.op = "read" /\ j.space = Home(cmd) /\ j.words = WordsOf(u, Reg(cmd))
      BY <2>3, <3>1 DEF Access
    <3>3. /\ r \in Regs /\ Slot(u, r) \in Slots
          /\ \A w \in j.words : Slot(u, w) = Slot(u, r) => w = r
      BY <1>7, <2>1, <2>3, <3>2, Slots1
    <3>4. data' = [data EXCEPT ![u] = [s \in Slots |->
                IF \E w \in j.words : Slot(u, w) = s
                  THEN UNION {mem[j.space][w] : w \in {v \in j.words : Slot(u, v) = s}}
                  ELSE data[u][s]]]
      BY <1>0, <3>2 DEF ServeJob
    <3>5. data'[u][Slot(u, r)] =
             UNION {mem[j.space][w] : w \in {v \in j.words : Slot(u, v) = Slot(u, r)}}
      BY <1>5, <2>3, <3>2, <3>3, <3>4
    <3>6. {v \in j.words : Slot(u, v) = Slot(u, r)} = {r}
      BY <2>3, <3>2, <3>3
    <3>7. data'[u][Slot(u, r)] = mem[Home(cmd)][r]
      BY <3>2, <3>5, <3>6
    <3>8. Coming(Home(cmd), r) = mem[Home(cmd)][r]
      BY <1>6, <3>2 DEF Coming
    <3> QED
      BY <2>3, <3>7, <3>8
  <2> QED
    BY <2>2, <2>3
<1> QED
  BY <1>4, <1>8, <1>9, <1>10

\* Every step keeps the memory as it is meant.
LEMMA MemStep ==
    ASSUME TypeInv, TypeInv', TodoShape, JobsInv, OnTimeInv, MemInv, [Next]_vars
    PROVE  MemInv'
<1>1. CASE PollBusy \/ UNCHANGED vars
  <2>1. UNCHANGED <<pmmd_cmd, i, todo, pc, readval, rd_data, chipVars, history>>
    BY <1>1 DEF PollBusy, vars, fwVars
  <2>2. \A s, r : Coming(s, r)' = Coming(s, r)
    BY <2>1 DEF Coming, chipVars
  <2>3. Meant(Performed)' = Meant(Performed) /\ cmd' = cmd
    BY <2>1 DEF Meant, Performed, Made, cmd, history
  <2> QED
    BY <2>1, <2>2, <2>3
    DEF MemInv, InOrder, MemoryInv, ReadInv, RestInv, SetInv, FetchedInv, chipVars, history
<1>2. CASE GiveUp
  BY <1>2 DEF GiveUp, MemInv, InOrder
<1> QED
  BY <1>1, <1>2, MemBatch, MemDirect, MemSetup, MemStart, MemPoll, MemServe DEF Next, Firmware

-----------------------------------------------------------------------------
(* The answers.                                                            *)

\* The response holds what the words of the n-th command held.
Answered(n) ==
    LET c    == pmmd_cmd[n]
        from == DataNum(pmmd_cmd)[n - 1]
    IN  /\ c.rw = "read" => answer[from] = {Field(c, Meant(n - 1)[Home(c)][Reg(c)])}
        /\ c.rw = "post" => \A w \in 0..c.num - 1 :
             answer[from + w] = {Meant(n - 1)["mdio"][Reg(c) + w]}

\* It holds the answers of the commands so far, and the words of a post command
\* so far.
AnswerInv ==
    InOrder =>
      /\ \A n \in 1..(IF AtAccess THEN i - 1 ELSE i) : Answered(n)
      /\ AtAccess /\ cmd.rw = "post" => \A w \in 0..cmd.num - Len(todo) - 1 :
           answer[DataNum(pmmd_cmd)[i - 1] + w] = {Meant(i - 1)["mdio"][Reg(cmd) + w]}

\* A batch ends with its last command.
EndInv == pc = "idle" => i = Len(pmmd_cmd)

\* The answers of the commands before are kept when a command stores a word.
LEMMA AnswersKept ==
    ASSUME TypeInv, i \in 1..Len(pmmd_cmd), NEW w \in 0..Width(cmd) - 1, NEW x,
           answer' = [answer EXCEPT ![DataNum(pmmd_cmd)[i - 1] + w] = x],
           UNCHANGED <<pmmd_cmd, before>>
    PROVE  /\ answer'[DataNum(pmmd_cmd)[i - 1] + w] = x
           /\ \A v \in 0..w - 1 : answer'[DataNum(pmmd_cmd)[i - 1] + v]
                                    = answer[DataNum(pmmd_cmd)[i - 1] + v]
           /\ \A n \in 1..i - 1 : Answered(n) => Answered(n)'
<1>1. /\ pmmd_cmd \in Seq(Commands) /\ Len(pmmd_cmd) <= MaxSet
      /\ answer \in [0 .. (MaxPost + 1) * MaxSet - 1 -> SUBSET Word]
  BY DEF TypeInv, TypeOK
<1>2. PICK num : num = DataNum(pmmd_cmd)
  OBVIOUS
<1>3. PICK places : places = 0 .. (MaxPost + 1) * MaxSet - 1
  OBVIOUS
<1>4. \A n \in 1..Len(pmmd_cmd) : num[n - 1] \in Nat /\ Width(pmmd_cmd[n]) \in Nat
  <2>1. num \in [0..Len(pmmd_cmd) -> Nat] /\ Len(pmmd_cmd) \in Nat
    BY <1>1, <1>2, DataNumSteps
  <2>2. \A n \in 1..Len(pmmd_cmd) : pmmd_cmd[n] \in Commands /\ n - 1 \in 0..Len(pmmd_cmd)
    BY <1>1, <2>1, ElementOfSeq
  <2> QED
    BY <2>1, <2>2, WidthType
<1>5. \A n \in 1..Len(pmmd_cmd) : \A v \in 0..Width(pmmd_cmd[n]) - 1 :
        /\ num[n - 1] + v \in places
        /\ \A k \in 1..n - 1 : num[k - 1] + Width(pmmd_cmd[k]) <= num[n - 1]
  BY <1>1, <1>2, <1>3, Places
<1>6. \A p \in places : answer'[p] = IF p = num[i - 1] + w THEN x ELSE answer[p]
  BY <1>1, <1>2, <1>3
<1>7. answer'[num[i - 1] + w] = x /\ \A v \in 0..w - 1 : answer'[num[i - 1] + v] = answer[num[i - 1] + v]
  <2>1. \A v \in 0..w : num[i - 1] + v \in places
    BY <1>4, <1>5 DEF cmd
  <2> QED
    BY <1>4, <1>6, <2>1 DEF cmd
<1>8. \A n \in 1..i - 1 : \A v \in 0..Width(pmmd_cmd[n]) - 1 : answer'[num[n - 1] + v] = answer[num[n - 1] + v]
  <2> SUFFICES ASSUME NEW n \in 1..i - 1, NEW v \in 0..Width(pmmd_cmd[n]) - 1
               PROVE  answer'[num[n - 1] + v] = answer[num[n - 1] + v]
    OBVIOUS
  <2>1. n \in 1..Len(pmmd_cmd) /\ i \in Nat /\ Len(pmmd_cmd) \in Nat
    BY <1>1
  <2>2. num[n - 1] + Width(pmmd_cmd[n]) <= num[i - 1]
    BY <1>5, <2>1 DEF cmd
  <2>3. num[n - 1] \in Nat /\ num[i - 1] \in Nat /\ Width(pmmd_cmd[n]) \in Nat
    BY <1>4, <2>1
  <2>4. num[n - 1] + v \in places /\ num[n - 1] + v # num[i - 1] + w
    BY <1>5, <2>1, <2>2, <2>3
  <2> QED
    BY <1>6, <2>4
<1>9. ASSUME NEW n \in 1..i - 1, Answered(n) PROVE Answered(n)'
  <2>1. Meant(n - 1)' = Meant(n - 1)
    BY DEF Meant
  <2>2. n \in 1..Len(pmmd_cmd) /\ pmmd_cmd[n] \in Commands /\ num[n - 1] \in Nat
    BY <1>1, <1>4, ElementOfSeq
  <2>3. pmmd_cmd[n].rw = "read" => answer'[num[n - 1]] = answer[num[n - 1]]
    <3>1. pmmd_cmd[n].rw = "read" => Width(pmmd_cmd[n]) = 1
      BY DEF Width
    <3>2. Width(pmmd_cmd[n]) = 1 => 0 \in 0..Width(pmmd_cmd[n]) - 1 /\ num[n - 1] + 0 = num[n - 1]
      BY <2>2
    <3> QED
      BY <1>8, <3>1, <3>2
  <2>4. pmmd_cmd[n].rw = "post" => \A v \in 0..pmmd_cmd[n].num - 1 :
          answer'[num[n - 1] + v] = answer[num[n - 1] + v]
    <3>1. pmmd_cmd[n].rw = "post" => Width(pmmd_cmd[n]) = pmmd_cmd[n].num
      BY DEF Width
    <3> QED
      BY <1>8, <3>1
  <2> QED
    BY <1>2, <1>9, <2>1, <2>3, <2>4 DEF Answered
<1> QED
  BY <1>2, <1>7, <1>9

\* What does not touch the response keeps the answers.
LEMMA AnswersSame ==
    ASSUME UNCHANGED <<pmmd_cmd, before, answer>>, NEW n
    PROVE  Answered(n)' = Answered(n)
BY DEF Answered, Meant

\* Every step keeps the answers.
LEMMA AnswerStep ==
    ASSUME TypeInv, TodoShape, OnTimeInv, MemInv, AnswerInv, [Next]_vars
    PROVE  AnswerInv'
<1> SUFFICES ASSUME InOrder' PROVE AnswerInv'
  BY DEF AnswerInv
<1>0. i \in Nat
  BY DEF TypeInv, TypeOK
<1>1. CASE Receive
  BY <1>1 DEF Receive, AnswerInv, AtAccess
<1>2. CASE NextCommand
  <2>1. UNCHANGED <<pmmd_cmd, before, answer, late, lost>> /\ pc = "next" /\ pc' \in {"idle", "next", "access"}
    BY <1>2 DEF NextCommand, history
  <2>2. \A n \in 1..i : Answered(n)'
    BY <2>1, AnswersSame DEF AnswerInv, InOrder, AtAccess
  <2>3. CASE i < Len(pmmd_cmd)
    <3> DEFINE c == pmmd_cmd[i + 1]
    <3>1. /\ i' = i + 1 /\ todo' = Accesses(c)
          /\ pc' = IF Accesses(c) = <<>> THEN "next" ELSE "access"
      BY <1>2, <2>3 DEF NextCommand
    <3>2. c \in Commands /\ cmd' = c
      BY <1>0, <2>1, <2>3, <3>1, ElementOfSeq DEF TypeInv, TypeOK, cmd
    <3>3. c.num \in Nat
      BY <3>2, CommandFields
    <3>4. c.rw = "post" => Len(Accesses(c)) = c.num
      <4> DEFINE posts == [n \in 1..c.num |-> "post"]
      <4>1. posts \in Seq({"post"}) /\ Len(posts) = c.num
        BY <3>3, SeqDef
      <4> QED
        BY <4>1 DEF Accesses
    <3>5. CASE pc' = "access"
      <4>1. cmd'.rw = "post" => 0..cmd'.num - Len(todo') - 1 = {}
        BY <3>1, <3>2, <3>3, <3>4
      <4>2. AtAccess' /\ i' - 1 = i
        BY <1>0, <3>1, <3>5 DEF AtAccess
      <4> QED
        BY <2>2, <4>1, <4>2 DEF AnswerInv
    <3>6. CASE pc' = "next"
      <4>1. c.rw = "post" /\ c.num = 0
        <5>1. \A op : <<op>> # <<>> /\ <<"read", "write">> # <<>>
          OBVIOUS
        <5>2. c.rw = "post"
          BY <3>1, <3>6, <5>1 DEF Accesses
        <5> QED
          BY <3>1, <3>4, <3>6, <5>2
      <4>2. ~AtAccess'
        BY <3>6 DEF AtAccess
      <4>3. \A n \in {i + 1} : Answered(n)'
        <5>1. pmmd_cmd'[i + 1] = c /\ 0..c.num - 1 = {}
          BY <2>1, <4>1
        <5> QED
          BY <4>1, <5>1 DEF Answered
      <4>4. 1..i + 1 = 1..i \cup {i + 1}
        BY <1>0
      <4> QED
        BY <2>2, <3>1, <4>2, <4>3, <4>4 DEF AnswerInv
    <3> QED
      BY <3>1, <3>5, <3>6
  <2>4. CASE ~(i < Len(pmmd_cmd))
    <3>1. i' = i /\ ~AtAccess'
      BY <1>2, <2>4 DEF NextCommand, AtAccess
    <3> QED
      BY <2>2, <3>1 DEF AnswerInv
  <2> QED
    BY <2>3, <2>4
<1> DEFINE Going == /\ AtAccess /\ UNCHANGED <<pmmd_cmd, i, before>> /\ ~late /\ ~lost
                    /\ i \in 1..Len(pmmd_cmd) /\ cmd \in Commands /\ cmd' = cmd /\ pmmd_cmd[i] = cmd
<1>3. Going => \A n \in 1..i - 1 : Answered(n)
  BY DEF AnswerInv, InOrder
<1>4. ASSUME Going, cmd.rw = "read", pc' = "next",
             answer' = [answer EXCEPT ![DataNum(pmmd_cmd)[i - 1]] =
                          {Field(cmd, Meant(i - 1)[Home(cmd)][Reg(cmd)])}]
      PROVE  AnswerInv'
  <2>1. Width(cmd) = 1 /\ 0 \in 0..Width(cmd) - 1
    BY <1>4 DEF Width
  <2>2. DataNum(pmmd_cmd)[i - 1] \in Nat
    <3>1. DataNum(pmmd_cmd) \in [0..Len(pmmd_cmd) -> Nat]
      BY DataNumSteps DEF TypeInv, TypeOK
    <3> QED
      BY <1>4, <3>1
  <2>3. DataNum(pmmd_cmd)[i - 1] + 0 = DataNum(pmmd_cmd)[i - 1]
    BY <2>2
  <2>4. /\ answer'[DataNum(pmmd_cmd)[i - 1] + 0] = {Field(cmd, Meant(i - 1)[Home(cmd)][Reg(cmd)])}
        /\ \A n \in 1..i - 1 : Answered(n) => Answered(n)'
    BY <1>4, <2>1, <2>3, AnswersKept
  <2>5. Answered(i)'
    <3>1. Meant(i - 1)' = Meant(i - 1)
      BY <1>4 DEF Meant
    <3> QED
      BY <1>4, <2>3, <2>4, <3>1 DEF Answered
  <2>6. 1..i = 1..i - 1 \cup {i} /\ ~AtAccess'
    BY <1>4 DEF AtAccess
  <2> QED
    BY <1>3, <1>4, <2>4, <2>5, <2>6 DEF AnswerInv
<1>5. ASSUME Going, cmd.rw = "write", UNCHANGED answer
      PROVE  AnswerInv'
  <2>1. \A n \in 1..i - 1 : Answered(n)'
    BY <1>3, <1>5, AnswersSame
  <2>2. Answered(i)'
    BY <1>5 DEF Answered
  <2>3. 1..i = 1..i - 1 \cup {i}
    BY <1>5
  <2> QED
    BY <1>5, <2>1, <2>2, <2>3 DEF AnswerInv
<1>6. ASSUME Going, AtAccess', UNCHANGED <<todo, answer>>
      PROVE  AnswerInv'
  <2>1. \A n \in 1..i - 1 : Answered(n)'
    BY <1>3, <1>6, AnswersSame
  <2>2. Meant(i - 1)' = Meant(i - 1)
    BY <1>6 DEF Meant
  <2> QED
    BY <1>6, <2>1, <2>2 DEF AnswerInv, InOrder
<1>7. CASE DirectRead \/ DirectWrite
  <2>1. Going
    <3>1. AtAccess /\ UNCHANGED <<pmmd_cmd, i, before>> /\ ~late /\ ~lost
      <4>1. CASE DirectRead
        BY <4>1 DEF DirectRead, AtAccess, InOrder
      <4>2. CASE DirectWrite
        BY <4>2 DEF DirectWrite, AtAccess, InOrder, history
      <4> QED
        BY <1>7, <4>1, <4>2
    <3> QED
      BY <3>1, AtCommand DEF TypeInv, cmd
  <2>2. CASE cmd.rw = "write"
    BY <1>5, <1>7, <2>1, <2>2 DEF DirectRead, DirectWrite, Store
  <2>3. CASE cmd.rw = "read"
    <3>1. DirectRead /\ pc' = "next"
      BY <1>7, <2>1, <2>3, AccessKinds DEF DirectRead, DirectWrite, Finish
    <3>2. /\ Home(cmd) = "mdio" /\ Home(cmd) \in Spaces /\ Reg(cmd) \in Regs
      BY <2>1, <2>3, <3>1, HomeUnit, CommandFields DEF DirectRead
    <3>3. mem["mdio"][Reg(cmd)] = Meant(i - 1)[Home(cmd)][Reg(cmd)]
      <4>1. ~Made
        BY <3>1 DEF DirectRead, Made
      <4>2. MemoryInv
        BY <2>1 DEF MemInv, InOrder
      <4> QED
        BY <3>2, <4>1, <4>2 DEF MemoryInv, Coming, Performed
    <3>4. answer' = [answer EXCEPT ![DataNum(pmmd_cmd)[i - 1]] = {Field(cmd, mem["mdio"][Reg(cmd)])}]
      BY <2>3, <3>1 DEF DirectRead, Store, InOrder
    <3> QED
      BY <1>4, <2>1, <2>3, <3>1, <3>3, <3>4
  <2>4. cmd.rw # "post"
    BY <1>7, <2>1, AccessKinds DEF DirectRead, DirectWrite
  <2> QED
    BY <2>1, <2>2, <2>3, <2>4, CommandFields
<1>8. CASE PostRead
  <2>1. Going
    <3>1. AtAccess /\ UNCHANGED <<pmmd_cmd, i, before>> /\ ~late /\ ~lost
      BY <1>8 DEF PostRead, AtAccess, InOrder, history
    <3> QED
      BY <3>1, AtCommand DEF TypeInv, cmd
  <2>2. cmd.rw = "post" /\ Width(cmd) = cmd.num
    BY <1>8, <2>1, AccessKinds DEF PostRead, Width
  <2>3. /\ cmd.num \in Nat /\ Len(todo) \in 1..cmd.num /\ Len(Tail(todo)) = Len(todo) - 1
        /\ (Tail(todo) = <<>> <=> Len(todo) = 1)
    <3>1. todo \in Seq({"read", "write", "post"}) /\ todo # <<>> /\ Len(todo) <= cmd.num
      BY <2>1, <2>2 DEF TypeInv, TypeOK, TodoOK, AtAccess
    <3>2. Tail(todo) \in Seq({"read", "write", "post"}) /\ Len(Tail(todo)) = Len(todo) - 1
      BY <3>1, HeadTailProperties
    <3>3. cmd.num \in Nat
      BY <2>1, CommandFields
    <3>4. Tail(todo) = <<>> <=> Len(Tail(todo)) = 0
      BY <3>2, EmptySeq
    <3> QED
      BY <3>1, <3>2, <3>3, <3>4
  <2> DEFINE w == cmd.num - Len(todo)
             from == DataNum(pmmd_cmd)[i - 1]
  <2>4. w \in 0..Width(cmd) - 1 /\ w \in Nat
    BY <2>2, <2>3
  <2>5. answer' = [answer EXCEPT ![from + w] = {mem["mdio"][Reg(cmd) + w]}]
    BY <1>8 DEF PostRead
  <2>6. mem["mdio"][Reg(cmd) + w] = Meant(i - 1)["mdio"][Reg(cmd) + w]
    <3>1. ~Made
      BY <1>8 DEF PostRead, Made
    <3>2. MemoryInv
      BY <2>1 DEF MemInv, InOrder
    <3>3. Reg(cmd) + w \in Regs
      BY <2>1, <2>2, <2>4, MmdAssumption DEF MmdAssumption
    <3> QED
      BY <3>1, <3>2, <3>3 DEF MemoryInv, Coming, Performed, Spaces
  <2> HIDE DEF w, from
  <2>7. /\ answer'[from + w] = {Meant(i - 1)["mdio"][Reg(cmd) + w]}
        /\ \A v \in 0..w - 1 : answer'[from + v] = answer[from + v]
        /\ \A n \in 1..i - 1 : Answered(n) => Answered(n)'
    BY <2>1, <2>4, <2>5, <2>6, AnswersKept DEF from
  <2>8. \A v \in 0..w - 1 : answer[from + v] = {Meant(i - 1)["mdio"][Reg(cmd) + v]}
    BY <2>1, <2>2 DEF AnswerInv, InOrder, w, from
  <2>9. \A v \in 0..w : answer'[from + v] = {Meant(i - 1)["mdio"][Reg(cmd) + v]}
    <3>1. 0..w = 0..w - 1 \cup {w}
      BY <2>4
    <3> QED
      BY <2>7, <2>8, <3>1
  <2>10. Meant(i - 1)' = Meant(i - 1)
    BY <2>1 DEF Meant
  <2>11. todo' = Tail(todo) /\ pc' = IF Len(todo) = 1 THEN "next" ELSE "access"
    BY <1>8, <2>3 DEF PostRead, Finish
  <2>12. CASE Len(todo) = 1
    <3>1. ~AtAccess' /\ w = cmd.num - 1 /\ 1..i = 1..i - 1 \cup {i}
      <4>1. i \in Nat /\ 1 <= i
        BY <2>1
      <4> QED
        BY <2>3, <2>11, <2>12, <4>1 DEF AtAccess, w
    <3>2. Answered(i)'
      BY <2>1, <2>2, <2>9, <2>10, <3>1 DEF Answered, from
    <3> QED
      BY <1>3, <2>1, <2>7, <3>1, <3>2 DEF AnswerInv
  <2>13. CASE Len(todo) # 1
    <3>1. AtAccess' /\ cmd.num - Len(todo') - 1 = w
      BY <2>3, <2>11, <2>13 DEF AtAccess, w
    <3> QED
      BY <1>3, <2>1, <2>7, <2>9, <2>10, <3>1 DEF AnswerInv, from
  <2> QED
    BY <2>12, <2>13
<1>9. CASE PostReadLost \/ GiveUp
  BY <1>9 DEF PostReadLost, GiveUp, InOrder
<1>10. CASE Setup \/ Start \/ PollBusy
  <2>1. AtAccess /\ UNCHANGED <<pmmd_cmd, i, before, answer>> /\ ~late /\ ~lost
    <3>1. CASE Setup
      BY <3>1 DEF Setup, AtAccess, InOrder, history
    <3>2. CASE Start
      BY <3>2 DEF Start, AtAccess, InOrder
    <3>3. CASE PollBusy
      BY <3>3 DEF PollBusy, AtAccess, InOrder, history
    <3> QED
      BY <1>10, <3>1, <3>2, <3>3
  <2>2. Going
    BY <2>1, AtCommand DEF TypeInv, cmd
  <2>3. \/ AtAccess' /\ todo' = todo
        \/ cmd.rw = "write"
    BY <1>10, <2>1, AccessKinds DEF Setup, Start, PollBusy, AtAccess
  <2> QED
    BY <1>5, <1>6, <2>1, <2>2, <2>3
<1>11. CASE PollDone
  <2>1. AtAccess /\ UNCHANGED <<pmmd_cmd, i, before>> /\ ~late /\ ~lost /\ job[Unit(cmd)] = {} /\ ~Direct(cmd)
    BY <1>11 DEF PollDone, Fetch, AtAccess, InOrder, TypeInv, UnitOK
  <2>2. Going
    BY <2>1, AtCommand DEF TypeInv, cmd
  <2>3. cmd.rw # "post"
    BY <2>1 DEF Direct
  <2>4. CASE cmd.rw = "write"
    BY <1>5, <1>11, <2>2, <2>4 DEF PollDone, Fetch, Store
  <2>5. CASE cmd.rw = "read"
    <3>1. Head(todo) = "read" /\ pc' = "next" /\ pc = "poll"
      BY <1>11, <2>2, <2>5, AccessKinds DEF PollDone, Finish
    <3>2. Home(cmd) \in Spaces /\ Reg(cmd) \in Regs /\ Reg(cmd) \in WordsOf(Unit(cmd), Reg(cmd))
      <4>1. \E w : w \in WordsOf(Unit(cmd), Reg(cmd))
        BY DEF WordsOf
      <4> QED
        BY <2>1, <2>2, <4>1, Slots1, HomeUnit, CommandFields
    <3>3. /\ data[Unit(cmd)][Slot(Unit(cmd), Reg(cmd))] = Coming(Home(cmd), Reg(cmd))
          /\ MemoryInv
      BY <2>1, <3>1, <3>2 DEF MemInv, InOrder, FetchedInv
    <3>4. ~Made
      BY <3>1 DEF Made
    <3>5. Coming(Home(cmd), Reg(cmd)) = Meant(i - 1)[Home(cmd)][Reg(cmd)]
      BY <3>2, <3>3, <3>4 DEF MemoryInv, Performed
    <3>6. answer' = [answer EXCEPT ![DataNum(pmmd_cmd)[i - 1]] =
                       {Field(cmd, data[Unit(cmd)][Slot(Unit(cmd), Reg(cmd))])}]
      BY <1>11, <2>5, <3>1 DEF PollDone, Fetch, Store, InOrder
    <3> QED
      BY <1>4, <2>2, <2>5, <3>1, <3>3, <3>5, <3>6
  <2> QED
    BY <2>2, <2>3, <2>4, <2>5, CommandFields
<1>12. CASE Serve \/ UNCHANGED vars
  <2>1. UNCHANGED <<pmmd_cmd, i, todo, pc, before, answer, late, lost>>
    BY <1>12 DEF Serve, ServeJob, vars, fwVars, history
  <2>2. \A n : Meant(n)' = Meant(n) /\ cmd' = cmd
    BY <2>1 DEF Meant, cmd
  <2> QED
    BY <2>1, <2>2, AnswersSame DEF AnswerInv, InOrder, AtAccess
<1> QED
  BY <1>1, <1>2, <1>7, <1>8, <1>9, <1>10, <1>11, <1>12 DEF Next, Firmware

\* Every step keeps the end.
LEMMA EndStep == TypeInv /\ EndInv /\ [Next]_vars => EndInv'
<1> SUFFICES ASSUME TypeInv, EndInv, [Next]_vars PROVE EndInv'
  OBVIOUS
<1>1. CASE NextCommand
  BY <1>1 DEF NextCommand, EndInv, TypeInv, TypeOK
<1>2. CASE Serve \/ UNCHANGED vars
  BY <1>2 DEF Serve, ServeJob, vars, fwVars, EndInv
<1>3. CASE pc' # "idle"
  BY <1>3 DEF EndInv
<1> QED
  BY <1>1, <1>2, <1>3
  DEF Next, Firmware, Receive, DirectRead, DirectWrite, PostRead, PostReadLost, Setup, Start,
      PollBusy, PollDone, GiveUp, Finish

-----------------------------------------------------------------------------

\* What is true from the start and in every step of a batch.
BatchInv ==
    /\ TypeInv /\ SelectionInv /\ TodoShape /\ JobsInv /\ OnTimeInv /\ MemInv
    /\ AnswerInv /\ EndInv

\* A batch is done as asked if everything is as meant when it ends.
LEMMA BatchDone == BatchInv => DoneAsAsked
<1> SUFFICES ASSUME BatchInv, pc = "idle", ~late, ~lost, \A u \in Units : job[u] = {}
             PROVE  LET at == After(pmmd_cmd, before)
                    IN  /\ mem = at[Len(pmmd_cmd)]
                        /\ \A n \in 1..Len(pmmd_cmd) : Answered(n)
  BY DEF DoneAsAsked, Answered, Meant
<1>1. i = Len(pmmd_cmd) /\ ~AtAccess /\ Made
  BY DEF BatchInv, EndInv, AtAccess, Made
<1>2. \A n \in 1..Len(pmmd_cmd) : Answered(n)
  BY <1>1 DEF BatchInv, AnswerInv, InOrder
<1>3. \A s \in Spaces, r \in Regs : mem[s][r] = Meant(Len(pmmd_cmd))[s][r]
  <2>1. \A s \in Spaces : s # "mdio" => UnitOf(s) \in Units
    BY DEF UnitOf, Units, Spaces, Channels
  <2>2. \A s \in Spaces, r \in Regs : Coming(s, r) = mem[s][r]
    BY <2>1 DEF Coming
  <2> QED
    BY <1>1, <2>2 DEF BatchInv, MemInv, InOrder, MemoryInv, Performed
<1>4. mem \in Memories /\ Meant(Len(pmmd_cmd)) \in Memories
  <2>1. Len(pmmd_cmd) \in 0..Len(pmmd_cmd)
    BY DEF BatchInv, TypeInv, TypeOK
  <2> QED
    BY <2>1, MeantSteps DEF BatchInv, TypeInv, TypeOK, Memories
<1>5. mem = Meant(Len(pmmd_cmd))
  BY <1>3, <1>4 DEF Memories
<1> QED
  BY <1>2, <1>5 DEF Meant

\* For any batches, words and bounds: when every access has been served in its
\* time and every read answered, a batch without alive reads or masked writes of
\* the DMA MCU has done what its commands ask for, one after the other, and the
\* response holds what each read or post command was to find.
THEOREM BatchesDoneAsAsked == ASSUME DmaWritesWhole PROVE Spec => []DoneAsAsked
<1>1. Init => BatchInv
  <2> SUFFICES ASSUME Init PROVE BatchInv
    OBVIOUS
  <2>1. pc = "idle" /\ i = 0 /\ pmmd_cmd = <<>> /\ before = mem /\ \A u \in Units : job[u] = {}
    BY DEF Init
  <2>2. TypeInv
    BY TypeInit
  <2>3. MemInv
    <3>1. \A s \in Spaces : s # "mdio" => UnitOf(s) \in Units
      BY DEF UnitOf, Units, Spaces, Channels
    <3>2. \A s \in Spaces, r \in Regs : Coming(s, r) = mem[s][r]
      BY <2>1, <3>1 DEF Coming
    <3>3. Made
      BY <2>1 DEF Made
    <3>4. Meant(Performed) = mem
      BY <2>1, <2>2, <3>3, MeantSteps DEF Performed
    <3> QED
      BY <2>1, <3>2, <3>4 DEF MemInv, MemoryInv, ReadInv, RestInv, SetInv, FetchedInv
  <2>4. Len(pmmd_cmd) = 0
    BY <2>1
  <2> QED
    BY <2>1, <2>2, <2>3, <2>4
    DEF BatchInv, SelectionInv, TodoShape, JobsInv, OnTimeInv, AnswerInv, EndInv, AtAccess, Init
<1>2. BatchInv /\ [Next]_vars => BatchInv'
  BY TypeStep, SelectionStep, ShapeStep, JobsStep, OnTimeStep, MemStep, AnswerStep, EndStep DEF BatchInv
<1> QED
  BY <1>1, <1>2, BatchDone, PTL DEF Spec
=============================================================================
