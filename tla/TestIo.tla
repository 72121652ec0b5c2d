------------------------------ MODULE TestIo ------------------------------
(***************************************************************************)
(* TestIO commands: Testio_Parsing, Testio_Processing and the OCP accesses *)
(* they make (testio_gpio.c).                                              *)
(*                                                                         *)
(* A batch of commands reads and writes registers of a target chip over    *)
(* MDIO.  The target has two access units: one works while its MCU runs    *)
(* (MODE_ALIVE, words or double words, byte enables), the other while it   *)
(* is stalled (MODE_STALL, words).  Bit 7 of the target's register 0       *)
(* selects the MCU the access is for.  The firmware sets registers, starts *)
(* the unit, polls its busy flag a bounded number of times and fetches the *)
(* result.  A write of some bits of a register reads it first.             *)
(*                                                                         *)
(* The target is outside src/: it serves a started access at its own pace  *)
(* or never, and 0 written to a busy flag cancels the access, which is     *)
(* what the code does on a timeout ("Clear Current Access").  Registers    *)
(* are sets of bits, and addresses count words.  MDIO writes that nothing  *)
(* observes before the unit starts are one step.  ReadOCPRegTestIO has no  *)
(* return statement, nor have the functions that read a channel; their     *)
(* compiled bodies leave the value of the access in the result register,   *)
(* so the model returns it.                                                *)
(*                                                                         *)
(* The PHYs and the EFUSE of the target are reached through a register     *)
(* each, in alive mode: a double word with the number of a word, its data  *)
(* and a flag starts the channel, and the flag is polled without a bound,  *)
(* by accesses of which each is bounded.  Channels are used for words, on  *)
(* the PLA or a PCI target, as the comments at their cases say.  Not       *)
(* modelled: the seventeenth bit of an EFUSE word, and commands whose dev  *)
(* field names no MCU or whose channel field no channel.                   *)
(***************************************************************************)
EXTENDS Integers, Sequences, FiniteSets

CONSTANTS
    ByteBits,    \* bits of a byte: 8
    Words,       \* addresses of the target's words: 0..2^15-1
    Commands,    \* commands a host may send
    Images,      \* what the target's words may hold at first
    MaxSet,      \* bound: commands of a batch (setnum)
    MaxCommands, \* bound: commands in all
    MaxPolls     \* polls before an access is given up: 10000, alive 50000

Bits(size) == 0 .. (IF size = "dword" THEN 4 ELSE 2) * ByteBits - 1
WordBits   == Bits("word")
Devs       == {"pla", "dma"}   \* a PCI target is selected like the PLA
Phys       == {"gphy", "ephy"}
Channels   == Phys \cup {"efuse"}
Spaces     == Devs \cup Channels
Modes      == {"alive", "stall"}
Ops        == {"read", "write"}

CommandType == [rw : Ops, channel : {"ocp"} \cup Channels, mode : Modes,
                size : {"word", "dword"}, dev : Devs, addr : Words,
                lbit : Bits("dword"), hbit : Bits("dword"), data : SUBSET Bits("dword")]

\* An access to a register of an MCU, or one that starts or polls a channel
\* ("for" says for what), or enables the programming of the EFUSE.
AccessType == [op : Ops, half : {0, 1}, for : {"ocp", "enable"} \cup Ops]

JobType == [op : Ops, for : {"ocp", "enable"} \cup Ops, dev : Spaces, addr : Nat,
            words : {1, 2}, enabled : SUBSET Bits("dword")]

ASSUME TestIoAssumption ==
    /\ ByteBits \in Nat \ {0}
    /\ Words \subseteq Nat
    /\ MaxSet \in Nat /\ MaxCommands \in Nat
    /\ MaxPolls \in Nat \ {0}
    /\ Commands \subseteq CommandType
    /\ Images \subseteq [Spaces -> [Words -> SUBSET WordBits]]
    /\ \A c \in Commands :
         /\ c.lbit <= c.hbit /\ c.hbit \in Bits(c.size)
         /\ c.size = "dword" => c.addr + 1 \in Words
         /\ c.channel # "ocp" => c.mode = "alive" /\ c.size = "word" /\ c.dev = "pla"

VARIABLES
    ptestio_cmd,  \* the batch
    k,            \* the command of the batch being processed
    todo,         \* its accesses, from the one being made
    RetVal,       \* bits read for it so far
    polls,        \* polls of the access so far
    answer,       \* the words of the response: {value}, or {} if not known
    pc,           \* where Testio_Processing is
    received,     \* commands received so far
    mem,          \* the words of the target's MCUs and behind its channels
    chan,         \* what each channel was started for last, and whether it is done
    job,          \* what each unit of the target has been started for: at most one access
    result,       \* the data registers of each unit
    before,       \* history: mem when the batch arrived
    earlier,      \* history: commands of earlier batches that left a write pending
    late          \* history: an access was given up in the batch, or one is in earlier

fwVars     == <<ptestio_cmd, k, todo, RetVal, polls, answer, pc, received>>
targetVars == <<mem, chan, job, result>>
history    == <<before, earlier, late>>
vars       == <<fwVars, targetVars, history>>

-----------------------------------------------------------------------------
(* Words and masks.                                                        *)

Size(c) == IF c.size = "dword" THEN 2 ELSE 1

\* Word h of a double word, and back.
Half(value, h) == {b \in WordBits : b + h * 2 * ByteBits \in value}
AtHalf(word, h) == {b + h * 2 * ByteBits : b \in word}

Mask(c)    == c.lbit .. c.hbit

\* A write that reads first: of a part of a register, and any of the EFUSE,
\* whose mask has a seventeenth bit.
Partial(c) == Mask(c) # Bits(c.size) \/ c.channel = "efuse"

\* The words a command is about.
Space(c) == IF c.channel = "ocp" THEN c.dev ELSE c.channel

\* The value a write command stores, given what it read.
SetVal(c, old) ==
    IF Partial(c) THEN (old \ Mask(c)) \cup (c.data \cap Mask(c)) ELSE c.data

\* Faulty variant: every byte is enabled.
Enabled_All(c) == Bits(c.size)

\* The bits of the bytes that ByteEn enables.
Enabled(c) == {b \in Bits(c.size) :
                 b \div ByteBits \in (c.lbit \div ByteBits) .. (c.hbit \div ByteBits)}

\* Faulty variant: every read is given one word of the response.
DataNum_Words(cmds) ==
    LET num[n \in 0..Len(cmds)] ==
          IF n = 0 THEN 0 ELSE num[n - 1] + (IF cmds[n].rw = "read" THEN 1 ELSE 0)
    IN  num

\* pdata_num after n commands, in words: command n + 1 answers from there.
DataNum(cmds) ==
    LET num[n \in 0..Len(cmds)] ==
          IF n = 0 THEN 0 ELSE num[n - 1] + (IF cmds[n].rw = "read" THEN Size(cmds[n]) ELSE 0)
    IN  num

\* Faulty variant: the words of a double word are counted from one.
Accesses_OffByOne(c) ==
    LET each(op) == IF c.mode = "alive" THEN <<[op |-> op, half |-> 0, for |-> "ocp"]>>
                    ELSE [i \in 1..Size(c) |-> [op |-> op, half |-> i, for |-> "ocp"]]
    IN  IF c.rw = "read" THEN each("read")
        ELSE (IF Partial(c) THEN each("read") ELSE <<>>) \o each("write")

\* The accesses of a command: a stalled double word takes two, and what goes
\* through a channel one to start it and others to poll it.
Accesses(c) ==
    LET access(op, h, for) == [op |-> op, half |-> h, for |-> for]
        each(op) == IF c.channel # "ocp" THEN <<access("write", 0, op), access("read", 0, op)>>
                    ELSE IF c.mode = "alive" THEN <<access(op, 0, "ocp")>>
                    ELSE [i \in 1..Size(c) |-> access(op, i - 1, "ocp")]
        enable   == IF c.channel = "efuse" THEN <<access("write", 0, "enable")>> ELSE <<>>
    IN  IF c.rw = "read" THEN each("read")
        ELSE enable \o (IF Partial(c) THEN each("read") ELSE <<>>) \o each("write")

\* The flag a channel is polled for: bit 31, for a write of the EFUSE bit 30.
\* A PHY raises it when a read is done, and lowers it when a write is; the
\* EFUSE lowers it for both.
Flag(ch, op)   == 4 * ByteBits - (IF ch = "efuse" /\ op = "write" THEN 2 ELSE 1)
Raises(ch, op) == ch \in Phys /\ op = "read"

\* What the register of a channel reads as.
ChannelWord(ch) ==
    LET q == chan[ch]
    IN  q.data \cup IF q.done = Raises(ch, q.op) THEN {Flag(ch, q.op)} ELSE {}

cmd == ptestio_cmd[k]

-----------------------------------------------------------------------------
NoJob    == [m \in Modes |-> {}]
NoAnswer == [w \in 0 .. 2 * MaxSet - 1 |-> {}]

Init ==
    /\ ptestio_cmd = <<>> /\ k = 0 /\ todo = <<>> /\ RetVal = {}
    /\ polls = 0
    /\ answer = NoAnswer
    /\ pc = "idle" /\ received = 0
    /\ mem \in Images
    /\ chan = [ch \in Channels |-> [op |-> "write", done |-> TRUE, reg |-> 0, data |-> {}]]
    /\ job = NoJob
    /\ result = [m \in Modes |-> {}]
    /\ before = mem /\ earlier = {} /\ late = FALSE

\* Testio_Parsing: a batch arrives, and does not know of a stalled access, or
\* one of a channel, that was given up.
Receive ==
    /\ pc = "idle"
    /\ \E n \in 0..MaxSet : \E cmds \in [1..n -> Commands] :
         /\ received + n <= MaxCommands
         /\ ptestio_cmd' = cmds /\ received' = received + n
    /\ k' = 0 /\ pc' = "next"
    /\ answer' = NoAnswer
    /\ before' = mem
    /\ LET sent == earlier \cup {ptestio_cmd[n] : n \in 1..k}
       IN  earlier' = {c \in sent : IF c.channel = "ocp"
                                    THEN job["stall"] # {} /\ (k = 0 \/ c = cmd)
                                    ELSE ~chan[c.channel].done /\ chan[c.channel].reg = c.addr}
    /\ late' = (earlier' # {})
    /\ UNCHANGED <<todo, RetVal, polls, targetVars>>

\* The loop of Testio_Processing: the next command, or the end.
NextCommand ==
    /\ pc = "next" /\ todo = <<>>
    /\ IF k < Len(ptestio_cmd)
         THEN /\ k' = k + 1
              /\ todo' = Accesses(ptestio_cmd[k + 1])
              /\ pc' = "start"
         ELSE /\ pc' = "idle"
              /\ UNCHANGED <<k, todo>>
    /\ RetVal' = {}
    /\ UNCHANGED <<ptestio_cmd, polls, answer, received, targetVars, history>>

\* The MCU register 0 selects when the access is started: the command word of
\* a stalled write, 0x6001, has bit 7 clear.
Selected(a) == IF cmd.mode = "stall" /\ a.op = "write" THEN "pla" ELSE cmd.dev

\* RdOCPAddr, WtOCPAddr, RdOCPAddr_Alive, WtOCPAddr_Alive up to the polling:
\* the selection, which clears the busy flag of the stalled unit, the address,
\* the data of a write and the start.
Start ==
    /\ pc = "start"
    /\ LET a     == Head(todo)
           value == SetVal(cmd, RetVal)
           data  == IF cmd.mode = "stall" THEN Half(value, a.half)
                    ELSE IF a.for \in {"read", "enable"} THEN {}
                    ELSE value \cap Bits(cmd.size)
           stall == cmd.mode = "stall"
       IN  /\ job' = [job EXCEPT !["stall"] = {},
                        ![cmd.mode] = {[op |-> a.op, for |-> a.for,
                                        dev |-> IF a.for = "ocp" THEN Selected(a) ELSE Space(cmd),
                                        addr |-> cmd.addr + a.half,
                                        words |-> IF stall THEN 1 ELSE Size(cmd),
                                        enabled |-> IF stall THEN WordBits ELSE Enabled(cmd)]}]
           /\ result' = IF a.op = "write" THEN [result EXCEPT ![cmd.mode] = data] ELSE result
    /\ polls' = 0 /\ pc' = "poll"
    /\ UNCHANGED <<ptestio_cmd, k, todo, RetVal, answer, received, mem, chan, history>>

\* The target serves an access to the register of a channel: it is started,
\* also over what it was started for before, or its register is read.  The
\* word that enables the EFUSE is none of those modelled.
ServeChannel ==
    \E j \in job["alive"] :
      /\ j.for # "ocp"
      /\ chan' = IF j.op = "write" /\ j.for # "enable"
                 THEN [chan EXCEPT ![j.dev] = [op |-> j.for, done |-> FALSE, reg |-> j.addr,
                                               data |-> result["alive"]]]
                 ELSE chan
      /\ result' = IF j.op = "read" THEN [result EXCEPT !["alive"] = ChannelWord(j.dev)]
                   ELSE result
      /\ job' = [job EXCEPT !["alive"] = {}]
      /\ UNCHANGED <<fwVars, mem, history>>

\* A channel does what it was started for.
ChannelDone ==
    \E ch \in Channels :
      LET q == chan[ch] IN
      /\ ~q.done
      /\ chan' = [chan EXCEPT ![ch].done = TRUE,
                              ![ch].data = IF q.op = "read" THEN mem[ch][q.reg] ELSE @]
      /\ mem' = IF q.op = "write" THEN [mem EXCEPT ![ch][q.reg] = q.data] ELSE mem
      /\ UNCHANGED <<fwVars, job, result, history>>

\* The target serves the access one of its units was started for.
Serve ==
    \E m \in Modes : \E j \in job[m] :
      /\ j.for = "ocp"
      /\ LET w   == mem[j.dev]
             old == UNION {AtHalf(w[j.addr + h], h) : h \in 0..j.words - 1}
             new == (old \ j.enabled) \cup (result[m] \cap j.enabled)
         IN  IF j.op = "read"
               THEN /\ result' = [result EXCEPT ![m] = old]
                    /\ UNCHANGED mem
               ELSE /\ mem' = [mem EXCEPT ![j.dev] = [a \in Words |->
                         IF a \in j.addr .. j.addr + j.words - 1
                           THEN Half(new, a - j.addr) ELSE w[a]]]
                    /\ UNCHANGED result
      /\ job' = [job EXCEPT ![m] = {}]
      /\ UNCHANGED <<fwVars, chan, history>>

\* A poll of a channel that returned value finds it done, or is repeated.
Polled(value) ==
    LET for == Head(todo).for
    IN  (Flag(cmd.channel, for) \in value) = Raises(cmd.channel, for)

\* Faulty variant: a channel is taken for done at the first poll.
ReturnChannel_Once(value) ==
    LET a    == Head(todo)
        read == a.op = "read" /\ a.for = "read"
    IN  /\ RetVal' = IF read THEN Half(value, 0) ELSE RetVal
        /\ answer' = IF read /\ cmd.rw = "read"
                     THEN [answer EXCEPT ![DataNum(ptestio_cmd)[k - 1]] = {Half(value, 0)}]
                     ELSE answer
        /\ todo' = Tail(todo) /\ polls' = 0
        /\ pc' = IF Tail(todo) = <<>> THEN "next" ELSE "start"

\* The end of an access for a channel.  What was read last is the word.
ReturnChannel(value) ==
    LET a    == Head(todo)
        busy == a.op = "read" /\ ~Polled(value)
        read == a.op = "read" /\ a.for = "read" /\ ~busy
    IN  /\ RetVal' = IF read THEN Half(value, 0) ELSE RetVal
        /\ answer' = IF read /\ cmd.rw = "read"
                     THEN [answer EXCEPT ![DataNum(ptestio_cmd)[k - 1]] = {Half(value, 0)}]
                     ELSE answer
        /\ todo' = IF busy THEN todo ELSE Tail(todo)
        /\ polls' = 0
        /\ pc' = IF todo' = <<>> THEN "next" ELSE "start"

\* The end of an access that returned value: a read command stores it in the
\* response, in alive mode both words of it (upper stands for the second word
\* of a word access); the other reads keep it for SetVal.
ReturnOCP(value, upper) ==
    LET access == Head(todo)
        at     == DataNum(ptestio_cmd)[k - 1]
    IN  /\ RetVal' = IF access.op = "read" THEN RetVal \cup AtHalf(value, access.half)
                     ELSE RetVal
        /\ answer' =
             IF cmd.rw = "write" THEN answer
             ELSE IF cmd.mode = "stall" THEN [answer EXCEPT ![at + access.half] = {value}]
             ELSE [answer EXCEPT ![at] = {Half(value, 0)},
                   ![at + 1] = IF cmd.size = "dword" THEN {Half(value, 1)} ELSE upper]
        /\ todo' = Tail(todo) /\ polls' = 0
        /\ pc' = IF Tail(todo) = <<>> THEN "next" ELSE "start"

Return(value, upper) ==
    IF cmd.channel = "ocp" THEN ReturnOCP(value, upper) ELSE ReturnChannel(value)

\* Faulty variant: polls without a bound.
PollBusy_Forever ==
    /\ pc = "poll" /\ job[cmd.mode] # {}
    /\ UNCHANGED vars

\* A poll that finds the flag set, and is not the last.
PollBusy ==
    /\ pc = "poll" /\ job[cmd.mode] # {}
    /\ polls + 1 < MaxPolls
    /\ polls' = polls + 1
    /\ UNCHANGED <<ptestio_cmd, k, todo, RetVal, answer, pc, received,
                   targetVars, history>>

\* A poll that finds the flag clear in time: the result is fetched.  The upper
\* half of ReadData stays uninitialised when a word is read.
PollDone ==
    /\ pc = "poll" /\ job[cmd.mode] = {}
    /\ polls + 1 < MaxPolls
    /\ Return(result[cmd.mode], {})
    /\ UNCHANGED <<ptestio_cmd, k, received, targetVars, history>>

\* Faulty variant: the access is given up, but not cancelled.
GiveUp_KeepJob ==
    /\ pc = "poll"
    /\ polls + 1 = MaxPolls
    /\ Return(IF cmd.mode = "stall" THEN WordBits ELSE {}, {{}})
    /\ late' = TRUE
    /\ UNCHANGED <<ptestio_cmd, k, received, targetVars, before, earlier>>

\* The last poll counts as a timeout whatever it finds.  A stalled access then
\* returns 0xFFFF and an alive one is cancelled and returns 0; the caller does
\* not look.
GiveUp ==
    /\ pc = "poll"
    /\ polls + 1 = MaxPolls
    /\ job' = IF cmd.mode = "alive" THEN [job EXCEPT !["alive"] = {}] ELSE job
    /\ Return(IF cmd.mode = "stall" THEN WordBits ELSE {}, {{}})
    /\ late' = TRUE
    /\ UNCHANGED <<ptestio_cmd, k, received, mem, chan, result, before, earlier>>

Firmware == Receive \/ NextCommand \/ Start \/ PollBusy \/ PollDone \/ GiveUp

Next == Firmware \/ Serve \/ ServeChannel \/ ChannelDone

Spec == Init /\ [][Next]_vars

\* The processor runs on.  The target's units owe nothing; a channel that was
\* started is done some time, which the code's unbounded polls rely on.
FairSpec == Spec /\ WF_vars(Firmware) /\ WF_vars(ChannelDone)

-----------------------------------------------------------------------------
(* Properties                                                              *)

\* Every variable has its type.
TypeOK ==
    /\ Len(ptestio_cmd) <= MaxSet
    /\ \A n \in 1..Len(ptestio_cmd) : ptestio_cmd[n] \in Commands
    /\ k \in 0..Len(ptestio_cmd)
    /\ pc \in {"idle", "next", "start", "poll"}
    /\ pc \in {"start", "poll"} => k > 0
    /\ pc = "start" => todo # <<>>
    /\ RetVal \subseteq Bits("dword")
    /\ todo = <<>> \/ Head(todo) \in AccessType
    /\ polls \in 0..MaxPolls - 1
    /\ answer \in [0 .. 2 * MaxSet - 1 -> SUBSET SUBSET WordBits]
    /\ mem \in [Spaces -> [Words -> SUBSET WordBits]]
    /\ chan \in [Channels -> [op : Ops, done : BOOLEAN, reg : Nat, data : SUBSET WordBits]]
    /\ \A ch \in Channels : chan[ch].done \/ chan[ch].reg \in Words
    /\ \A m \in Modes : job[m] \subseteq JobType
    /\ result \in [Modes -> SUBSET Bits("dword")]
    /\ received \in 0..MaxCommands
    /\ earlier \subseteq Commands /\ late \in BOOLEAN

\* What a write command is meant to do to the words of its MCU.
Written(c, words) ==
    [a \in Words |->
       {b \in WordBits :
          LET bit == b + (a - c.addr) * 2 * ByteBits
          IN  IF a \in c.addr .. c.addr + Size(c) - 1 /\ bit \in Mask(c)
                THEN bit \in c.data ELSE b \in words[a]}]

\* The memory of the target after n commands of a batch, one after the other.
After(cmds, m) ==
    LET at[n \in 0..Len(cmds)] ==
          IF n = 0 THEN m
          ELSE IF cmds[n].rw = "read" THEN at[n - 1]
          ELSE [at[n - 1] EXCEPT ![Space(cmds[n])] = Written(cmds[n], @)]
    IN  at

\* A batch during which no access was given up or left over has done what its commands ask
\* for, one after the other: the masked bits are written and no others, and
\* the response holds, at the place of each read, what the register held when
\* its turn came, whatever the words stored past a shorter read.
DoneAsAsked ==
    pc = "idle" /\ ~late =>
      LET at == After(ptestio_cmd, before)
      IN  /\ mem = at[Len(ptestio_cmd)]
          /\ \A n \in 1..Len(ptestio_cmd) :
               LET c == ptestio_cmd[n]
               IN  c.rw = "read" =>
                     \A h \in 0..Size(c) - 1 :
                       answer[DataNum(ptestio_cmd)[n - 1] + h] = {at[n - 1][Space(c)][c.addr + h]}

\* Even a target that answers late, so that a write merges what no read
\* returned, is changed only where a write of the batch, or the one an earlier
\* batch left pending, may: in its words, and in alive mode in the bytes its
\* mask touches.
OnlyTouchedBytes ==
    [][\A d \in Spaces, a \in Words, b \in WordBits :
         (b \in mem[d][a]) # (b \in mem'[d][a]) =>
           \E c \in earlier \cup {ptestio_cmd[n] : n \in 1..k} :
             LET bit == b + (a - c.addr) * 2 * ByteBits
             IN  /\ c.rw = "write" /\ Space(c) = d
                 /\ a \in c.addr .. c.addr + Size(c) - 1
                 /\ c.mode = "alive" /\ c.channel = "ocp" =>
                      \E m \in Mask(c) : m \div ByteBits = bit \div ByteBits]_vars

\* The units of the target never work for two accesses at once: when the
\* firmware starts one, those it gave up before are over.
NoOverlap ==
    /\ job["alive"] # {} => pc = "poll" /\ cmd.mode = "alive"
    /\ pc = "poll" /\ cmd.mode = "alive" => job["stall"] = {}

\* A batch ends even if the units of the target never answer, unless it reads
\* a PHY: what a given-up access returns is taken for a read not done yet,
\* however often.
BatchEnds == pc # "idle" ~> (pc = "idle" \/ (late /\ k > 0 /\ cmd.channel \in Phys))

\* An access is made to the MCU its command names.
ReachesDevice == \A m \in Modes : \A j \in job[m] : pc = "poll" => j.dev = Space(cmd)
=============================================================================
