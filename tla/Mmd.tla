-------------------------------- MODULE Mmd --------------------------------
(***************************************************************************)
(* MMD commands: MMD_Parsing, MMD_Processing and the accesses they make    *)
(* (mmd.c) over MDIO clause 45 (mdio_bitbang.c).                           *)
(*                                                                         *)
(* A batch of commands reads and writes words of a chip.  The route of a   *)
(* command is the way to the word: while the chip's MCU runs ("alive"),    *)
(* and to the words behind the GPHY, EPHY and EFUSE channels, a unit of    *)
(* the chip makes the access: the firmware sets its registers, starts it,  *)
(* polls it a bounded number of times and fetches the data.  While the MCU *)
(* is stalled, and for other devices, the word is an MDIO register.  A     *)
(* post command reads several of these in a row.  One register selects the *)
(* MCU of alive accesses.  A write of some bits of a word reads it first.  *)
(*                                                                         *)
(* The chip is outside src/: a unit serves an access at its own pace or    *)
(* never, keeps the word it was started for, uses its data registers when  *)
(* it serves, and forgets an access when it is started for the next.  A    *)
(* read on MDIO that nothing answers yields 0xFFFF (Lossy).  A word is a   *)
(* set of bits.  Words are counted, so an odd address names the word of    *)
(* the even one.  The clock of MDIO and the EFUSE page enable have no      *)
(* effect here.  Not modelled: post commands on the three channels, where  *)
(* the code treats them as writes, the opera_rw code 3, and the unknown    *)
(* subtypes, which do nothing.                                             *)
(***************************************************************************)
EXTENDS Integers, Sequences, FiniteSets

CONSTANTS
    WordLen,     \* bits of a word: 16
    Regs,        \* the words of a space: 0..2^15-1
    Commands,    \* commands a host may send
    Images,      \* what the words may hold at first
    Lossy,       \* may a read on MDIO go unanswered
    MaxPost,     \* bound: words of a post command
    MaxSet,      \* bound: commands of a batch (setnum)
    MaxCommands, \* bound: commands in all
    MaxPolls     \* polls before an access is given up: 10, on the channels 1000

WordBits == 0..WordLen - 1
Word     == SUBSET WordBits
Devs     == {"pci", "pla", "dma"}
Channels == {"gphy", "ephy", "efuse"}
Routes   == {"alive", "stall", "other"} \cup Channels
Units    == {"ocp"} \cup Channels
Spaces   == {"pla", "dma", "mdio"} \cup Channels
Slots    == {0, 1}

CommandType == [rw : {"read", "write", "post"}, route : Routes, dev : Devs, addr : Nat,
                lbit : WordBits, hbit : WordBits, data : Word, num : 0..MaxPost]

JobType == [op : {"read", "write"}, space : Spaces, words : SUBSET Regs]

\* The first word a command names: only other devices count addresses in words.
Reg(c) == IF c.route = "other" THEN c.addr ELSE c.addr \div 2

ASSUME MmdAssumption ==
    /\ WordLen \in Nat \ {0} /\ Lossy \in BOOLEAN
    /\ Regs \subseteq Nat
    /\ \A r \in Regs : {2 * (r \div 2), 2 * (r \div 2) + 1} \subseteq Regs
    /\ MaxPost \in Nat /\ MaxSet \in Nat /\ MaxCommands \in Nat
    /\ MaxPolls \in Nat \ {0}
    /\ Commands \subseteq CommandType
    /\ Images \subseteq [Spaces -> [Regs -> Word]]
    /\ \A c \in Commands :
         /\ Reg(c) \in Regs
         /\ c.rw = "post" => /\ c.route \notin Channels
                             /\ \A n \in 0..c.num - 1 : Reg(c) + n \in Regs

VARIABLES
    pmmd_cmd,  \* the batch
    i,         \* the command of the batch being processed
    todo,      \* its accesses, from the one being made
    readval,   \* the last word read: {word}, or {} if it has never been set
    rd_data,   \* the word a channel's function read for a masked write
    polls,     \* polls of the access so far
    answer,    \* the words of the response: {word}, or {} if not stored
    retval,    \* the status so far
    pc,        \* where MMD_Processing is
    received,  \* commands received so far
    sel,       \* the MCU selection: "default" 0, "dma" 0x80, "unknown" 0x800
    mem,       \* the words of the chip
    job,       \* what each unit has been started for: at most one access
    data,      \* the data registers of each unit
    before,    \* history: mem when the batch arrived
    earlier,   \* history: the accesses pending when it arrived
    late,      \* history: an access was given up, started over or left pending
    lost       \* history: a read of the batch on MDIO went unanswered

fwVars   == <<pmmd_cmd, i, todo, readval, rd_data, polls, answer, retval, pc, received>>
chipVars == <<sel, mem, job, data>>
history  == <<before, earlier, late, lost>>
vars     == <<fwVars, chipVars, history>>

-----------------------------------------------------------------------------
Mask(c)    == c.lbit..c.hbit
Partial(c) == Mask(c) # WordBits

\* The word a write command stores, given what it read.
SetVal(c, old) ==
    IF Partial(c) THEN (old \ Mask(c)) \cup (c.data \cap Mask(c)) ELSE c.data

\* The word a read command answers: its field, shifted down.
Field(c, value) == {b - c.lbit : b \in value \cap Mask(c)}

\* pdata_num after n commands, in words: command n + 1 answers from there.
DataNum(cmds) ==
    LET num[n \in 0..Len(cmds)] ==
          IF n = 0 THEN 0
          ELSE num[n - 1] + (CASE cmds[n].rw = "read"  -> 1
                               [] cmds[n].rw = "post"  -> cmds[n].num
                               [] cmds[n].rw = "write" -> 0)
    IN  num

\* Faulty variant: a masked write does not read first.
Accesses_NoRead(c) ==
    IF c.rw = "post" THEN [n \in 1..c.num |-> "post"] ELSE <<c.rw>>

\* The accesses of a command.  EFUSE_write reads in any case.
Accesses(c) ==
    IF c.rw = "post" THEN [n \in 1..c.num |-> "post"]
    ELSE IF c.rw = "write" /\ (Partial(c) \/ c.route = "efuse") THEN <<"read", "write">>
    ELSE <<c.rw>>

cmd == pmmd_cmd[i]

\* The unit that makes the accesses of a command; the others are made directly.
Unit(c)   == IF c.route = "alive" THEN "ocp" ELSE c.route
Direct(c) == c.route \in {"stall", "other"} \/ c.rw = "post"

\* A channel of the EFUSE works on double words, with a data register each.
WordsOf(u, r) == IF u = "efuse" THEN {2 * (r \div 2), 2 * (r \div 2) + 1} ELSE {r}
Slot(u, r)    == IF u = "efuse" THEN r % 2 ELSE 0

\* What readval may hold, and what a read on MDIO may return.
Readvals       == IF readval = {} THEN Word ELSE readval
mdiobb_read(v) == IF Lossy THEN {v, WordBits} ELSE {v}

-----------------------------------------------------------------------------
Init ==
    /\ pmmd_cmd = <<>> /\ i = 0 /\ todo = <<>> /\ readval = {} /\ rd_data = {} /\ polls = 0
    /\ answer = [w \in 0 .. (MaxPost + 1) * MaxSet - 1 |-> {}]
    /\ retval = 0 /\ pc = "idle" /\ received = 0
    /\ sel = "default"
    /\ mem \in Images
    /\ job = [u \in Units |-> {}]
    /\ data = [u \in Units |-> [s \in Slots |-> {}]]
    /\ before = mem /\ earlier = {} /\ late = FALSE /\ lost = FALSE

\* MMD_Parsing: a batch arrives.
Receive ==
    /\ pc = "idle"
    /\ \E n \in 0..MaxSet : \E cmds \in [1..n -> Commands] :
         /\ received + n <= MaxCommands
         /\ pmmd_cmd' = cmds /\ received' = received + n
    /\ i' = 0 /\ readval' = {} /\ retval' = 0 /\ pc' = "next"
    /\ answer' = [w \in 0 .. (MaxPost + 1) * MaxSet - 1 |-> {}]
    /\ before' = mem
    /\ earlier' = UNION {job[u] : u \in Units}
    /\ late' = (late \/ earlier' # {})
    /\ lost' = FALSE
    /\ UNCHANGED <<todo, rd_data, polls, chipVars>>

\* The loop of MMD_Processing: the next command, or the end.  A post command
\* of no words returns at once.
NextCommand ==
    /\ pc = "next"
    /\ IF i < Len(pmmd_cmd)
         THEN LET accesses == Accesses(pmmd_cmd[i + 1])
              IN  /\ i' = i + 1
                  /\ todo' = accesses
                  /\ pc' = IF accesses = <<>> THEN "next" ELSE "access"
                  /\ retval' = IF accesses = <<>> THEN 0 ELSE retval
         ELSE pc' = "idle" /\ UNCHANGED <<i, todo, retval>>
    /\ UNCHANGED <<pmmd_cmd, readval, rd_data, polls, answer, received, chipVars, history>>

\* The access ends, and with it the command if it was the last.
Finish ==
    /\ todo' = Tail(todo) /\ polls' = 0
    /\ pc' = IF Tail(todo) = <<>> THEN "next" ELSE "access"

\* A read command stores its field of the word it has, fetched or not.
Store(value) ==
    answer' = IF cmd.rw = "read"
                THEN [answer EXCEPT ![DataNum(pmmd_cmd)[i - 1]] = {Field(cmd, value)}]
                ELSE answer

\* Direct_Read, for a read command or before a masked write.
DirectRead ==
    /\ pc = "access" /\ Direct(cmd) /\ Head(todo) = "read"
    /\ \E v \in mdiobb_read(mem["mdio"][Reg(cmd)]) :
         /\ readval' = {v} /\ Store(v)
         /\ lost' = (lost \/ v # mem["mdio"][Reg(cmd)])
    /\ retval' = 0
    /\ Finish
    /\ UNCHANGED <<pmmd_cmd, i, rd_data, received, chipVars, before, earlier, late>>

\* Direct_Write.
DirectWrite ==
    /\ pc = "access" /\ Direct(cmd) /\ Head(todo) = "write"
    /\ \E old \in Readvals : mem' = [mem EXCEPT !["mdio"][Reg(cmd)] = SetVal(cmd, old)]
    /\ retval' = 0
    /\ Finish
    /\ UNCHANGED <<pmmd_cmd, i, readval, rd_data, answer, received, sel, job, data, history>>

\* One word of mdiobb_post_read; the chip counts the address up.
PostRead ==
    /\ pc = "access" /\ Head(todo) = "post"
    /\ LET n == cmd.num - Len(todo)
       IN  answer' = [answer EXCEPT ![DataNum(pmmd_cmd)[i - 1] + n] = {mem["mdio"][Reg(cmd) + n]}]
    /\ retval' = 0
    /\ Finish
    /\ UNCHANGED <<pmmd_cmd, i, readval, rd_data, received, chipVars, history>>

\* A word of mdiobb_post_read is not answered: the rest is left out.
PostReadLost ==
    /\ pc = "access" /\ Head(todo) = "post" /\ Lossy
    /\ retval' = 255
    /\ todo' = <<>> /\ polls' = 0 /\ pc' = "next"
    /\ lost' = TRUE
    /\ UNCHANGED <<pmmd_cmd, i, readval, rd_data, answer, received, chipVars,
                   before, earlier, late>>

-----------------------------------------------------------------------------
(* Accesses made by a unit.                                                *)

\* Faulty variant: only an access to the DMA MCU makes a selection.
Select_DmaOnly(op) ==
    IF Unit(cmd) # "ocp" \/ cmd.dev # "dma" THEN sel
    ELSE IF op = "write" THEN "dma" ELSE "unknown"

\* The selection OCD_Write and OCD_Read make; a PCI chip has none.
Select(op) ==
    IF Unit(cmd) # "ocp" \/ cmd.dev = "pci" THEN sel
    ELSE IF cmd.dev = "pla" THEN "default"
    ELSE IF op = "write" THEN "dma" ELSE "unknown"

\* OCD_Write, OCD_Read and the channels' functions up to the command word: the
\* selection and the data of a write.
Setup ==
    /\ pc = "access" /\ ~Direct(cmd)
    /\ sel' = Select(Head(todo))
    /\ \E old \in IF Unit(cmd) = "ocp" THEN Readvals ELSE {rd_data} :
         data' = IF Head(todo) = "write"
                   THEN [data EXCEPT ![Unit(cmd)][Slot(Unit(cmd), Reg(cmd))] = SetVal(cmd, old)]
                   ELSE data
    /\ pc' = "start"
    /\ UNCHANGED <<pmmd_cmd, i, todo, readval, rd_data, polls, answer, retval, received, mem, job, history>>

\* The space an access reaches: bit 7 of the selection names the DMA MCU.
Space(c) == IF c.route # "alive" THEN c.route ELSE IF sel = "dma" THEN "dma" ELSE "pla"

\* The command word starts the unit.  EFUSE_write does not wait for it.
Start ==
    /\ pc = "start"
    /\ LET u == Unit(cmd)
       IN  /\ job' = [job EXCEPT ![u] = {[op |-> Head(todo), space |-> Space(cmd),
                                         words |-> WordsOf(u, Reg(cmd))]}]
           /\ late' = (late \/ job[u] # {})
           /\ IF u = "efuse" /\ Head(todo) = "write"
                THEN Finish
                ELSE pc' = "poll" /\ UNCHANGED <<todo, polls>>
    /\ UNCHANGED <<pmmd_cmd, i, readval, rd_data, answer, retval, received, sel, mem, data,
                   before, earlier, lost>>

\* A unit serves its access.
ServeJob(u, j) ==
    /\ IF j.op = "read"
         THEN /\ data' = [data EXCEPT ![u] = [s \in Slots |->
                   IF \E r \in j.words : Slot(u, r) = s
                     THEN UNION {mem[j.space][r] : r \in {w \in j.words : Slot(u, w) = s}}
                     ELSE data[u][s]]]
              /\ UNCHANGED mem
         ELSE /\ mem' = [mem EXCEPT ![j.space] = [r \in Regs |->
                   IF r \in j.words THEN data[u][Slot(u, r)] ELSE mem[j.space][r]]]
              /\ UNCHANGED data
    /\ job' = [job EXCEPT ![u] = {}]
    /\ UNCHANGED <<fwVars, sel, history>>

Serve == \E u \in Units : \E j \in job[u] : ServeJob(u, j)

\* What a poll finds.  A poll that is not answered reads as ones: the flag of a
\* GPHY or EPHY read is set when it is done, the others while they work.
DoneFlagHigh == Unit(cmd) \in {"gphy", "ephy"} /\ Head(todo) = "read"
SeenDone ==
    \/ job[Unit(cmd)] = {}
    \/ Lossy /\ DoneFlagHigh
SeenBusy ==
    \/ job[Unit(cmd)] # {}
    \/ Lossy /\ ~DoneFlagHigh

\* The word is fetched from the data register: into readval, but for the masked
\* writes of the channels.
Fetch ==
    IF Head(todo) = "read"
      THEN LET word == data[Unit(cmd)][Slot(Unit(cmd), Reg(cmd))]
           IN  \E v \in mdiobb_read(word) :
                 /\ IF Unit(cmd) \in Channels /\ cmd.rw = "write"
                      THEN rd_data' = v /\ UNCHANGED <<readval, answer>>
                      ELSE readval' = {v} /\ Store(v) /\ UNCHANGED rd_data
                 /\ lost' = (lost \/ v # word)
      ELSE UNCHANGED <<readval, rd_data, answer, lost>>

\* Faulty variant: polls without a bound.
PollBusy_Forever ==
    /\ pc = "poll" /\ SeenBusy
    /\ UNCHANGED vars

\* Faulty variant: one poll too many.
PollBusy_OffByOne ==
    /\ pc = "poll" /\ SeenBusy /\ polls < MaxPolls
    /\ polls' = polls + 1
    /\ UNCHANGED <<pmmd_cmd, i, todo, readval, rd_data, answer, retval, pc, received, chipVars, history>>

\* A poll that finds the unit at work, and is not the last.
PollBusy ==
    /\ pc = "poll" /\ SeenBusy /\ polls + 1 < MaxPolls
    /\ polls' = polls + 1
    /\ UNCHANGED <<pmmd_cmd, i, todo, readval, rd_data, answer, retval, pc, received, chipVars, history>>

\* Faulty variant: the selection is left as it is.
PollDone_KeepSelection ==
    /\ pc = "poll" /\ SeenDone
    /\ Fetch
    /\ retval' = IF Unit(cmd) = "ocp" THEN 0 ELSE retval
    /\ late' = (late \/ job[Unit(cmd)] # {})
    /\ Finish
    /\ UNCHANGED <<pmmd_cmd, i, received, chipVars, before, earlier>>

\* A poll that finds it done: the word is fetched, and after an access to the
\* DMA MCU the selection is set back to its default.
PollDone ==
    /\ pc = "poll" /\ SeenDone
    /\ Fetch
    /\ sel' = IF Unit(cmd) = "ocp" /\ cmd.dev = "dma" THEN "default" ELSE sel
    /\ retval' = IF Unit(cmd) = "ocp" THEN 0 ELSE retval
    /\ late' = (late \/ job[Unit(cmd)] # {})
    /\ Finish
    /\ UNCHANGED <<pmmd_cmd, i, received, mem, job, data, before, earlier>>

\* The last poll finds it at work still.  OCD_Read and OCD_Write return at
\* once, and a read command stores the readval of before; the functions of the
\* channels go on, and nobody looks at what they return.
GiveUp ==
    /\ pc = "poll" /\ SeenBusy /\ polls + 1 = MaxPolls
    /\ IF Unit(cmd) = "ocp"
         THEN /\ retval' = 255
              /\ \E v \in Readvals : Store(v)
              /\ UNCHANGED <<readval, rd_data, lost>>
         ELSE Fetch /\ UNCHANGED retval
    /\ late' = TRUE
    /\ Finish
    /\ UNCHANGED <<pmmd_cmd, i, received, chipVars, before, earlier>>

Firmware == \/ Receive \/ NextCommand
            \/ DirectRead \/ DirectWrite \/ PostRead \/ PostReadLost
            \/ Setup \/ Start \/ PollBusy \/ PollDone \/ GiveUp

Next == Firmware \/ Serve

Spec == Init /\ [][Next]_vars

\* The processor runs on; the chip owes nothing.
FairSpec == Spec /\ WF_vars(Firmware)

-----------------------------------------------------------------------------
(* Properties                                                              *)

\* Every variable has its type.
TypeOK ==
    /\ pmmd_cmd \in Seq(Commands) /\ Len(pmmd_cmd) <= MaxSet
    /\ i \in 0..Len(pmmd_cmd)
    /\ todo \in Seq({"read", "write", "post"})
    /\ pc \in {"idle", "next", "access", "start", "poll"}
    /\ pc \in {"access", "start", "poll"} => i > 0 /\ todo # <<>>
    /\ readval \subseteq Word /\ rd_data \in Word
    /\ polls \in 0..MaxPolls - 1
    /\ answer \in [0 .. (MaxPost + 1) * MaxSet - 1 -> SUBSET Word]
    /\ retval \in {0, 255}
    /\ received \in 0..MaxCommands
    /\ sel \in {"default", "dma", "unknown"}
    /\ mem \in [Spaces -> [Regs -> Word]]
    /\ job \in [Units -> SUBSET JobType]
    /\ data \in [Units -> [Slots -> Word]]
    /\ before \in [Spaces -> [Regs -> Word]]
    /\ earlier \subseteq JobType
    /\ late \in BOOLEAN /\ lost \in BOOLEAN

\* Where the word of a command is meant to be.
Home(c) == CASE c.route = "alive" -> IF c.dev = "dma" THEN "dma" ELSE "pla"
             [] c.route \in {"stall", "other"} -> "mdio"
             [] OTHER -> c.route

\* The memory of the chip after n commands of a batch, one after the other.
After(cmds, m) ==
    LET at[n \in 0..Len(cmds)] ==
          IF n = 0 THEN m
          ELSE LET c == cmds[n]
               IN  IF c.rw # "write" THEN at[n - 1]
                   ELSE [at[n - 1] EXCEPT ![Home(c)][Reg(c)] =
                           (@ \ Mask(c)) \cup (c.data \cap Mask(c))]
    IN  at

\* When every access has been served in its time and every read of the batch has
\* been answered, whatever earlier batches lost, it has done what its commands ask for, one after the other: each write has changed its field and
\* nothing else, the other word of an EFUSE double word included, and the
\* response holds, at the place of each read or post command, what the words
\* held when its turn came.
DoneAsAsked ==
    pc = "idle" /\ ~late /\ ~lost /\ (\A u \in Units : job[u] = {}) =>
      LET at == After(pmmd_cmd, before)
      IN  /\ mem = at[Len(pmmd_cmd)]
          /\ \A n \in 1..Len(pmmd_cmd) :
               LET c    == pmmd_cmd[n]
                   from == DataNum(pmmd_cmd)[n - 1]
               IN  /\ c.rw = "read" =>
                        answer[from] = {Field(c, at[n - 1][Home(c)][Reg(c)])}
                   /\ c.rw = "post" => \A w \in 0..c.num - 1 :
                        answer[from + w] = {at[n - 1]["mdio"][Reg(c) + w]}

\* However late the chip is and whatever is lost on MDIO, a word changes only if
\* a write of the batch names it, or one that was pending when the batch came; in
\* the EFUSE, the double word.
OnlyNamedWords ==
    [][\A s \in Spaces, r \in Regs : mem'[s][r] # mem[s][r] =>
         \/ \E j \in earlier : j.op = "write" /\ j.space = s /\ r \in j.words
         \/ \E n \in 1..i : LET c == pmmd_cmd[n]
                            IN  /\ c.rw = "write" /\ Home(c) = s
                                /\ r \in WordsOf(Unit(c), Reg(c))]_vars

\* While nothing has been given up, the MCU selection has its default value
\* whenever no access is being made, so that it disturbs no stalled access.
DefaultSelected == sel # "default" => late \/ pc \in {"start", "poll"}

\* A batch ends even if the chip never answers.
BatchEnds == pc # "idle" ~> pc = "idle"

\* The selection has its default value after every alive access.
SelectionRestored == pc \in {"idle", "next"} => sel = "default"
=============================================================================
