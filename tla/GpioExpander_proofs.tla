------------------------ MODULE GpioExpander_proofs ------------------------
(***************************************************************************)
(* Proofs about GpioExpander, for any ports, wiring, batches and losses:   *)
(* its types, that no pin drives its wire that no command asked to, and    *)
(* what directions and answers a batch without a lost byte ends with.      *)
(***************************************************************************)
EXTENDS GpioExpander, SequenceTheorems, FiniteSetTheorems, TLAPS

\* The loops of GPIO_Processing stand at commands of their direction.
LoopOK ==
    /\ pc \in {"out_dir", "out_val"} => cmd.pin_dir = "out"
    /\ pc \in {"in_dir", "in_val"} => cmd.pin_dir = "in"

IInv == TypeOK /\ LoopOK

\* A command has a pin, a direction and a level.
LEMMA CommandFields ==
    ASSUME NEW c \in Commands
    PROVE  /\ c.pin_num = <<c.pin_num[1], c.pin_num[2]>>
           /\ c.pin_num[1] \in Ports /\ c.pin_num[2] \in 0..MaxPin
           /\ c.pin_dir \in {"in", "out"} /\ c.pin_level \in Levels
BY DEF Commands, Pins, Levels

\* Goto moves to a command of the loop's direction, or out of the loop.
LEMMA GotoKeeps ==
    ASSUME NEW cmds \in Seq(Commands), NEW dir \in {"in", "out"},
           NEW n \in Nat, Goto(cmds, dir, n)
    PROVE  /\ i' \in 0..Len(cmds)
           /\ pc' \in {"idle", "out_dir", "delay", "in_dir"}
           /\ pc' \notin {"idle", "delay"} => i' > 0
           /\ pc' = "out_dir" => cmds[i'].pin_dir = "out"
           /\ pc' = "in_dir" => cmds[i'].pin_dir = "in"
<1> DEFINE rest == {m \in n + 1..Len(cmds) : cmds[m].pin_dir = dir}
<1>1. CASE \E m \in rest : i' = m /\ pc' = IF dir = "out" THEN "out_dir" ELSE "in_dir"
  BY <1>1
<1>2. CASE i' = 0 /\ pc' = IF dir = "out" THEN "delay" ELSE "idle"
  BY <1>2
<1> QED
  BY <1>1, <1>2 DEF Goto

\* A byte read is the register's or all ones, a register written holds the new
\* byte or the old one, and a transfer loses one byte or none.
LEMMA Registers ==
    ASSUME NEW values, NEW old, NEW new
    PROVE  /\ \A r \in read_reg(values) : (r[1] \in values \/ r[1] = Byte) /\ r[2] \in {0, 1}
           /\ \A w \in write_reg(old, new) : w[1] \in {old, new} /\ w[2] \in {0, 1}
BY DEF read_reg, write_reg

\* The lost bytes stay within their bound.
LEMMA ErrorsKeep ==
    ASSUME TypeOK, NEW n \in Nat, Errors(n)
    PROVE  errors' \in 0..MaxErrors
BY GpioAssumption DEF TypeOK, Errors, GpioAssumption

\* The invariant holds initially: nothing is being processed.
LEMMA InitHolds == Init => IInv
<1> SUFFICES ASSUME Init PROVE IInv
  OBVIOUS
<1>1. pgpio_cmd \in Seq(Commands) /\ answer \in Seq(Levels)
  BY EmptySeq DEF Init
<1> QED
  BY <1>1, GpioAssumption DEF Init, IInv, TypeOK, LoopOK, GpioAssumption

\* Every step keeps it.
LEMMA StepKeeps == IInv /\ [Next]_vars => IInv'
<1> SUFFICES ASSUME IInv, [Next]_vars PROVE IInv'
  OBVIOUS
<1> USE GpioAssumption DEF GpioAssumption, IInv
<1>0. ASSUME pc \notin {"idle", "delay"}
      PROVE  /\ i \in 1..Len(pgpio_cmd) /\ i \in Nat
             /\ cmd \in Commands /\ cmd.pin_num[1] \in Ports
  BY <1>0, ElementOfSeq, CommandFields DEF TypeOK, cmd
<1>1. CASE Receive
  <2> DEFINE Arrives(n, cmds) ==
               /\ pgpio_cmd' = cmds
               /\ answer' = [m \in 1..Cardinality({l \in 1..n : cmds[l].pin_dir = "in"}) |-> 0]
               /\ Goto(cmds, "out", 0)
  <2>0. PICK n \in 0..MaxSet : \E cmds \in [1..n -> Commands] : Arrives(n, cmds)
    BY <1>1 DEF Receive
  <2>1. PICK cmds \in [1..n -> Commands] : Arrives(n, cmds)
    BY <2>0
  <2>2. cmds \in Seq(Commands) /\ Len(cmds) = n
    BY SeqDef
  <2>3. Cardinality({l \in 1..n : cmds[l].pin_dir = "in"}) \in Nat
    <3>1. IsFiniteSet(1..n)
      BY FS_Interval
    <3>2. {l \in 1..n : cmds[l].pin_dir = "in"} \in SUBSET (1..n)
      OBVIOUS
    <3> QED
      BY <3>1, <3>2, FS_Subset, FS_CardinalityType, Zenon
  <2>4. answer' \in Seq(Levels)
    BY <2>1, <2>3, SeqDef DEF Levels
  <2>5. /\ i' \in 0..Len(cmds)
        /\ pc' \in {"idle", "out_dir", "delay", "in_dir"}
        /\ pc' \notin {"idle", "delay"} => i' > 0
        /\ pc' = "out_dir" => cmds[i'].pin_dir = "out"
        /\ pc' = "in_dir" => cmds[i'].pin_dir = "in"
    BY <2>1, <2>2, GotoKeeps
  <2> QED
    BY <1>1, <2>1, <2>2, <2>4, <2>5 DEF Receive, chipVars, TypeOK, LoopOK, cmd
<1>2. CASE SetDir
  <2>0. cmd \in Commands /\ cmd.pin_num[1] \in Ports
    BY <1>2, <1>0 DEF SetDir
  <2> DEFINE port == cmd.pin_num[1]
             bit  == {cmd.pin_num[2]} \cap Byte
             new(r) == IF cmd.pin_dir = "in" THEN r[1] \cup bit ELSE r[1] \ bit
  <2>1. PICK r \in read_reg({config[port]}) : \E w \in write_reg(config[port], new(r)) :
               /\ config' = [config EXCEPT ![port] = w[1]]
               /\ Errors(r[2] + w[2])
    BY <1>2 DEF SetDir
  <2>2. PICK w \in write_reg(config[port], new(r)) :
               /\ config' = [config EXCEPT ![port] = w[1]]
               /\ Errors(r[2] + w[2])
    BY <2>1
  <2>3. r[1] \subseteq Byte /\ r[2] \in {0, 1} /\ w[1] \in {config[port], new(r)} /\ w[2] \in {0, 1}
    BY <2>0, <2>1, <2>2, Registers DEF TypeOK
  <2>4. config' \in [Ports -> SUBSET Byte]
    BY <2>0, <2>2, <2>3 DEF TypeOK
  <2>5. errors' \in 0..MaxErrors
    BY <2>2, <2>3, ErrorsKeep
  <2> QED
    BY <1>2, <2>4, <2>5 DEF SetDir, TypeOK, LoopOK, cmd
<1>3. CASE SetVal
  <2>0. cmd \in Commands /\ cmd.pin_num[1] \in Ports /\ i \in Nat
    BY <1>3, <1>0 DEF SetVal
  <2> DEFINE port == cmd.pin_num[1]
             bit  == {cmd.pin_num[2]} \cap Byte
             new(r) == IF cmd.pin_level = 1 THEN PortVal(cmd.pin_num, r[1]) \cup bit
                       ELSE PortVal(cmd.pin_num, r[1]) \ bit
  <2>1. PICK r \in read_reg(Inputs(port)) : \E w \in write_reg(out[port], new(r)) :
               /\ out' = [out EXCEPT ![port] = w[1]]
               /\ Errors(r[2] + w[2])
    BY <1>3 DEF SetVal
  <2>2. PICK w \in write_reg(out[port], new(r)) :
               /\ out' = [out EXCEPT ![port] = w[1]]
               /\ Errors(r[2] + w[2])
    BY <2>1
  <2>3. r[2] \in {0, 1} /\ w[1] \in {out[port], new(r)} /\ w[2] \in {0, 1}
    BY <2>1, <2>2, Registers
  <2>4. new(r) \subseteq Byte
    BY DEF PortVal, Byte
  <2>5. out' \in [Ports -> SUBSET Byte]
    BY <2>0, <2>2, <2>3, <2>4 DEF TypeOK
  <2>6. errors' \in 0..MaxErrors
    BY <2>2, <2>3, ErrorsKeep
  <2>7. Goto(pgpio_cmd, "out", i) /\ pgpio_cmd' = pgpio_cmd
    BY <1>3 DEF SetVal
  <2> QED
    BY <1>3, <2>0, <2>5, <2>6, <2>7, GotoKeeps DEF SetVal, TypeOK, LoopOK, cmd
<1>4. CASE Delay
  <2>1. Goto(pgpio_cmd, "in", 0) /\ pgpio_cmd' = pgpio_cmd
    BY <1>4 DEF Delay
  <2> QED
    BY <1>4, <2>1, GotoKeeps DEF Delay, TypeOK, LoopOK, cmd, chipVars
<1>5. CASE GetVal
  <2>0. i \in Nat
    BY <1>5, <1>0 DEF GetVal
  <2>1. PICK r \in read_reg(Inputs(cmd.pin_num[1])) :
          /\ answer' = [answer EXCEPT ![Place(i)] =
                          IF PortVal(cmd.pin_num, r[1]) = {0} THEN 1 ELSE 0]
          /\ Errors(r[2])
    BY <1>5 DEF GetVal
  <2>2. answer' \in Seq(Levels)
    <3>1. PICK n \in Nat : answer \in [1..n -> Levels]
      BY SeqDef DEF TypeOK
    <3>2. answer' \in [1..n -> Levels]
      BY <2>1, <3>1 DEF Levels
    <3> QED
      BY <3>2, SeqDef
  <2>3. errors' \in 0..MaxErrors
    BY <2>1, Registers, ErrorsKeep
  <2>4. Goto(pgpio_cmd, "in", i) /\ pgpio_cmd' = pgpio_cmd
    BY <1>5 DEF GetVal
  <2> QED
    BY <1>5, <2>0, <2>2, <2>3, <2>4, GotoKeeps DEF GetVal, TypeOK, LoopOK, cmd, chipVars
<1>6. CASE UNCHANGED vars
  BY <1>6 DEF vars, fwVars, chipVars, TypeOK, LoopOK, cmd
<1> QED
  BY <1>1, <1>2, <1>3, <1>4, <1>5, <1>6 DEF Next

\* The variables keep their types for any ports, wiring and bounds.
THEOREM TypeCorrect == Spec => []TypeOK
<1>1. IInv => TypeOK
  BY DEF IInv
<1> QED
  BY InitHolds, StepKeeps, <1>1, PTL DEF Spec

\* A step that turns a pin into an output is set_port_dir for an output
\* command of that pin: the byte read is the register's or all ones, so what
\* is written back has every other input still in it.
LEMMA OnlyCommanded ==
    ASSUME IInv, [Next]_vars, NEW p \in Ports, NEW b \in Byte,
           b \in config[p], b \notin config'[p]
    PROVE  pc = "out_dir" /\ cmd.pin_num = <<p, b>>
<1>1. SetDir
  BY DEF Next, Receive, SetVal, Delay, GetVal, chipVars, vars
<1>2. cmd \in Commands /\ cmd.pin_num[1] \in Ports
  BY <1>1, ElementOfSeq, CommandFields DEF IInv, TypeOK, cmd, SetDir
<1> DEFINE port == cmd.pin_num[1]
           bit  == {cmd.pin_num[2]} \cap Byte
           new(r) == IF cmd.pin_dir = "in" THEN r[1] \cup bit ELSE r[1] \ bit
<1>3. PICK r \in read_reg({config[port]}) : \E w \in write_reg(config[port], new(r)) :
             config' = [config EXCEPT ![port] = w[1]]
  BY <1>1 DEF SetDir
<1>4. PICK w \in write_reg(config[port], new(r)) : config' = [config EXCEPT ![port] = w[1]]
  BY <1>3
<1>5. config \in [Ports -> SUBSET Byte]
  BY DEF IInv, TypeOK
<1>6. p = port /\ b \notin w[1]
  BY <1>2, <1>4, <1>5
<1>7. w[1] = new(r) /\ config[port] \subseteq r[1]
  BY <1>2, <1>3, <1>4, <1>5, <1>6, Registers
<1>8. cmd.pin_dir # "in" /\ b = cmd.pin_num[2]
  BY <1>6, <1>7
<1>9. pc = "out_dir"
  BY <1>1, <1>8 DEF SetDir, IInv, LoopOK
<1> QED
  BY <1>2, <1>6, <1>8, <1>9, CommandFields

\* For any ports, wiring, batches and lost bytes, a pin starts driving its
\* wire only on a command for that very pin.
THEOREM OnlyCommandedPinsDrive == Spec => OnlyCommandedOutputs
<1>1. IInv /\ [Next]_vars =>
        [\A p \in Ports, b \in Byte :
           b \in config[p] /\ b \notin config'[p] =>
             pc = "out_dir" /\ cmd.pin_num = <<p, b>>]_vars
  BY OnlyCommanded
<1> QED
  BY InitHolds, StepKeeps, <1>1, PTL DEF Spec, OnlyCommandedOutputs

-----------------------------------------------------------------------------
(* Directions                                                              *)

\* The output, and the input commands whose direction has been set.
OutDone(n) ==
    \/ pc \in {"delay", "in_dir", "in_val", "idle"}
    \/ pc = "out_dir" /\ n < i
    \/ pc = "out_val" /\ n <= i
InDone(n) ==
    \/ pc = "idle"
    \/ pc = "in_dir" /\ n < i
    \/ pc = "in_val" /\ n <= i

\* While no byte is lost, every pin has the direction of the last command for
\* it that has been performed, or the one it had when the batch came.
DirInv ==
    ~lost =>
      \A p \in Ports, b \in Byte :
        b \in config[p] <=>
          \/ \E n \in For(<<p, b>>, "in") : InDone(n)
          \/ b \in before[p] /\ \A n \in For(<<p, b>>, "out") : ~OutDone(n)

\* Goto leaves no command of its direction behind, and none is done too early.
LEMMA GotoOrder ==
    ASSUME NEW cmds \in Seq(Commands), NEW dir \in {"in", "out"},
           NEW n \in Nat, Goto(cmds, dir, n)
    PROVE  LET loop == IF dir = "out" THEN "out_dir" ELSE "in_dir"
           IN  /\ pc' \in {loop, IF dir = "out" THEN "delay" ELSE "idle"}
               /\ \A m \in 1..Len(cmds) :
                    cmds[m].pin_dir = dir => (m <= n <=> pc' # loop \/ m < i')
<1> DEFINE rest == {m \in n + 1..Len(cmds) : cmds[m].pin_dir = dir}
<1>0. Len(cmds) \in Nat
  BY LenProperties
<1>1. ASSUME NEW m \in rest, \A l \in rest : m <= l, i' = m,
             pc' = IF dir = "out" THEN "out_dir" ELSE "in_dir"
      PROVE  \A l \in 1..Len(cmds) : cmds[l].pin_dir = dir => (l <= n <=> l < i')
  <2> SUFFICES ASSUME NEW l \in 1..Len(cmds), cmds[l].pin_dir = dir PROVE l <= n <=> l < m
    BY <1>1
  <2>1. m \in n + 1..Len(cmds) /\ l \in Nat
    OBVIOUS
  <2>2. l > n => l \in rest
    BY <1>0, <2>1
  <2> QED BY <1>0, <1>1, <2>1, <2>2
<1>2. ASSUME rest = {} PROVE \A l \in 1..Len(cmds) : cmds[l].pin_dir = dir => l <= n
  BY <1>0, <1>2
<1> QED
  BY <1>1, <1>2 DEF Goto

\* A step of a loop that sets no direction and goes on to the next command.
LEMMA DirGoesOn ==
    ASSUME IInv, DirInv, NEW dir \in {"in", "out"}, NEW n \in Nat,
           Goto(pgpio_cmd, dir, n),
           UNCHANGED <<pgpio_cmd, config, before>>, lost' \/ ~lost,
           dir = "out" => pc = "out_val" /\ n = i,
           dir = "in" => (pc = "in_val" /\ n = i) \/ (pc = "delay" /\ n = 0)
    PROVE  DirInv'
<1>1. /\ pc' \in {IF dir = "out" THEN "out_dir" ELSE "in_dir", IF dir = "out" THEN "delay" ELSE "idle"}
      /\ \A m \in 1..Len(pgpio_cmd) :
           pgpio_cmd[m].pin_dir = dir =>
             (m <= n <=> pc' # (IF dir = "out" THEN "out_dir" ELSE "in_dir") \/ m < i')
  BY GotoOrder DEF IInv, TypeOK
<1>2. \A pin, d : For(pin, d)' = For(pin, d) /\ For(pin, d) \subseteq 1..Len(pgpio_cmd)
  BY DEF For
<1>3. \A pin : \A m \in For(pin, "in") : InDone(m)' <=> InDone(m)
  <2> SUFFICES ASSUME NEW pin, NEW m \in For(pin, "in") PROVE InDone(m)' <=> InDone(m)
    OBVIOUS
  <2>1. m \in 1..Len(pgpio_cmd) /\ pgpio_cmd[m].pin_dir = "in" /\ m \in Nat /\ m > 0
    BY DEF For
  <2> QED BY <1>1, <2>1 DEF InDone
<1>4. \A pin : \A m \in For(pin, "out") : OutDone(m)' <=> OutDone(m)
  <2> SUFFICES ASSUME NEW pin, NEW m \in For(pin, "out") PROVE OutDone(m)' <=> OutDone(m)
    OBVIOUS
  <2>1. m \in 1..Len(pgpio_cmd) /\ pgpio_cmd[m].pin_dir = "out" /\ m \in Nat
    BY DEF For
  <2> QED BY <1>1, <2>1 DEF OutDone
<1> QED
  BY <1>2, <1>3, <1>4 DEF DirInv

\* Every step keeps it.
LEMMA DirStep ==
    ASSUME IInv, DirInv, [Next]_vars
    PROVE  DirInv'
<1>0. i \in Nat /\ Len(pgpio_cmd) \in Nat /\ config \in [Ports -> SUBSET Byte]
  BY LenProperties DEF IInv, TypeOK
<1>1. CASE Receive
  <2>0. PICK n \in 0..MaxSet : \E cmds \in [1..n -> Commands] :
               pgpio_cmd' = cmds /\ Goto(cmds, "out", 0)
    BY <1>1 DEF Receive
  <2>1. PICK cmds \in [1..n -> Commands] : pgpio_cmd' = cmds /\ Goto(cmds, "out", 0)
    BY <2>0
  <2>2. cmds \in Seq(Commands)
    BY SeqDef
  <2>3. /\ pc' \in {"out_dir", "delay"}
        /\ \A m \in 1..Len(cmds) :
             cmds[m].pin_dir = "out" => (m <= 0 <=> pc' # "out_dir" \/ m < i')
    BY <2>1, <2>2, GotoOrder
  <2>4. \A pin : \A m \in For(pin, "out")' : ~OutDone(m)'
    <3> SUFFICES ASSUME NEW m \in 1..Len(cmds), cmds[m].pin_dir = "out" PROVE ~OutDone(m)'
      BY <2>1 DEF For
    <3>1. ~(m <= 0)
      OBVIOUS
    <3>2. pc' = "out_dir" /\ ~(m < i')
      BY <2>3, <3>1
    <3> QED BY <3>2 DEF OutDone
  <2>5. \A m : ~InDone(m)'
    BY <2>3 DEF InDone
  <2>6. config' = config /\ before' = config
    BY <1>1 DEF Receive, chipVars
  <2> QED BY <2>4, <2>5, <2>6 DEF DirInv
<1>2. CASE SetDir
  <2> SUFFICES ASSUME ~lost', NEW p \in Ports, NEW b \in Byte
               PROVE  b \in config'[p] <=>
                        \/ \E n \in For(<<p, b>>, "in")' : InDone(n)'
                        \/ b \in before'[p] /\ \A n \in For(<<p, b>>, "out")' : ~OutDone(n)'
    BY DEF DirInv
  <2>1. cmd \in Commands /\ cmd.pin_num[1] \in Ports /\ i \in 1..Len(pgpio_cmd)
    BY <1>2, ElementOfSeq, CommandFields DEF IInv, TypeOK, cmd, SetDir
  <2> DEFINE port == cmd.pin_num[1]
             bit  == {cmd.pin_num[2]} \cap Byte
             new(r) == IF cmd.pin_dir = "in" THEN r[1] \cup bit ELSE r[1] \ bit
  <2>2. PICK r \in read_reg({config[port]}) : \E w \in write_reg(config[port], new(r)) :
               config' = [config EXCEPT ![port] = w[1]] /\ Errors(r[2] + w[2])
    BY <1>2 DEF SetDir
  <2>3. PICK w \in write_reg(config[port], new(r)) :
               config' = [config EXCEPT ![port] = w[1]] /\ Errors(r[2] + w[2])
    BY <2>2
  <2>4. ~lost /\ r[2] = 0 /\ w[2] = 0
    <3>1. r[2] \in {0, 1} /\ w[2] \in {0, 1}
      BY Registers
    <3>2. lost' = (lost \/ r[2] + w[2] > 0)
      BY <2>3 DEF Errors
    <3>3. ~lost /\ ~(r[2] + w[2] > 0)
      BY <3>2, Zenon
    <3> QED BY <3>1, <3>3
  <2>5. r[1] = config[port] /\ w[1] = new(r)
    BY <2>4 DEF read_reg, write_reg
  <2>6. config' = [config EXCEPT ![port] = IF cmd.pin_dir = "in" THEN config[port] \cup bit
                                           ELSE config[port] \ bit]
    BY <2>3, <2>5
  <2>7. b \in config'[p] <=> IF cmd.pin_num = <<p, b>> THEN cmd.pin_dir = "in" ELSE b \in config[p]
    <3>1. cmd.pin_num = <<cmd.pin_num[1], cmd.pin_num[2]>>
      BY <2>1, CommandFields
    <3> QED BY <1>0, <2>1, <2>6, <3>1
  <2>8. /\ UNCHANGED <<pgpio_cmd, i, before>>
        /\ \/ pc = "out_dir" /\ pc' = "out_val" /\ cmd.pin_dir = "out"
           \/ pc = "in_dir" /\ pc' = "in_val" /\ cmd.pin_dir = "in"
    BY <1>2 DEF SetDir, IInv, LoopOK
  <2>9. \A d : For(<<p, b>>, d)' = For(<<p, b>>, d)
    BY <2>8 DEF For
  <2>10. \A d : i \in For(<<p, b>>, d) <=> cmd.pin_num = <<p, b>> /\ cmd.pin_dir = d
    BY <2>1 DEF For, cmd
  <2>11. \A d : \A n \in For(<<p, b>>, d) : n \in Nat
    BY DEF For
  <2>12. b \in config[p] <=> \/ \E n \in For(<<p, b>>, "in") : InDone(n)
                             \/ b \in before[p] /\ \A n \in For(<<p, b>>, "out") : ~OutDone(n)
    BY <2>4 DEF DirInv
  <2>13. CASE pc = "out_dir"
    <3>1. /\ pc' = "out_val" /\ cmd.pin_dir = "out"
          /\ \A n : ~InDone(n) /\ ~InDone(n)'
          /\ \A n \in Nat : OutDone(n)' <=> OutDone(n) \/ n = i
      BY <1>0, <2>8, <2>13 DEF InDone, OutDone
    <3> QED BY <2>7, <2>8, <2>9, <2>10, <2>11, <2>12, <3>1
  <2>14. CASE pc = "in_dir"
    <3>1. /\ pc' = "in_val" /\ cmd.pin_dir = "in"
          /\ \A n : OutDone(n) /\ OutDone(n)'
          /\ \A n \in Nat : InDone(n)' <=> InDone(n) \/ n = i
      BY <1>0, <2>8, <2>14 DEF InDone, OutDone
    <3> QED BY <2>7, <2>8, <2>9, <2>10, <2>11, <2>12, <3>1
  <2> QED BY <2>8, <2>13, <2>14
<1>3. CASE SetVal
  <2>1. Goto(pgpio_cmd, "out", i) /\ UNCHANGED <<pgpio_cmd, config, before>> /\ pc = "out_val"
        /\ (lost' \/ ~lost)
    BY <1>3 DEF SetVal, Errors
  <2> QED BY <1>0, <2>1, DirGoesOn
<1>4. CASE Delay
  <2>1. Goto(pgpio_cmd, "in", 0) /\ UNCHANGED <<pgpio_cmd, config, before, lost>> /\ pc = "delay"
    BY <1>4 DEF Delay, chipVars, history
  <2> QED BY <2>1, DirGoesOn
<1>5. CASE GetVal
  <2>1. Goto(pgpio_cmd, "in", i) /\ UNCHANGED <<pgpio_cmd, config, before>> /\ pc = "in_val"
        /\ (lost' \/ ~lost)
    BY <1>5 DEF GetVal, Errors, chipVars
  <2> QED BY <1>0, <2>1, DirGoesOn
<1>6. CASE UNCHANGED vars
  <2>1. UNCHANGED <<pgpio_cmd, i, pc, config, before, lost>>
    BY <1>6 DEF vars, fwVars, chipVars, history
  <2>2. \A pin, d : For(pin, d)' = For(pin, d)
    BY <2>1 DEF For
  <2>3. \A n : (InDone(n)' <=> InDone(n)) /\ (OutDone(n)' <=> OutDone(n))
    BY <2>1 DEF InDone, OutDone
  <2> QED BY <2>1, <2>2, <2>3 DEF DirInv
<1> QED
  BY <1>1, <1>2, <1>3, <1>4, <1>5, <1>6 DEF Next

\* For any ports, wiring and batches: when no byte was lost, a batch leaves
\* every pin in the direction its commands ask, inputs before outputs.
THEOREM DirectionsAsAsked == Spec => []DirectionsSet
<1>1. Init => DirInv
  BY DEF Init, DirInv, For
<1>2. IInv /\ DirInv /\ [Next]_vars => DirInv'
  BY DirStep
<1>3. DirInv => DirectionsSet
  <2> SUFFICES ASSUME DirInv, pc = "idle", ~lost, NEW p \in Ports, NEW b \in Byte
               PROVE  LET pin == <<p, b>>
                      IN  IF For(pin, "in") # {} THEN b \in config[p]
                          ELSE IF For(pin, "out") # {} THEN b \notin config[p]
                          ELSE b \in config[p] <=> b \in before[p]
    BY DEF DirectionsSet
  <2>1. \A n : InDone(n) /\ OutDone(n)
    BY DEF InDone, OutDone
  <2> QED BY <2>1 DEF DirInv
<1> QED
  BY InitHolds, StepKeeps, <1>1, <1>2, <1>3, PTL DEF Spec

-----------------------------------------------------------------------------
(* Answers                                                                 *)

\* The input commands up to n.
InsTo(n) == {m \in 1..n : pgpio_cmd[m].pin_dir = "in"}

\* The outputs whose level has been set, and the inputs that were sampled.
ValDone(n) ==
    \/ pc \in {"delay", "in_dir", "in_val", "idle"}
    \/ pc \in {"out_dir", "out_val"} /\ n < i
Sampled(n) == pc = "idle" \/ (pc \in {"in_dir", "in_val"} /\ n < i)

\* Input n is wired to q, the last output of port p, whose command is l.
Sees(n, p, l) ==
    LET c == pgpio_cmd[n]
        q == pgpio_cmd[l].pin_num
    IN  /\ c.pin_dir = "in" /\ c.pin_num[2] \in Byte /\ q[2] \in Byte
        /\ Wire[c.pin_num] = {q}
        /\ For(q, "in") = {}

\* While no byte is lost, the last output of a port has its level once it is
\* set, and an input sampled that sees it is answered with it.
SeesInv ==
    /\ answer \in [1..Cardinality(InsTo(Len(pgpio_cmd))) -> Levels]
    /\ ~lost =>
         \A p \in Ports : \A l \in LastOutput(p) :
           /\ pgpio_cmd[l].pin_num[2] \in Byte /\ ValDone(l) =>
                (pgpio_cmd[l].pin_num[2] \in out[p] <=> pgpio_cmd[l].pin_level = 1)
           /\ \A n \in 1..Len(pgpio_cmd) : Sees(n, p, l) /\ Sampled(n) =>
                answer[Place(n)] = pgpio_cmd[l].pin_level

\* Input commands have places of their own in the response.
LEMMA Places ==
    ASSUME NEW n \in 1..Len(pgpio_cmd), pgpio_cmd[n].pin_dir = "in", Len(pgpio_cmd) \in Nat
    PROVE  /\ Place(n) \in 1..Cardinality(InsTo(Len(pgpio_cmd)))
           /\ \A m \in 1..Len(pgpio_cmd) :
                pgpio_cmd[m].pin_dir = "in" /\ m # n => Place(m) # Place(n)
<1>1. \A m \in Nat : IsFiniteSet(InsTo(m)) /\ Cardinality(InsTo(m)) \in Nat
  <2> SUFFICES ASSUME NEW m \in Nat PROVE IsFiniteSet(InsTo(m)) /\ Cardinality(InsTo(m)) \in Nat
    OBVIOUS
  <2>0. 1 \in Int /\ m \in Int
    OBVIOUS
  <2>1. IsFiniteSet(1..m)
    BY <2>0, FS_Interval, Zenon
  <2>2. InsTo(m) \in SUBSET (1..m)
    BY DEF InsTo
  <2> QED BY <2>1, <2>2, FS_Subset, FS_CardinalityType, Zenon
<1>2. \A m \in Nat : Place(m) = Cardinality(InsTo(m))
  BY DEF Place, InsTo
<1>3. ASSUME NEW x \in 1..Len(pgpio_cmd), NEW y \in 1..Len(pgpio_cmd), x < y,
             pgpio_cmd[y].pin_dir = "in"
      PROVE  Place(x) # Place(y)
  <2>1. x \in Nat /\ y \in Nat
    OBVIOUS
  <2>2. InsTo(x) \in SUBSET InsTo(y)
    BY <1>3, <2>1 DEF InsTo
  <2>3. y \in InsTo(y) /\ y \notin InsTo(x)
    BY <1>3, <2>1 DEF InsTo
  <2>4. Cardinality(InsTo(x)) # Cardinality(InsTo(y))
    BY <1>1, <2>1, <2>2, <2>3, FS_Subset
  <2> QED BY <1>2, <2>1, <2>4
<1>4. Place(n) \in 1..Cardinality(InsTo(Len(pgpio_cmd)))
  <2>1. n \in Nat /\ Len(pgpio_cmd) \in Nat
    OBVIOUS
  <2>2. InsTo(n) \in SUBSET InsTo(Len(pgpio_cmd)) /\ n \in InsTo(n)
    BY DEF InsTo
  <2>3. Cardinality(InsTo(n)) <= Cardinality(InsTo(Len(pgpio_cmd)))
    BY <1>1, <2>1, <2>2, FS_Subset
  <2>4. Cardinality(InsTo(n)) # 0
    BY <1>1, <2>1, <2>2, FS_EmptySet
  <2> QED BY <1>1, <1>2, <2>1, <2>3, <2>4
<1>5. \A m \in 1..Len(pgpio_cmd) : m # n => m < n \/ n < m
  OBVIOUS
<1> QED BY <1>3, <1>4, <1>5

\* A step that leaves batch, outputs and answers alone.
LEMMA SeesKept ==
    ASSUME SeesInv, UNCHANGED <<pgpio_cmd, answer, out>>, lost' \/ ~lost,
           \A n \in 1..Len(pgpio_cmd) :
             /\ pgpio_cmd[n].pin_dir = "out" => (ValDone(n)' => ValDone(n))
             /\ pgpio_cmd[n].pin_dir = "in" => (Sampled(n)' => Sampled(n))
    PROVE  SeesInv'
<1>1. /\ InsTo(Len(pgpio_cmd))' = InsTo(Len(pgpio_cmd))
      /\ \A n : Place(n)' = Place(n)
      /\ \A p : LastOutput(p)' = LastOutput(p)
      /\ \A n, p, l : Sees(n, p, l)' = Sees(n, p, l)
  BY DEF InsTo, Place, LastOutput, Sees, For
<1>2. answer' \in [1..Cardinality(InsTo(Len(pgpio_cmd)))' -> Levels]
  BY <1>1 DEF SeesInv
<1> SUFFICES ASSUME ~lost', NEW p \in Ports, NEW l \in LastOutput(p)
             PROVE  /\ pgpio_cmd[l].pin_num[2] \in Byte /\ ValDone(l)' =>
                         (pgpio_cmd[l].pin_num[2] \in out[p] <=> pgpio_cmd[l].pin_level = 1)
                    /\ \A n \in 1..Len(pgpio_cmd) : Sees(n, p, l) /\ Sampled(n)' =>
                         answer[Place(n)] = pgpio_cmd[l].pin_level
  BY <1>1, <1>2 DEF SeesInv
<1>3. l \in 1..Len(pgpio_cmd) /\ pgpio_cmd[l].pin_dir = "out"
  BY DEF LastOutput
<1>4. \A n : Sees(n, p, l) => pgpio_cmd[n].pin_dir = "in"
  BY DEF Sees
<1>5. ~lost
  BY Zenon
<1> QED BY <1>3, <1>4, <1>5 DEF SeesInv

\* A batch arrives: nothing of it is done.
LEMMA SeesReceive == IInv /\ SeesInv /\ Receive => SeesInv'
<1> SUFFICES ASSUME IInv, SeesInv, Receive PROVE SeesInv'
  OBVIOUS
<1>1. PICK n \in 0..MaxSet : \E cmds \in [1..n -> Commands] :
             /\ pgpio_cmd' = cmds
             /\ answer' = [m \in 1..Cardinality({l \in 1..n : cmds[l].pin_dir = "in"}) |-> 0]
             /\ Goto(cmds, "out", 0)
  BY DEF Receive
<1>2. PICK cmds \in [1..n -> Commands] :
             /\ pgpio_cmd' = cmds
             /\ answer' = [m \in 1..Cardinality({l \in 1..n : cmds[l].pin_dir = "in"}) |-> 0]
             /\ Goto(cmds, "out", 0)
  BY <1>1
<1>3. cmds \in Seq(Commands) /\ Len(cmds) = n
  BY SeqDef, GpioAssumption
<1>4. /\ pc' \in {"out_dir", "delay"}
      /\ \A m \in 1..Len(cmds) :
           cmds[m].pin_dir = "out" => (m <= 0 <=> pc' # "out_dir" \/ m < i')
  BY <1>2, <1>3, GotoOrder
<1>5. answer' \in [1..Cardinality(InsTo(Len(pgpio_cmd)))' -> Levels]
  BY <1>2, <1>3 DEF InsTo, Levels
<1>6. \A m : ~Sampled(m)'
  BY <1>4 DEF Sampled
<1>7. \A p : \A l \in LastOutput(p)' : ~ValDone(l)'
  <2> SUFFICES ASSUME NEW l \in 1..Len(cmds), cmds[l].pin_dir = "out" PROVE ~ValDone(l)'
    BY <1>2 DEF LastOutput
  <2>1. ~(l <= 0)
    OBVIOUS
  <2>2. pc' = "out_dir" /\ ~(l < i')
    BY <1>4, <2>1
  <2> QED BY <2>2 DEF ValDone
<1> QED BY <1>5, <1>6, <1>7 DEF SeesInv

\* set_port_val: the bit of the output is its level, and no output that is the
\* last of its port and done is written over.
LEMMA SeesSetVal == IInv /\ SeesInv /\ SetVal => SeesInv'
<1> SUFFICES ASSUME IInv, SeesInv, SetVal PROVE SeesInv'
  OBVIOUS
<1>1. /\ cmd \in Commands /\ cmd.pin_num[1] \in Ports /\ i \in 1..Len(pgpio_cmd)
      /\ Len(pgpio_cmd) \in Nat /\ cmd.pin_dir = "out" /\ pc = "out_val"
      /\ pgpio_cmd \in Seq(Commands) /\ out \in [Ports -> SUBSET Byte]
  BY ElementOfSeq, LenProperties, CommandFields DEF IInv, TypeOK, LoopOK, cmd, SetVal
<1> DEFINE port == cmd.pin_num[1]
           bit  == {cmd.pin_num[2]} \cap Byte
           new(r) == IF cmd.pin_level = 1 THEN PortVal(cmd.pin_num, r[1]) \cup bit
                     ELSE PortVal(cmd.pin_num, r[1]) \ bit
<1>2. PICK r \in read_reg(Inputs(port)) : \E w \in write_reg(out[port], new(r)) :
             out' = [out EXCEPT ![port] = w[1]] /\ Errors(r[2] + w[2])
  BY DEF SetVal
<1>3. PICK w \in write_reg(out[port], new(r)) :
             out' = [out EXCEPT ![port] = w[1]] /\ Errors(r[2] + w[2])
  BY <1>2
<1>4. /\ UNCHANGED <<pgpio_cmd, answer>>
      /\ Goto(pgpio_cmd, "out", i)
  BY DEF SetVal
<1>5. /\ pc' \in {"out_dir", "delay"}
      /\ \A m \in 1..Len(pgpio_cmd) :
           pgpio_cmd[m].pin_dir = "out" => (m <= i <=> pc' # "out_dir" \/ m < i')
  BY <1>1, <1>4, GotoOrder
<1>6. /\ InsTo(Len(pgpio_cmd))' = InsTo(Len(pgpio_cmd))
      /\ \A p : LastOutput(p)' = LastOutput(p)
      /\ \A m : ~Sampled(m)'
  BY <1>4, <1>5 DEF InsTo, LastOutput, Sampled
<1>7. answer' \in [1..Cardinality(InsTo(Len(pgpio_cmd)))' -> Levels]
  BY <1>4, <1>6 DEF SeesInv
<1> SUFFICES ASSUME ~lost', NEW p \in Ports, NEW l \in LastOutput(p),
                    pgpio_cmd[l].pin_num[2] \in Byte, ValDone(l)'
             PROVE  pgpio_cmd[l].pin_num[2] \in out'[p] <=> pgpio_cmd[l].pin_level = 1
  BY <1>4, <1>6, <1>7 DEF SeesInv
<1>8. ~lost /\ w[1] = new(r)
  <2>1. r[2] \in {0, 1} /\ w[2] \in {0, 1}
    BY Registers
  <2>2. lost' = (lost \/ r[2] + w[2] > 0)
    BY <1>3 DEF Errors
  <2>3. ~lost /\ ~(r[2] + w[2] > 0)
    BY <2>2, Zenon
  <2>4. w[2] = 0
    BY <2>1, <2>3
  <2> QED BY <2>3, <2>4 DEF write_reg
<1>9. /\ l \in 1..Len(pgpio_cmd) /\ pgpio_cmd[l].pin_dir = "out" /\ pgpio_cmd[l].pin_num[1] = p
      /\ \A m \in 1..Len(pgpio_cmd) :
           pgpio_cmd[m].pin_dir = "out" /\ pgpio_cmd[m].pin_num[1] = p => m <= l
  BY DEF LastOutput
<1>10. l <= i
  BY <1>5, <1>9 DEF ValDone
<1>11. CASE l = i
  <2>1. p = port /\ out'[p] = new(r) /\ pgpio_cmd[l] = cmd /\ bit = {cmd.pin_num[2]}
    BY <1>1, <1>3, <1>8, <1>9, <1>11 DEF cmd
  <2> QED BY <2>1
<1>12. CASE l # i
  <2>1. l < i
    BY <1>9, <1>10, <1>12, <1>1
  <2>2. port # p
    BY <1>1, <1>9, <2>1 DEF cmd
  <2>3. out'[p] = out[p]
    BY <1>1, <1>3, <2>2
  <2>4. ValDone(l)
    BY <1>1, <2>1 DEF ValDone
  <2> QED BY <1>8, <2>3, <2>4 DEF SeesInv
<1> QED BY <1>11, <1>12

\* get_port_val: an input that sees the last output of a port is answered with
\* its level, which the wire shows.
LEMMA SeesGetVal == IInv /\ DirInv /\ SeesInv /\ GetVal => SeesInv'
<1> SUFFICES ASSUME IInv, DirInv, SeesInv, GetVal PROVE SeesInv'
  OBVIOUS
<1>1. /\ cmd \in Commands /\ cmd.pin_num[1] \in Ports /\ i \in 1..Len(pgpio_cmd)
      /\ cmd.pin_num = <<cmd.pin_num[1], cmd.pin_num[2]>>
      /\ Len(pgpio_cmd) \in Nat /\ cmd.pin_dir = "in" /\ pc = "in_val"
      /\ pgpio_cmd \in Seq(Commands)
  BY ElementOfSeq, LenProperties, CommandFields DEF IInv, TypeOK, LoopOK, cmd, GetVal
<1>2. PICK r \in read_reg(Inputs(cmd.pin_num[1])) :
         /\ answer' = [answer EXCEPT ![Place(i)] = IF PortVal(cmd.pin_num, r[1]) = {0} THEN 1 ELSE 0]
         /\ Errors(r[2])
  BY DEF GetVal
<1>3. UNCHANGED <<pgpio_cmd, config, out>> /\ Goto(pgpio_cmd, "in", i)
  BY DEF GetVal, chipVars
<1>4. /\ pc' \in {"in_dir", "idle"}
      /\ \A m \in 1..Len(pgpio_cmd) :
           pgpio_cmd[m].pin_dir = "in" => (m <= i <=> pc' # "in_dir" \/ m < i')
  BY <1>1, <1>3, GotoOrder
<1>5. /\ InsTo(Len(pgpio_cmd))' = InsTo(Len(pgpio_cmd))
      /\ \A n : Place(n)' = Place(n)
      /\ \A p : LastOutput(p)' = LastOutput(p)
      /\ \A n, p, l : Sees(n, p, l)' = Sees(n, p, l)
  BY <1>3 DEF InsTo, Place, LastOutput, Sees, For
<1>6. /\ answer' \in [1..Cardinality(InsTo(Len(pgpio_cmd))) -> Levels]
      /\ answer'[Place(i)] = IF PortVal(cmd.pin_num, r[1]) = {0} THEN 1 ELSE 0
      /\ \A m \in 1..Len(pgpio_cmd) :
           pgpio_cmd[m].pin_dir = "in" /\ m # i => answer'[Place(m)] = answer[Place(m)]
  <2>1. Place(i) \in 1..Cardinality(InsTo(Len(pgpio_cmd)))
        /\ \A m \in 1..Len(pgpio_cmd) :
             pgpio_cmd[m].pin_dir = "in" /\ m # i =>
               /\ Place(m) # Place(i)
               /\ Place(m) \in 1..Cardinality(InsTo(Len(pgpio_cmd)))
    BY <1>1, Places DEF cmd
  <2>2. answer \in [1..Cardinality(InsTo(Len(pgpio_cmd))) -> Levels]
    BY DEF SeesInv
  <2> QED BY <1>2, <2>1, <2>2 DEF Levels
<1> SUFFICES ASSUME ~lost', NEW p \in Ports, NEW l \in LastOutput(p)
             PROVE  /\ pgpio_cmd[l].pin_num[2] \in Byte =>
                         (pgpio_cmd[l].pin_num[2] \in out[p] <=> pgpio_cmd[l].pin_level = 1)
                    /\ \A n \in 1..Len(pgpio_cmd) : Sees(n, p, l) /\ Sampled(n)' =>
                         answer'[Place(n)] = pgpio_cmd[l].pin_level
  BY <1>3, <1>5, <1>6 DEF SeesInv
<1>7. ~lost /\ r[1] \in Inputs(cmd.pin_num[1])
  <2>1. r[2] \in {0, 1}
    BY Registers
  <2>2. lost' = (lost \/ r[2] > 0)
    BY <1>2 DEF Errors
  <2>3. ~lost /\ ~(r[2] > 0)
    BY <2>2, Zenon
  <2>4. r[2] = 0
    BY <2>1, <2>3
  <2> QED BY <2>3, <2>4 DEF read_reg
<1>8. pgpio_cmd[l].pin_num[2] \in Byte =>
        (pgpio_cmd[l].pin_num[2] \in out[p] <=> pgpio_cmd[l].pin_level = 1)
  BY <1>1, <1>7 DEF SeesInv, ValDone
<1>9. ASSUME NEW n \in 1..Len(pgpio_cmd), Sees(n, p, l), Sampled(n)'
      PROVE  answer'[Place(n)] = pgpio_cmd[l].pin_level
  <2>1. pgpio_cmd[n].pin_dir = "in" /\ n <= i
    BY <1>4, <1>9 DEF Sees, Sampled
  <2>2. CASE n # i
    <3>1. Sampled(n)
      BY <1>1, <2>1, <2>2 DEF Sampled
    <3> QED BY <1>6, <1>7, <1>9, <2>1, <2>2, <3>1 DEF SeesInv
  <2>3. CASE n = i
    <3> DEFINE q == pgpio_cmd[l].pin_num
               b == cmd.pin_num[2]
    <3>1. b \in Byte /\ q[2] \in Byte /\ Wire[cmd.pin_num] = {q} /\ For(q, "in") = {}
      BY <1>9, <2>3 DEF Sees, cmd
    <3>2. /\ l \in 1..Len(pgpio_cmd) /\ pgpio_cmd[l].pin_dir = "out" /\ q[1] = p
          /\ pgpio_cmd[l] \in Commands
      BY <1>1, ElementOfSeq DEF LastOutput
    <3>3. q = <<p, q[2]>> /\ pgpio_cmd[l].pin_level \in Levels
      BY <3>2, CommandFields
    <3>4. ~IsOutput(cmd.pin_num)
      <4>1. i \in For(<<cmd.pin_num[1], b>>, "in") /\ InDone(i)
        BY <1>1 DEF For, InDone, cmd
      <4>2. b \in config[cmd.pin_num[1]]
        BY <1>1, <1>7, <3>1, <4>1 DEF DirInv
      <4> QED BY <4>2 DEF IsOutput
    <3>5. IsOutput(q)
      <4>1. l \in For(<<p, q[2]>>, "out") /\ OutDone(l) /\ For(<<p, q[2]>>, "in") = {}
        BY <1>1, <3>1, <3>2, <3>3 DEF For, OutDone
      <4>2. q[2] \notin config[p]
        BY <1>7, <3>1, <4>1 DEF DirInv
      <4> QED BY <3>1, <3>2, <4>2 DEF IsOutput
    <3>6. Shown(cmd.pin_num) = {IF q[2] \in out[q[1]] THEN 1 ELSE 0}
      <4>1. {x \in Wire[cmd.pin_num] : IsOutput(x)} = {q}
        BY <3>1, <3>5
      <4> QED BY <3>4, <4>1 DEF Shown
    <3>7. (IF b \in r[1] THEN 1 ELSE 0) \in Shown(cmd.pin_num)
      BY <1>1, <1>7, <3>1 DEF Inputs
    <3>8. b \in r[1] <=> pgpio_cmd[l].pin_level = 1
      BY <1>8, <3>1, <3>2, <3>6, <3>7
    <3>9. PortVal(cmd.pin_num, r[1]) = {0} <=> b \in r[1]
      BY DEF PortVal
    <3> QED BY <1>6, <2>3, <3>3, <3>8, <3>9 DEF Levels
  <2> QED BY <2>2, <2>3
<1> QED BY <1>8, <1>9

\* Every step keeps it.
LEMMA SeesStep ==
    ASSUME IInv, DirInv, SeesInv, [Next]_vars
    PROVE  SeesInv'
<1>1. CASE SetDir
  <2>1. /\ UNCHANGED <<pgpio_cmd, answer, out, i>> /\ (lost' \/ ~lost)
        /\ \/ pc = "out_dir" /\ pc' = "out_val"
           \/ pc = "in_dir" /\ pc' = "in_val"
    BY <1>1 DEF SetDir, Errors
  <2>2. \A n : (ValDone(n)' => ValDone(n)) /\ (Sampled(n)' => Sampled(n))
    BY <2>1 DEF ValDone, Sampled
  <2> QED BY <2>1, <2>2, SeesKept
<1>2. CASE Delay
  <2>1. /\ Goto(pgpio_cmd, "in", 0) /\ UNCHANGED <<pgpio_cmd, answer, out, lost>> /\ pc = "delay"
    BY <1>2 DEF Delay, chipVars, history
  <2>2. \A m \in 1..Len(pgpio_cmd) :
          pgpio_cmd[m].pin_dir = "in" => (m <= 0 <=> pc' # "in_dir" \/ m < i')
        /\ pc' \in {"in_dir", "idle"}
    BY <2>1, GotoOrder DEF IInv, TypeOK
  <2>3. \A n : ValDone(n)
    BY <2>1 DEF ValDone
  <2>4. \A n \in 1..Len(pgpio_cmd) : pgpio_cmd[n].pin_dir = "in" => ~Sampled(n)'
    <3> SUFFICES ASSUME NEW n \in 1..Len(pgpio_cmd), pgpio_cmd[n].pin_dir = "in"
                 PROVE  ~Sampled(n)'
      OBVIOUS
    <3>1. ~(n <= 0)
      OBVIOUS
    <3> QED BY <2>2, <3>1 DEF Sampled
  <2> QED BY <2>1, <2>3, <2>4, SeesKept
<1>3. CASE UNCHANGED vars
  <2>1. UNCHANGED <<pgpio_cmd, answer, out, i, pc, lost>>
    BY <1>3 DEF vars, fwVars, chipVars, history
  <2>2. \A n : (ValDone(n)' => ValDone(n)) /\ (Sampled(n)' => Sampled(n))
    BY <2>1 DEF ValDone, Sampled
  <2> QED BY <2>1, <2>2, SeesKept
<1> QED
  BY <1>1, <1>2, <1>3, SeesReceive, SeesSetVal, SeesGetVal DEF Next

\* For any ports, wiring and batches: when no byte was lost, an input wired to
\* the last output of its port is answered with that output's level, wherever
\* the two commands stand in the batch.
THEOREM InputsAnswered == Spec => []InputsSeeOutputs
<1>1. Init => DirInv /\ SeesInv
  <2> SUFFICES ASSUME Init PROVE DirInv /\ SeesInv
    OBVIOUS
  <2>1. pgpio_cmd = <<>> /\ answer = <<>> /\ Len(pgpio_cmd) = 0
    BY DEF Init
  <2>2. InsTo(0) = {} /\ Cardinality({}) = 0
    BY FS_EmptySet DEF InsTo
  <2>3. answer \in [1..0 -> Levels]
    BY <2>1
  <2>4. \A p : LastOutput(p) = {}
    BY <2>1 DEF LastOutput
  <2>5. DirInv
    BY DEF Init, DirInv, For
  <2> QED BY <2>1, <2>2, <2>3, <2>4, <2>5 DEF SeesInv
<1>2. IInv /\ DirInv /\ SeesInv /\ [Next]_vars => (DirInv /\ SeesInv)'
  BY DirStep, SeesStep
<1>3. SeesInv => InputsSeeOutputs
  <2> SUFFICES ASSUME SeesInv, pc = "idle", ~lost, NEW n \in 1..Len(pgpio_cmd),
                      NEW p \in Ports, NEW l \in LastOutput(p), Sees(n, p, l)
               PROVE  answer[Place(n)] = pgpio_cmd[l].pin_level
    BY DEF InputsSeeOutputs, Sees, Place
  <2> QED BY DEF SeesInv, Sampled
<1> QED
  BY InitHolds, StepKeeps, <1>1, <1>2, <1>3, PTL DEF Spec
=============================================================================
