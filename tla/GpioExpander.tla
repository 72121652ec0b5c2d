--------------------------- MODULE GpioExpander ---------------------------
(***************************************************************************)
(* GPIO commands: GPIO_Parsing, GPIO_Processing and the I2C port expanders *)
(* they drive (i2c_gpio.c).                                                *)
(*                                                                         *)
(* A batch of commands makes pins of the expanders outputs or inputs.  The *)
(* outputs are set first, then the firmware waits, then it samples the     *)
(* inputs into the response, in the order of the commands.  Registers are  *)
(* changed by reading the byte, replacing a bit and writing it back.  The  *)
(* firmware does not look at acknowledgements: a byte no expander answers  *)
(* is read as 0xFF, and a write no expander takes is lost.                 *)
(*                                                                         *)
(* The expanders are outside src/: a configuration bit is set for inputs,  *)
(* the input register shows the level of every pin, and after a reset all  *)
(* pins are inputs with their output bits set.  Some pins are wired to     *)
(* others; the level of any other input is the board's choice.  Registers  *)
(* are sets of the bits that are 1.  The high nibble of a pin number picks *)
(* the expander and its port, so a port stands for both; nibbles that pick *)
(* the same port (1, 5, 9 and 13, say) are one port here.  An expander     *)
(* that does not acknowledge misses the whole of one read or write.        *)
(***************************************************************************)
EXTENDS Integers, Sequences, FiniteSets

CONSTANTS
    Ports,       \* high nibbles of the pin numbers
    Width,       \* pins of a port: 8
    MaxPin,      \* largest low nibble of a pin number: 15
    Wire,        \* the pins each pin is wired to
    MaxSet,      \* bound: commands of a batch (setnum)
    MaxBatches,  \* bound: batches
    MaxErrors    \* bound: bytes that are not acknowledged

Byte     == 0..Width - 1
Pins     == Ports \X (0..MaxPin)
Levels   == {0, 1}
Commands == [pin_num : Pins, pin_dir : {"out"}, pin_level : Levels]
            \cup [pin_num : Pins, pin_dir : {"in"}, pin_level : {0}]

ASSUME GpioAssumption ==
    /\ Width \in Nat \ {0} /\ MaxPin \in Nat
    /\ Wire \in [Pins -> SUBSET Pins]
    /\ MaxSet \in Nat /\ MaxBatches \in Nat /\ MaxErrors \in Nat

VARIABLES
    pgpio_cmd,  \* the batch
    i,          \* the command of the batch being processed
    answer,     \* the bytes of the response
    pc,         \* where GPIO_Processing is
    batches,    \* batches so far
    config,     \* the configuration register of each port: the inputs
    out,        \* the output register of each port
    errors,     \* bytes not acknowledged so far
    before,     \* history: config when the batch arrived
    lost        \* history: a byte of the batch was not acknowledged

fwVars   == <<pgpio_cmd, i, answer, pc, batches>>
chipVars == <<config, out>>
history  == <<before, lost>>
vars     == <<fwVars, chipVars, errors, history>>

Init ==
    /\ pgpio_cmd = <<>> /\ i = 0 /\ answer = <<>> /\ pc = "idle" /\ batches = 0
    /\ config = [p \in Ports |-> Byte]
    /\ out = [p \in Ports |-> Byte]
    /\ errors = 0 /\ before = config /\ lost = FALSE

-----------------------------------------------------------------------------
(* The expanders.                                                          *)

IsOutput(pin) == pin[2] \in Byte \ config[pin[1]]

\* The levels a pin can show: what it drives, or what a pin it is wired to
\* drives, or anything.
Shown(pin) ==
    LET Driven(q) == IF q[2] \in out[q[1]] THEN 1 ELSE 0
        drivers   == {q \in Wire[pin] : IsOutput(q)}
    IN  IF IsOutput(pin) THEN {Driven(pin)}
        ELSE IF drivers # {} THEN {Driven(q) : q \in drivers}
        ELSE Levels

\* Faulty variant: a byte no expander answers is taken for 0.
read_reg_Zero(values) == {<<v, 0>> : v \in values} \cup {<<{}, 1>>}

\* read_reg: the byte the expander sends, with no error, or all ones.
read_reg(values) == {<<v, 0>> : v \in values} \cup {<<Byte, 1>>}

\* write_reg: the expander takes the byte, or the register stays as it was.
write_reg(old, new) == {<<new, 0>>, <<old, 1>>}

\* The transfers of a step had these many errors.
Errors(n) ==
    /\ errors + n <= MaxErrors
    /\ errors' = errors + n
    /\ lost' = (lost \/ n > 0)

-----------------------------------------------------------------------------
cmd == pgpio_cmd[i]

\* pdata_num: the place of the answer to command n, an input.
Place(n) == Cardinality({m \in 1..n : pgpio_cmd[m].pin_dir = "in"})

\* Faulty variant: one loop, in the order of the commands.
Goto_InOrder(cmds, dir, n) ==
    IF n < Len(cmds)
      THEN i' = n + 1 /\ pc' = IF cmds[n + 1].pin_dir = "out" THEN "out_dir" ELSE "in_dir"
      ELSE i' = 0 /\ pc' = "idle"

\* Where GPIO_Processing goes after command n of a loop: to the next command
\* of this direction, or out of the loop, to the delay or the end.
Goto(cmds, dir, n) ==
    LET rest == {m \in n + 1..Len(cmds) : cmds[m].pin_dir = dir}
    IN  \/ \E m \in rest :
             /\ \A l \in rest : m <= l
             /\ i' = m
             /\ pc' = IF dir = "out" THEN "out_dir" ELSE "in_dir"
        \/ /\ rest = {}
           /\ i' = 0
           /\ pc' = IF dir = "out" THEN "delay" ELSE "idle"

\* GPIO_Parsing: a batch arrives.
Receive ==
    /\ pc = "idle" /\ batches < MaxBatches
    /\ \E n \in 0..MaxSet : \E cmds \in [1..n -> Commands] :
         /\ pgpio_cmd' = cmds
         /\ answer' = [m \in 1..Cardinality({l \in 1..n : cmds[l].pin_dir = "in"}) |-> 0]
         /\ Goto(cmds, "out", 0)
    /\ batches' = batches + 1
    /\ before' = config /\ lost' = FALSE
    /\ UNCHANGED <<chipVars, errors>>

\* Faulty variant: the other pins are configured as outputs.
SetDir_NoRead ==
    /\ pc \in {"out_dir", "in_dir"}
    /\ LET port == cmd.pin_num[1]
           bit  == {cmd.pin_num[2]} \cap Byte
       IN  config' = [config EXCEPT ![port] = IF cmd.pin_dir = "in" THEN bit ELSE {}]
    /\ pc' = IF pc = "out_dir" THEN "out_val" ELSE "in_val"
    /\ UNCHANGED <<pgpio_cmd, i, answer, batches, out, errors, history>>

\* set_port_dir: the configuration is read, the pin's bit replaced and the
\* byte written; a bit past the byte is lost.
SetDir ==
    /\ pc \in {"out_dir", "in_dir"}
    /\ LET port == cmd.pin_num[1]
           bit  == {cmd.pin_num[2]} \cap Byte
       IN  \E r \in read_reg({config[port]}) :
             LET new == IF cmd.pin_dir = "in" THEN r[1] \cup bit ELSE r[1] \ bit
             IN  \E w \in write_reg(config[port], new) :
                   /\ config' = [config EXCEPT ![port] = w[1]]
                   /\ Errors(r[2] + w[2])
    /\ pc' = IF pc = "out_dir" THEN "out_val" ELSE "in_val"
    /\ UNCHANGED <<pgpio_cmd, i, answer, batches, out, before>>

\* What get_port_val makes of the levels of a port: the pin's, as bit 0.
PortVal(pin, byte) == IF pin[2] \in byte THEN {0} ELSE {}

\* The levels a port may show, as its input register.
Inputs(port) ==
    {byte \in SUBSET Byte : \A b \in Byte : (IF b \in byte THEN 1 ELSE 0) \in Shown(<<port, b>>)}

\* Faulty variant: bits past the byte are kept.
SetVal_Wide ==
    /\ pc = "out_val"
    /\ LET port == cmd.pin_num[1]
           bit  == {cmd.pin_num[2]}
       IN  \E r \in read_reg(Inputs(port)) :
             LET val == PortVal(cmd.pin_num, r[1])
                 new == IF cmd.pin_level = 1 THEN val \cup bit ELSE val \ bit
             IN  \E w \in write_reg(out[port], new) :
                   /\ out' = [out EXCEPT ![port] = w[1]]
                   /\ Errors(r[2] + w[2])
    /\ Goto(pgpio_cmd, "out", i)
    /\ UNCHANGED <<pgpio_cmd, answer, batches, config, before>>

\* set_port_val: the byte written is what get_port_val returned, with the
\* pin's bit replaced.
SetVal ==
    /\ pc = "out_val"
    /\ LET port == cmd.pin_num[1]
           bit  == {cmd.pin_num[2]} \cap Byte
       IN  \E r \in read_reg(Inputs(port)) :
             LET val == PortVal(cmd.pin_num, r[1])
                 new == IF cmd.pin_level = 1 THEN val \cup bit ELSE val \ bit
             IN  \E w \in write_reg(out[port], new) :
                   /\ out' = [out EXCEPT ![port] = w[1]]
                   /\ Errors(r[2] + w[2])
    /\ Goto(pgpio_cmd, "out", i)
    /\ UNCHANGED <<pgpio_cmd, answer, batches, config, before>>

\* bsp_wait, with all outputs set.
Delay ==
    /\ pc = "delay"
    /\ Goto(pgpio_cmd, "in", 0)
    /\ UNCHANGED <<pgpio_cmd, answer, batches, chipVars, errors, history>>

\* get_port_val of an input, stored at the place of its command.
GetVal ==
    /\ pc = "in_val"
    /\ \E r \in read_reg(Inputs(cmd.pin_num[1])) :
         /\ answer' = [answer EXCEPT ![Place(i)] = IF PortVal(cmd.pin_num, r[1]) = {0} THEN 1 ELSE 0]
         /\ Errors(r[2])
    /\ Goto(pgpio_cmd, "in", i)
    /\ UNCHANGED <<pgpio_cmd, batches, chipVars, before>>

Next == Receive \/ SetDir \/ SetVal \/ Delay \/ GetVal

Spec == Init /\ [][Next]_vars

-----------------------------------------------------------------------------
(* Properties                                                              *)

\* Every variable has its type.
TypeOK ==
    /\ pgpio_cmd \in Seq(Commands) /\ Len(pgpio_cmd) <= MaxSet
    /\ i \in 0..Len(pgpio_cmd)
    /\ pc \in {"idle", "out_dir", "out_val", "delay", "in_dir", "in_val"}
    /\ pc \notin {"idle", "delay"} => i > 0
    /\ batches \in 0..MaxBatches
    /\ answer \in Seq(Levels)
    /\ config \in [Ports -> SUBSET Byte] /\ out \in [Ports -> SUBSET Byte]
    /\ errors \in 0..MaxErrors

\* The numbers of the commands of the batch for this pin and direction.
For(pin, dir) == {n \in 1..Len(pgpio_cmd) :
                    pgpio_cmd[n].pin_num = pin /\ pgpio_cmd[n].pin_dir = dir}

\* A pin starts driving its wire only while a command for that very pin asks
\* for an output, whichever bytes of the read and the write are lost.
OnlyCommandedOutputs ==
    [][\A p \in Ports, b \in Byte :
         b \in config[p] /\ b \notin config'[p] =>
           pc = "out_dir" /\ cmd.pin_num = <<p, b>>]_vars

\* When no byte was lost, a batch leaves every pin as its commands ask,
\* inputs before outputs, and the pins it does not name as they were.
DirectionsSet ==
    pc = "idle" /\ ~lost =>
      \A p \in Ports, b \in Byte :
        LET pin == <<p, b>>
        IN  IF For(pin, "in") # {} THEN b \in config[p]
            ELSE IF For(pin, "out") # {} THEN b \notin config[p]
            ELSE b \in config[p] <=> b \in before[p]

\* The output command of the batch that is processed last for a port.
LastOutput(port) ==
    LET outs == {n \in 1..Len(pgpio_cmd) :
                   pgpio_cmd[n].pin_dir = "out" /\ pgpio_cmd[n].pin_num[1] = port}
    IN  {n \in outs : \A m \in outs : m <= n}

\* When no byte was lost, an input that is wired to the last output of its
\* port in the same batch is answered with the level of that output, wherever
\* the two commands stand in the batch, and in the place of the input.
InputsSeeOutputs ==
    pc = "idle" /\ ~lost =>
      \A n \in 1..Len(pgpio_cmd) :
        LET c == pgpio_cmd[n]
        IN  \A p \in Ports : \A l \in LastOutput(p) :
              LET q == pgpio_cmd[l].pin_num
              IN  /\ c.pin_dir = "in" /\ c.pin_num[2] \in Byte /\ q[2] \in Byte
                  /\ Wire[c.pin_num] = {q}
                  /\ For(q, "in") = {}
                  => answer[Cardinality({m \in 1..n : pgpio_cmd[m].pin_dir = "in"})] =
                       pgpio_cmd[l].pin_level

\* When no byte was lost, every output of the batch has the level of its last
\* command during the delay.
OutputsHeld ==
    pc = "delay" /\ ~lost =>
      \A p \in Ports, b \in Byte :
        \A n \in For(<<p, b>>, "out") :
          (\A m \in For(<<p, b>>, "out") : m <= n) =>
            (b \in out[p] <=> pgpio_cmd[n].pin_level = 1)
=============================================================================
