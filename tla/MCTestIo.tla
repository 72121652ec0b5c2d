----------------------------- MODULE MCTestIo -----------------------------
(***************************************************************************)
(* Model-checking instance of TestIo: bytes of two bits and a double word  *)
(* per MCU.                                                                *)
(***************************************************************************)
EXTENDS TestIo

MCWords == {0, 1}

\* Every word holds set and clear bits, and no two hold the same.
MCImages == {[d \in Spaces |-> [w \in MCWords |->
                IF d \in {"pla", "gphy"} THEN IF w = 0 THEN {0, 3} ELSE {1, 2}
                ELSE IF w = 0 THEN {0, 1} ELSE {3}]]}

\* Whole and partial registers; a field that crosses a byte, and one that
\* crosses the words of a double word.
Fields == {<<"word", 0, 3>>, <<"word", 1, 2>>, <<"word", 3, 3>>,
           <<"dword", 0, 7>>, <<"dword", 3, 5>>}

Command(rw, mode, dev, addr, field, data) ==
    [rw |-> rw, channel |-> "ocp", mode |-> mode, size |-> field[1], dev |-> dev, addr |-> addr,
     lbit |-> field[2], hbit |-> field[3], data |-> data]

Reads == {Command("read", m, d, 0, f, {}) :
            m \in Modes, d \in Devs, f \in {<<"word", 0, 3>>, <<"dword", 0, 7>>}}

Writes == {Command("write", m, d, 0, f, {1, 3, 4, 7}) : m \in Modes, d \in Devs, f \in Fields}
            \cup {Command("write", m, "pla", 1, <<"word", 1, 2>>, {1}) : m \in Modes}

\* Reads and masked writes through the channels, and one of a whole word.
Through(rw, ch, addr, field, data) ==
    [Command(rw, "alive", "pla", addr, field, data) EXCEPT !.channel = ch]

ThroughChannels ==
    {Through("read", ch, 0, <<"word", 0, 3>>, {}) : ch \in Channels}
    \cup {Through("write", ch, 0, <<"word", 1, 2>>, {1}) : ch \in {"gphy", "efuse"}}
    \cup {Through("write", "gphy", 1, <<"word", 0, 3>>, {0})}

\* The commands whose accesses reach the MCU they name.
MCRouted == ThroughChannels \cup {c \in Reads \cup Writes : ~(c.rw = "write" /\ c.mode = "stall" /\ c.dev = "dma")}

MCAll == Reads \cup Writes
=============================================================================
