------------------------------- MODULE MCMmd -------------------------------
(***************************************************************************)
(* Model-checking instance of Mmd: words of two bits, one double word per  *)
(* space.                                                                  *)
(***************************************************************************)
EXTENDS Mmd

MCRegs == {0, 1}

\* No two words of a space hold the same.
MCImages == {[s \in Spaces |-> [r \in MCRegs |-> IF r = 0 THEN {0} ELSE {1}]]}

Command(rw, route, dev, addr, field) ==
    [rw |-> rw, route |-> route, dev |-> dev, addr |-> addr,
     lbit |-> field[1], hbit |-> field[2], data |-> {0, 1}, num |-> 0]

Posts == {[Command("post", route, "pla", 0, <<0, 1>>) EXCEPT !.num = n] :
            route \in {"stall", "other"}, n \in 0..2}

Ways == {<<"alive", "pla">>, <<"alive", "dma">>, <<"alive", "pci">>, <<"stall", "pla">>,
         <<"gphy", "pla">>, <<"ephy", "pla">>, <<"efuse", "pla">>}

Fields == {<<0, 1>>, <<1, 1>>}

MCAll == {Command("read", w[1], w[2], 2, f) : w \in Ways, f \in Fields}
           \cup {Command("write", w[1], w[2], addr, f) : w \in Ways, addr \in {0, 2}, f \in Fields}
           \cup {Command(rw, "other", "pla", 1, <<1, 1>>) : rw \in {"read", "write"}}
           \cup Posts

\* The commands whose accesses all reach the MCU they name.  A PCI command makes
\* no selection, and goes to the DMA MCU after an access to that was given up, so
\* its writes are left out.
MCRouted == {c \in MCAll : /\ c.dev = "dma" => c.rw = "write" /\ ~Partial(c)
                           /\ c.dev = "pci" => c.rw = "read"}

\* The commands for a USB chip.
MCUsb == {c \in MCAll : c.dev # "pci"}
=============================================================================
