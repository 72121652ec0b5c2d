-------------------------- MODULE MCGpioExpander --------------------------
(***************************************************************************)
(* Model-checking instance of GpioExpander: two ports of two pins, pin     *)
(* numbers one past them, and each pin of p0 wired to the other-numbered   *)
(* pin of p1.                                                              *)
(***************************************************************************)
EXTENDS GpioExpander

MCPorts == {"p0", "p1"}

Wired == {{<<"p0", 0>>, <<"p1", 1>>}, {<<"p0", 1>>, <<"p1", 0>>}}

MCWire == [pin \in Pins |-> {q \in Pins : {pin, q} \in Wired}]
=============================================================================
