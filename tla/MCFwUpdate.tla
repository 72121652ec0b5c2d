---------------------------- MODULE MCFwUpdate ----------------------------
(***************************************************************************)
(* Model-checking instance of FwUpdate.                                    *)
(***************************************************************************)
EXTENDS FwUpdate, TLC

\* The payloads are interchangeable, and the properties are safety properties.
Symmetry == Permutations(Payloads)
=============================================================================
