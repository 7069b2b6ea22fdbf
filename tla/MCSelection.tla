----------------------------- MODULE MCSelection -----------------------------
(***************************************************************************)
(* Values at both ends of the signed and of the unsigned range, around     *)
(* zero, and with equal halves.                                            *)
(***************************************************************************)
EXTENDS Cpu0Selection

MCOperands == {0, 1, 3, 31, 32, 33, 62, 63}
=============================================================================
