--------------------------- MODULE MCArgumentLists ---------------------------
(***************************************************************************)
(* Argument lists of up to five arguments: the scalar types, and           *)
(* structures below, at and above the two argument registers, with the     *)
(* alignments that handleByValArg distinguishes.                           *)
(***************************************************************************)
EXTENDS ArgumentLists

MCConventions ==
  {[abi |-> "O32", conv |-> "C"], [abi |-> "O32", conv |-> "fast"],
   [abi |-> "S32", conv |-> "C"], [abi |-> "S32", conv |-> "fast"]}
MCArgTypes == {I32, I64, Struct(1, 4), Struct(2, 8), Struct(3, 4), Struct(3, 8)}
=============================================================================
