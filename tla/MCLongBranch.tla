---------------------------- MODULE MCLongBranch ----------------------------
(***************************************************************************)
(* Small instances of Cpu0LongBranch.  An immediate has seven bits, so a   *)
(* branch is found short up to 64 instructions, and 64 bytes fit its       *)
(* field; the bodies are chosen so that one branch is at the limit until a *)
(* sequence is put in its way.                                             *)
(***************************************************************************)
EXTENDS Cpu0LongBranch

B(body, cond, jump) == [body |-> body, cond |-> cond, jump |-> jump, ret |-> FALSE]
Ret(body) == [body |-> body, cond |-> 0, jump |-> 0, ret |-> TRUE]

MCFuncs ==
  {<<B(x, c1, 0), B(y, c2, j2), B(z, c3, 0), Ret(w)>> :
     x \in {1, 12}, y \in {9, 57, 61}, z \in {3, 63}, w \in {1},
     c1 \in {0, 3, 4}, c2 \in {0, 1, 2, 4}, j2 \in {0, 4}, c3 \in {0, 1, 2}}
=============================================================================
