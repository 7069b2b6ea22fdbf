------------------------------ MODULE Cpu0Words ------------------------------
(***************************************************************************)
(* Machine words of the Cpu0 target and the register instructions that the *)
(* atomic expansions of Cpu0ISelLowering.cpp are built from.               *)
(*                                                                         *)
(* A word is the set of the bit positions that are 1.  A byte has ByteBits *)
(* bits (8 on the machine) and a word has four bytes, so an instance with  *)
(* narrow bytes keeps the lanes, the shifts and the carries of the         *)
(* 32-bit machine.                                                         *)
(***************************************************************************)
EXTENDS Integers

CONSTANT ByteBits    \* bits of one byte

ASSUME ByteBitsAssumption == ByteBits \in Nat \ {0}

WordBits == 4 * ByteBits
Bits     == 0 .. WordBits - 1
Word     == SUBSET Bits

Zero == {}

(***************************************************************************)
(* AND, OR and XOR of two registers; NOT is what XOR with an all-ones      *)
(* register gives.                                                         *)
(***************************************************************************)
AND(a, b) == a \cap b
OR(a, b)  == a \cup b
XOR(a, b) == (a \ b) \cup (b \ a)
NOT(a)    == Bits \ a

(***************************************************************************)
(* SHL/SHLV and SHR/SHRV by n places, and SRA, which copies the sign bit.  *)
(***************************************************************************)
SHL(a, n) == {i \in Bits : i - n \in a}
SHR(a, n) == {i \in Bits : i + n \in a}
SRA(a, n) == {i \in Bits : IF i + n \in Bits THEN i + n \in a
                                             ELSE WordBits - 1 \in a}

(***************************************************************************)
(* ADDu and SUBu wrap around.  Carry(a, b, c)[i] is the carry into bit i   *)
(* of a + b + c.                                                           *)
(***************************************************************************)
Carry(a, b, c) ==
  LET f[i \in 0 .. WordBits] ==
        IF i = 0
          THEN c
          ELSE \/ i - 1 \in a \cap b
               \/ i - 1 \in a \cup b /\ f[i - 1]
  IN  f

AddC(a, b, c) ==
  LET carry == Carry(a, b, c)
  IN  {i \in Bits : (i \in XOR(a, b)) # carry[i]}

ADDu(a, b) == AddC(a, b, FALSE)
SUBu(a, b) == AddC(a, NOT(b), TRUE)

\* The low n bits set: what ORi $0, 255 or 65535 leaves in a register.
LowBits(n) == {i \in Bits : i < n}

\* The value of the low n bits of a, read as a signed number of n bits and
\* widened to a word.
SignExtended(a, n) == SRA(SHL(a, WordBits - n), WordBits - n)
=============================================================================
