------------------------------ MODULE MCAtomics ------------------------------
(***************************************************************************)
(* Small instances of Cpu0Atomics.  The operands are chosen so that every  *)
(* operation changes its field and carries reach the bits above it.        *)
(***************************************************************************)
EXTENDS Cpu0Atomics

CONSTANTS t1, t2, a1, a2

MCThreads == {t1, t2}
OneAddr   == {a1}
TwoAddrs  == {a1, a2}
NoWord    == {-1}         \* not a word

Inst(op, size, word, lsb, arg, cmp) ==
  [op |-> op, size |-> size, word |-> word, lsb |-> lsb, arg |-> arg,
   cmp |-> cmp]

\* ByteBits = 1: words of four bits.
WordInsts ==
  {Inst(op, 4, a1, 0, {0, 1}, Zero) : op \in {"add", "sub", "or"}}
    \cup {Inst("swap", 4, a1, 0, {1, 2}, Zero),
          Inst("cmpswap", 4, a1, 0, {1, 2}, {0, 3})}
WordInit == {{0, 3}}

\* ByteBits = 2: words of eight bits, halfwords of four.
PartwordInsts ==
  {Inst("add", 1, a1, 0, {0, 1}, Zero), Inst("xor", 2, a1, 2, {0, 3}, Zero),
   Inst("nand", 1, a1, 2, {0}, Zero), Inst("cmpswap", 1, a1, 3, {0}, {1}), Inst("cmpswap", 2, a1, 0, {2}, {0, 2})}
NeighbourInsts ==
  {Inst("swap", 1, a1, 1, {0}, Zero), Inst("cmpswap", 1, a1, 0, Zero, Zero)}
PartwordInit == {{0, 1, 4, 6}, {2, 7}}
=============================================================================
