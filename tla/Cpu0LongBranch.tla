--------------------------- MODULE Cpu0LongBranch ---------------------------
(***************************************************************************)
(* The Cpu0LongBranch pass: it measures the blocks of a function, marks    *)
(* the branches whose target is too far away, over again until no mark is  *)
(* added, and gives each marked branch a long-branch sequence.             *)
(*                                                                         *)
(* A function is a sequence of blocks.  What a block computes is left out: *)
(* a block is its number of instructions and its branches.  An instruction *)
(* has four bytes.                                                         *)
(***************************************************************************)
EXTENDS Integers, Sequences, Sums

CONSTANTS
  Funcs,         \* the functions the pass is run on
  ImmBits        \* bits of an immediate field, 16 on the machine

(***************************************************************************)
(* Block n of a function has `body' instructions, of which a return is the *)
(* last, then a BEQ or BNE to block `cond' and a JMP to block `jump'; 0    *)
(* stands for no branch.  Control never runs off the end of a function.    *)
(***************************************************************************)
ASSUME FunctionsAssumption ==
  \A f \in Funcs :
    /\ f \in Seq([body : Nat, cond : 0 .. Len(f), jump : 0 .. Len(f),
                  ret : BOOLEAN])
    /\ \A n \in DOMAIN f : f[n].ret => f[n].cond = 0 /\ f[n].jump = 0
    /\ Len(f) > 0 /\ (f[Len(f)].ret \/ f[Len(f)].jump # 0)
\* A reversed branch reaches across the sequence behind it, 44 bytes.  The equation
\* is an instance of the definition of ^, which the provers do not know.
ASSUME ImmBitsAssumption ==
  /\ ImmBits \in Nat \ {0} /\ 2 ^ (ImmBits - 1) > 44
  /\ 2 ^ ImmBits = 2 * 2 ^ (ImmBits - 1)

VARIABLES
  func,      \* the function the pass is run on
  isPIC,     \* TM.isPositionIndependent()
  force,     \* -force-cpu0-long-branch
  gpSet,     \* globalBaseRegSet()
  phase,     \* "split", "scan", "expand" or "done"
  blocks,    \* the blocks of the machine function, in layout order
  infos,     \* MBBInfos
  at,        \* the block or the entry of MBBInfos a loop is at
  made,      \* MadeChange
  ever       \* EverMadeChange

input == <<func, isPIC, force, gpSet>>
vars  == <<input, phase, blocks, infos, at, made, ever>>

-----------------------------------------------------------------------------
(***************************************************************************)
(* A block of the machine function is named by the block n it comes from:  *)
(* its first half, or the half that splitMBB cut off, and that block       *)
(* itself, or the $longbr or $baltgt block that was put behind it.         *)
(***************************************************************************)
Name(n, half, part) == <<n, half, part>>
Entry(n)    == Name(n, "first", "self")
LongBr(id)  == Name(id[1], id[2], "longbr")
BalTgt(id)  == Name(id[1], id[2], "baltgt")

(***************************************************************************)
(* A block ends in a BEQ or BNE with its NOP, in a JMP, in a JR or a RET   *)
(* that counts among its instructions, or falls through.  A BEQ or BNE is  *)
(* taken when the condition of the original branch has the value `sense'.  *)
(***************************************************************************)
Block(id, body, op, tgt, sense) ==
  [id |-> id, body |-> body, op |-> op, tgt |-> tgt, sense |-> sense]

BranchWords(op) == CASE op = "cond" -> 2 [] op = "jmp" -> 1 [] OTHER -> 0

\* GetInstSizeInBytes summed over the block.
SizeOf(b) == 4 * (b.body + BranchWords(b.op))

Position(bs, id) == CHOOSE p \in DOMAIN bs : bs[p].id = id

\* Mutant: the sequence of position-independent code is counted always.
LongBranchSeqSizePIC == 10

LongBranchSeqSize == IF isPIC THEN 10 ELSE 2

FitsImm(x) == x \in -(2 ^ (ImmBits - 1)) .. 2 ^ (ImmBits - 1) - 1

-----------------------------------------------------------------------------
\* Block n after emitGPDisp and splitMBB: at most one branch in a block.
SplitMBB(n) ==
  LET b    == func[n]
      body == b.body + IF n = 1 /\ isPIC /\ gpSet THEN 2 ELSE 0
      id   == Entry(n)
      tail == Name(n, "second", "self")
      jump(i, k) == Block(i, k, "jmp", Entry(b.jump), TRUE)
      cond       == Block(id, body, "cond", Entry(b.cond), TRUE)
  IN  CASE b.cond # 0 /\ b.jump # 0 -> <<cond, jump(tail, 0)>>
        [] b.cond # 0 /\ b.jump = 0 -> <<cond>>
        [] b.cond = 0 /\ b.jump # 0 -> <<jump(id, body)>>
        [] OTHER -> <<Block(id, body, IF b.ret THEN "ret" ELSE "none", id, TRUE)>>

\* initMBBInfo: the jumps are looked at in position-independent code only; mbb
\* is the block of the branch, Br->getParent().
InitMBBInfo(bs) ==
  [p \in DOMAIN bs |->
     [mbb  |-> bs[p].id,
      size |-> SizeOf(bs[p]),
      br   |-> bs[p].op = "cond" \/ (bs[p].op = "jmp" /\ isPIC),
      long |-> FALSE]]

(***************************************************************************)
(* computeOffset of the branch of block p, in bytes from the instruction   *)
(* behind the branch, by the sizes of `is'.                                *)
(***************************************************************************)
Sizes(is) == [p \in DOMAIN is |-> is[p].size]

OffsetTo(is, p, tgt) ==
  IF p < tgt THEN SumOf(Sizes(is), p + 1, tgt - 1) + 4 ELSE 4 - SumOf(Sizes(is), tgt, p)

ComputeOffset(is, p) == OffsetTo(is, p, Position(blocks, blocks[p].tgt))

-----------------------------------------------------------------------------
Init ==
  /\ func \in Funcs
  /\ isPIC \in BOOLEAN
  /\ force \in BOOLEAN
  /\ gpSet \in BOOLEAN
  /\ phase = "split"
  /\ blocks = <<>>
  /\ infos = <<>>
  /\ at = 1
  /\ made = FALSE
  /\ ever = FALSE

\* emitGPDisp, and the loop of initMBBInfo over the blocks.
Split ==
  /\ phase = "split" /\ at <= Len(func)
  /\ blocks' = blocks \o SplitMBB(at)
  /\ at' = at + 1
  /\ UNCHANGED <<input, phase, infos, made, ever>>

\* The rest of initMBBInfo.
Measure ==
  /\ phase = "split" /\ at > Len(func)
  /\ infos' = InitMBBInfo(blocks)
  /\ phase' = "scan"
  /\ at' = 1
  /\ UNCHANGED <<input, blocks, made, ever>>

(***************************************************************************)
(* One pass through the inner loop.                                        *)
(***************************************************************************)
TooFar(p) == force \/ ~FitsImm(ComputeOffset(infos, p) \div 4)

Keep ==
  /\ phase = "scan" /\ at <= Len(infos)
  /\ ~(infos[at].br /\ ~infos[at].long /\ TooFar(at))
  /\ at' = at + 1
  /\ UNCHANGED <<input, phase, blocks, infos, made, ever>>

\* Mutant: the size of the block does not grow.
MarkWithoutGrowth ==
  /\ phase = "scan" /\ at <= Len(infos)
  /\ infos[at].br /\ ~infos[at].long /\ TooFar(at)
  /\ infos' = [infos EXCEPT ![at].long = TRUE]
  /\ made' = TRUE
  /\ ever' = TRUE
  /\ at' = at + 1
  /\ UNCHANGED <<input, phase, blocks>>

Mark ==
  /\ phase = "scan" /\ at <= Len(infos)
  /\ infos[at].br /\ ~infos[at].long /\ TooFar(at)
  /\ infos' = [infos EXCEPT ![at].long = TRUE,
                            ![at].size = @ + LongBranchSeqSize * 4]
  /\ made' = TRUE
  /\ ever' = TRUE
  /\ at' = at + 1
  /\ UNCHANGED <<input, phase, blocks>>

\* Mutant: MadeChange is not cleared for the next round.
EndRoundKeepsMade ==
  /\ phase = "scan" /\ at > Len(infos)
  /\ at' = 1
  /\ phase' = IF made THEN "scan" ELSE IF ever THEN "expand" ELSE "done"
  /\ UNCHANGED <<input, blocks, infos, made, ever>>

\* The test of the outer loop, and the return when nothing was marked.
EndRound ==
  /\ phase = "scan" /\ at > Len(infos)
  /\ at' = 1
  /\ made' = FALSE
  /\ phase' = IF made THEN "scan" ELSE IF ever THEN "expand" ELSE "done"
  /\ UNCHANGED <<input, blocks, infos, ever>>

-----------------------------------------------------------------------------
(* expandToLongBranch.                                                     *)

\* The blocks $longbr and $baltgt of the branch of block b.
Sequence(b) ==
  IF isPIC
    THEN <<Block(LongBr(b.id), 5, "bal", BalTgt(b.id), TRUE),
           Block(BalTgt(b.id), 5, "jr", b.tgt, TRUE)>>
    ELSE <<Block(LongBr(b.id), 1, "jmp", b.tgt, TRUE)>>

\* Mutant: replaceBranch keeps the condition code.
RedirectSameSense(b, fallThrough) ==
  IF b.op = "jmp" THEN [b EXCEPT !.tgt = LongBr(b.id)]
                  ELSE [b EXCEPT !.tgt = fallThrough]

\* A jump goes to $longbr; replaceBranch reverses a conditional branch.
Redirect(b, fallThrough) ==
  IF b.op = "jmp" THEN [b EXCEPT !.tgt = LongBr(b.id)]
                  ELSE [b EXCEPT !.tgt = fallThrough, !.sense = ~@]

\* Mutant: the loop does not go on to the next entry.
ExpandStays ==
  /\ phase = "expand" /\ at <= Len(infos) /\ infos[at].long
  /\ LET p == Position(blocks, infos[at].mbb)
         b == blocks[p]
     IN  blocks' = SubSeq(blocks, 1, p - 1)
                     \o <<Redirect(b, blocks[p + 1].id)>> \o Sequence(b)
                     \o SubSeq(blocks, p + 1, Len(blocks))
  /\ UNCHANGED <<input, phase, at, infos, made, ever>>

Expand ==
  /\ phase = "expand" /\ at <= Len(infos) /\ infos[at].long
  /\ LET p == Position(blocks, infos[at].mbb)
         b == blocks[p]
         fallThrough == IF p < Len(blocks) THEN blocks[p + 1].id ELSE b.id
     IN  blocks' = SubSeq(blocks, 1, p - 1)
                     \o <<Redirect(b, fallThrough)>> \o Sequence(b)
                     \o SubSeq(blocks, p + 1, Len(blocks))
  /\ at' = at + 1
  /\ UNCHANGED <<input, phase, infos, made, ever>>

SkipShort ==
  /\ phase = "expand" /\ at <= Len(infos) /\ ~infos[at].long
  /\ at' = at + 1
  /\ UNCHANGED <<input, phase, blocks, infos, made, ever>>

Finish ==
  /\ phase = "expand" /\ at > Len(infos)
  /\ phase' = "done"
  /\ UNCHANGED <<input, blocks, infos, at, made, ever>>

Next == Split \/ Measure \/ Keep \/ Mark \/ EndRound \/ Expand \/ SkipShort \/ Finish

\* The pass is a sequential function: it runs until it returns.
Spec == Init /\ [][Next]_vars /\ WF_vars(Next)

-----------------------------------------------------------------------------
(***************************************************************************)
(* The finished function.  AddrOf is the address of a block; Displacement  *)
(* is counted in bytes from the instruction behind a branch, as            *)
(* adjustFixupValue counts it, and is what the field of the branch gets.   *)
(***************************************************************************)
Done == phase = "done"

AddrOf(p)       == SumOf([q \in DOMAIN blocks |-> SizeOf(blocks[q])], 1, p - 1)
BranchAddr(p)   == AddrOf(p) + SizeOf(blocks[p]) - 4 * BranchWords(blocks[p].op)
Displacement(p) == AddrOf(Position(blocks, blocks[p].tgt)) - BranchAddr(p) - 4

\* Where control goes from the end of block p, 0 for out of the function.
Successor(p, taken) ==
  LET b == blocks[p]
  IN  CASE b.op = "ret" -> 0
        [] b.op \in {"jmp", "jr", "bal"} -> Position(blocks, b.tgt)
        [] b.op = "cond" /\ taken = b.sense -> Position(blocks, b.tgt)
        [] OTHER -> p + 1

\* At most three blocks of the pass lie between two blocks of the function.
IsEntry(p) == p = 0 \/ (p \in DOMAIN blocks /\ blocks[p].id = Entry(blocks[p].id[1]))
Onward(p)  == IF IsEntry(p) THEN p ELSE Successor(p, FALSE)
Reached(n, taken) ==
  Onward(Onward(Onward(Successor(Position(blocks, Entry(n)), taken))))

IntendedSuccessor(n, taken) ==
  CASE func[n].ret -> 0
    [] func[n].cond # 0 /\ taken -> func[n].cond
    [] func[n].jump # 0 /\ (func[n].cond = 0 \/ ~taken) -> func[n].jump
    [] OTHER -> n + 1

-----------------------------------------------------------------------------
(***************************************************************************)
(* The instructions of $longbr and $baltgt, on the registers sp, lr, at    *)
(* and the stack slot that lr is saved in.  adjustFixupValue gives LUi the *)
(* upper and ADDiu the lower half of $tgt - $baltgt; ADDiu sign-extends.   *)
(***************************************************************************)
WordMod == 2 ^ ImmBits * 2 ^ ImmBits
Hi16(v) == (v \div 2 ^ ImmBits) % 2 ^ ImmBits
Lo16(v) == v % 2 ^ ImmBits
SExt(h) == IF h < 2 ^ (ImmBits - 1) THEN h ELSE h - 2 ^ ImmBits

LongBrCode(r, dist, baltgt) ==
  LET pushed == [r EXCEPT !.sp = @ - 8, !.slot = <<r.sp - 8, r.lr>>]
      offset == (Hi16(dist) * 2 ^ ImmBits + SExt(Lo16(dist))) % WordMod
  IN  [pushed EXCEPT !.at = offset, !.lr = baltgt]

\* Mutant: the stack pointer is raised before $lr is loaded.
BalTgtCodeReordered(r) ==
  [r EXCEPT !.at = (r.lr + @) % WordMod,
            !.sp = @ + 8,
            !.lr = IF r.slot[1] = r.sp + 8 THEN r.slot[2] ELSE @]

BalTgtCode(r) ==
  [r EXCEPT !.at = (r.lr + @) % WordMod,
            !.lr = IF r.slot[1] = r.sp THEN r.slot[2] ELSE @,
            !.sp = @ + 8]

Registers  == [sp |-> 0, lr |-> -1, at |-> 0, slot |-> <<0, 0>>]
BalTgts    == {p \in DOMAIN blocks : blocks[p].op = "jr"}
Distance(p) == AddrOf(Position(blocks, blocks[p].tgt)) - AddrOf(p)
AfterSequence(p) == BalTgtCode(LongBrCode(Registers, Distance(p), AddrOf(p)))

-----------------------------------------------------------------------------
Ids == (1 .. Len(func)) \X {"first", "second"} \X {"self", "longbr", "baltgt"}
BlockType ==
  [id : Ids, body : Nat, op : {"cond", "jmp", "ret", "none", "bal", "jr"}, tgt : Ids,
   sense : BOOLEAN]

TypeOK ==
  /\ func \in Funcs
  /\ isPIC \in BOOLEAN /\ force \in BOOLEAN /\ gpSet \in BOOLEAN
  /\ phase \in {"split", "scan", "expand", "done"}
  /\ blocks \in Seq(BlockType)
  /\ \A p, q \in DOMAIN blocks : blocks[q].id = blocks[p].id => q = p
  /\ phase # "split" =>
       \A p \in DOMAIN blocks : \E q \in DOMAIN blocks : blocks[q].id = blocks[p].tgt
  /\ infos \in Seq([mbb : Ids, size : Nat, br : BOOLEAN, long : BOOLEAN])
  /\ at \in 1 .. (IF phase = "split" THEN Len(func) ELSE Len(infos)) + 1
  /\ made \in BOOLEAN /\ ever \in BOOLEAN

(***************************************************************************)
(* splitMBB, the reversed branches and the new blocks keep the control     *)
(* flow: from every block, and for either value of its condition, the      *)
(* finished function goes where the original one went.                     *)
(***************************************************************************)
ControlFlowKept ==
  Done => \A n \in DOMAIN func, taken \in BOOLEAN :
            LET to == IntendedSuccessor(n, taken)
            IN  Reached(n, taken)
                  = IF to = 0 THEN 0 ELSE Position(blocks, Entry(to))

\* A conditional branch without a sequence of its own.
LeftShort(p) == blocks[p + 1].id # LongBr(blocks[p].id)

\* Cpu0LongBranch.cpp:397 tests the instructions, and the field gets the bytes.
FitsInInstructionsOnly(d) == FitsImm(d \div 4) /\ ~FitsImm(d)

(***************************************************************************)
(* The blocks grow while they are measured, some of them after a branch    *)
(* across them was found short.  When the rounds are over, every           *)
(* conditional branch of the finished function, the reversed ones          *)
(* included, has its displacement in its field, but for a branch left      *)
(* short whose displacement fits in instructions and not in bytes.         *)
(***************************************************************************)
ShortBranchesReach ==
  Done => \A p \in DOMAIN blocks :
            blocks[p].op = "cond"
              => \/ FitsImm(Displacement(p))
                 \/ LeftShort(p) /\ FitsInInstructionsOnly(Displacement(p))

(***************************************************************************)
(* No conditional branch is made long for nothing: in the finished         *)
(* function, its own sequence left aside, the target is too far away.      *)
(* (Only -force-cpu0-long-branch marks the others.)  A mark is never       *)
(* withdrawn, so this is where an overestimated size would show.           *)
(***************************************************************************)
OnlyFarBranchesLong ==
  Done /\ ~force
    => \A p \in DOMAIN blocks :
         blocks[p].op = "cond" /\ ~LeftShort(p)
           => LET own == IF isPIC THEN 2 ELSE 1
                  tgt == Position(blocks, blocks[p + own].tgt)
                  ownSize == IF p < tgt THEN AddrOf(p + own + 1) - AddrOf(p + 1)
                                        ELSE 0
              IN  ~FitsImm((AddrOf(tgt) - ownSize - BranchAddr(p) - 4) \div 4)

(***************************************************************************)
(* A long-branch sequence hands sp and lr on as it found them, although    *)
(* BAL overwrites lr, and when bit 15 of $tgt - $baltgt is 0 its JR goes   *)
(* to the target.                                                          *)
(***************************************************************************)
SequenceTransparent ==
  Done => \A p \in BalTgts :
            LET r == AfterSequence(p)
            IN  /\ r.sp = Registers.sp /\ r.lr = Registers.lr
                /\ Lo16(Distance(p)) < 2 ^ (ImmBits - 1)
                     => r.at = AddrOf(Position(blocks, blocks[p].tgt)) % WordMod

(***************************************************************************)
(* The rounds come to an end: every round but the last one marks a branch. *)
(***************************************************************************)
Terminates == <>Done

(***************************************************************************)
(* "so the values will always be correct" (Cpu0LongBranch.cpp:300): the JR *)
(* of every sequence goes to the target.                                   *)
(***************************************************************************)
SequenceReachesTarget ==
  Done => \A p \in BalTgts :
            AfterSequence(p).at = AddrOf(Position(blocks, blocks[p].tgt)) % WordMod
=============================================================================
