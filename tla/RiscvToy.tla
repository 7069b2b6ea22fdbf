------------------------------ MODULE RiscvToy ------------------------------
(***************************************************************************)
(* The RiscvToy back end from a selected program to its execution.  A      *)
(* program is a set of functions of operations on values that the register *)
(* allocator (LLVM's, external) has given registers.  The functions are    *)
(* selected, laid out anew by a pass that uses the hooks of                *)
(* RiscvToyInstrInfo, given their frames, emitted as an object or as text  *)
(* that is assembled, linked, and run word by word.                        *)
(*                                                                         *)
(* A register has W bits: 32 in the code, narrowed to what TLC's integers  *)
(* hold.  Immediate fields have the widths of the code.                    *)
(***************************************************************************)
EXTENDS RiscvToyMC, SequencesExt, FiniteSetsExt, Bitwise

CONSTANTS W, Programs

ASSUME WAssumption == W \in 21 .. 30

VARIABLES prog,     \* the program that is compiled
          route,    \* "obj" or "asm"
          phase,
          code,     \* the blocks of every function, in their order
          image,    \* the words in memory
          pc, regs, mem

vars == <<prog, route, phase, code, image, pc, regs, mem>>
machine == <<image, pc, regs, mem>>

Functions == DOMAIN prog.funcs

RA == 1
SP == 2
ArgReg(i) == 9 + i
CalleeSaved == {1, 3, 4, 8, 9} \cup 18 .. 27

Unsigned(v) == v % 2 ^ W
Signed(u) == SignExtend(u % 2 ^ W, W)

(***************************************************************************)
(* What the operations mean, written down apart from how they are          *)
(* compiled.                                                               *)
(***************************************************************************)
Holds(cc, a, b) ==
  CASE cc = "EQ"  -> a = b                         [] cc = "NE"  -> a # b
    [] cc = "LT"  -> a < b                         [] cc = "GE"  -> a >= b
    [] cc = "GT"  -> a > b                         [] cc = "LE"  -> a <= b
    [] cc = "ULT" -> Unsigned(a) < Unsigned(b)     [] cc = "UGE" -> Unsigned(a) >= Unsigned(b)
    [] cc = "UGT" -> Unsigned(a) > Unsigned(b)     [] cc = "ULE" -> Unsigned(a) <= Unsigned(b)

Arith(op, a, b) ==
  CASE op = "ADD" -> Signed(a + b)
    [] op = "SUB" -> Signed(a - b)
    [] op = "AND" -> Signed(Unsigned(a) & Unsigned(b))
    [] op = "OR"  -> Signed(Unsigned(a) | Unsigned(b))
    [] op = "XOR" -> Signed(Unsigned(a) ^^ Unsigned(b))
    [] op = "SLL" -> Signed((Unsigned(a) % 2 ^ (W - b)) * 2 ^ b)
    [] op = "SRL" -> Signed(Unsigned(a) \div 2 ^ b)
    [] op = "SRA" -> a \div 2 ^ b

Bytes(op) == CASE op \in {"LB", "LBU", "SB"} -> 1 [] op \in {"LH", "LHU", "SH"} -> 2 [] OTHER -> 4
ByteOf(v, k) == (Unsigned(v) \div 2 ^ (8 * k)) % 256
\* The value a load makes of the bytes at the addresses a(0), a(1), ...
Loaded(op, m, a) ==
  LET u == MapThenSumSet(LAMBDA k : m[a[k]] * 2 ^ (8 * k), 0 .. Bytes(op) - 1)
  IN  IF op \in {"LB", "LH"} THEN SignExtend(u, 8 * Bytes(op)) ELSE Signed(u)
Stored(op, v, a) ==
  [x \in {a[k] : k \in 0 .. Bytes(op) - 1} |->
     ByteOf(v, CHOOSE k \in 0 .. Bytes(op) - 1 : a[k] = x)]

RECURSIVE Meaning(_, _), RunBlock(_, _, _), RunOps(_, _, _)

\* The result of a function: its arguments are in the first argument registers.
Meaning(f, args) ==
  RunBlock(f, 1, [r |-> [x \in 0 .. 31 |-> IF x - 9 \in DOMAIN args THEN args[x - 9] ELSE 0],
                  m |-> <<>>])

RunBlock(f, b, s) ==
  LET t == RunOps(f, prog.funcs[f].blocks[b].ops, s)
      term == prog.funcs[f].blocks[b].term
      to(yes) == RunBlock(f, IF yes THEN term[Len(term) - 1] ELSE term[Len(term)], t)
  IN  CASE term[1] = "ret" -> t.r[term[2]]
        [] term[1] = "br" -> RunBlock(f, term[2], t)
        [] term[1] = "condbr" -> to(Holds(term[2], t.r[term[3]], t.r[term[4]]))
        [] term[1] = "condbrv" -> to(t.r[term[2]] # 0)

RunOps(f, ops, s) ==
  IF ops = <<>> THEN s
  ELSE LET o == Head(ops)
           r == s.r
           set(x, v) == [s EXCEPT !.r[x] = v]
           at == [k \in 0 .. 3 |-> <<o[4], o[5] + k>>]
           call(g, args, x) == set(x, Meaning(g, [i \in DOMAIN args |-> r[args[i]]]))
       IN  RunOps(f, Tail(ops),
             CASE o[1] = "const"  -> set(o[2], o[3])
               [] o[1] = "addc"   -> set(o[2], Signed(r[o[3]] + o[4]))
               [] o[1] = "bin"    -> set(o[3], Arith(o[2], r[o[4]], r[o[5]]))
               [] o[1] = "shc"    -> set(o[3], Arith(o[2], r[o[4]], o[5]))
               [] o[1] = "setcc"  -> set(o[2], IF Holds(o[3], r[o[4]], r[o[5]]) THEN 1 ELSE 0)
               [] o[1] = "select" -> set(o[2], IF Holds(o[3], r[o[4]], r[o[5]])
                                                 THEN r[o[6]] ELSE r[o[7]])
               [] o[1] = "load"   -> set(o[3], Loaded(o[2], s.m, at))
               [] o[1] = "store"  -> [s EXCEPT !.m = Stored(o[2], r[o[3]], at) @@ @]
               [] o[1] = "call"   -> call(o[2], o[3], o[4])
               [] o[1] = "calli"  -> call(prog.ptr, o[3], o[4]))

(***************************************************************************)
(* Selection: the patterns.  A frame index is <<"fi", k>>.                 *)
(***************************************************************************)
R3(op, rd, a, b) == Inst(op, <<Reg(rd), Reg(a), Reg(b)>>)
RI(op, rd, a, n) == Inst(op, <<Reg(rd), Reg(a), Imm(n)>>)

HI20(c) == ((c + 2048) \div 2 ^ 12) % 2 ^ 20
LO12Sext(c) == SignExtend(c % 2 ^ 12, 12)

ConstantMIs(rd, c) ==
  IF IsInt(12, c) THEN <<RI("ADDI", rd, 0, c)>>
  ELSE <<Inst("LUI", <<Reg(rd), Imm(HI20(c))>>), RI("ADDI", rd, rd, LO12Sext(c))>>

\* b is register 0 where the pattern is the one of a comparison with zero.
SetCCMIs(rd, cc, a, b) ==
  LET not == RI("XORI", rd, rd, 1)
      less(op, x, y) == <<R3(op, rd, x, y)>>
      diff == IF b = 0 THEN <<>> ELSE <<R3("XOR", rd, a, b)>>
      d == IF b = 0 THEN a ELSE rd
  IN  CASE cc = "EQ"  -> Append(diff, RI("SLTIU", rd, d, 1))
        [] cc = "NE"  -> Append(diff, R3("SLTU", rd, 0, d))
        [] cc = "LT"  -> less("SLT", a, b)   [] cc = "ULT" -> less("SLTU", a, b)
        [] cc = "GT"  -> less("SLT", b, a)   [] cc = "UGT" -> less("SLTU", b, a)
        [] cc = "GE"  -> Append(less("SLT", a, b), not)
        [] cc = "UGE" -> Append(less("SLTU", a, b), not)
        [] cc = "LE"  -> Append(less("SLT", b, a), not)
        [] cc = "ULE" -> Append(less("SLTU", b, a), not)

Swapped == [GT |-> "LT", LE |-> "GE", UGT |-> "ULT", ULE |-> "UGE"]
BranchOpcode == [EQ |-> "BEQ", NE |-> "BNE", LT |-> "BLT", GE |-> "BGE",
                 ULT |-> "BLTU", UGE |-> "BGEU"]

\* normaliseSetCC, and the brcond patterns, which swap likewise.
BranchMI(cc, a, b, target) ==
  IF cc \in DOMAIN Swapped
    THEN Inst(BranchOpcode[Swapped[cc]], <<Reg(b), Reg(a), Sym(target)>>)
    ELSE Inst(BranchOpcode[cc], <<Reg(a), Reg(b), Sym(target)>>)

\* copyPhysReg; a copy to itself is removed by the allocator.
Copy(rd, rs) == IF rd = rs THEN <<>> ELSE <<RI("ADDI", rd, rs, 0)>>

CallMIs(call, args, rd) ==
  FlattenSeq([i \in DOMAIN args |-> Copy(ArgReg(i), args[i])])
    \o <<call>> \o Copy(rd, ArgReg(1))

OpMIs(o) ==
  CASE o[1] = "const" -> ConstantMIs(o[2], o[3])
    [] o[1] = "addc"  -> <<RI("ADDI", o[2], o[3], o[4])>>
    [] o[1] = "bin"   -> <<R3(o[2], o[3], o[4], o[5])>>
    [] o[1] = "shc"   -> <<RI([SLL |-> "SLLI", SRL |-> "SRLI", SRA |-> "SRAI"][o[2]],
                              o[3], o[4], o[5])>>
    [] o[1] = "setcc" -> SetCCMIs(o[2], o[3], o[4], o[5])
    [] o[1] \in {"load", "store"} ->
         <<Inst(o[2], <<Reg(o[3]), <<"fi", o[4]>>, Imm(o[5])>>)>>
    [] o[1] = "call"  -> CallMIs(Inst("PseudoCALL", <<Sym(o[2])>>), o[3], o[4])
    [] o[1] = "calli" -> CallMIs(Inst("PseudoCALLIndirect", <<Reg(o[2])>>), o[3], o[4])

\* The symbol of the j-th block made of block b.
Label(f, b, j) == ToString(<<f, b, j>>)

BlockOf(f, b, j) == [name |-> Label(f, b, j), mis |-> <<>>, pad |-> 0, data |-> <<>>]

\* Append to the last block of a sequence.
Extend(bs, mis) == [bs EXCEPT ![Len(bs)].mis = @ \o mis]

\* EmitInstrWithCustomInserter: head, the block for false, tail; the PHI is
\* two copies.
SelectInserter(f, b, bs, o) ==
  LET n == Len(bs)
      tail == Label(f, b, n + 1)
  IN  Extend(bs, Copy(o[2], o[6]) \o <<BranchMI(o[3], o[4], o[5], tail)>>)
        \o <<[BlockOf(f, b, n) EXCEPT !.mis = Copy(o[2], o[7])], BlockOf(f, b, n + 1)>>

TermMIs(f, b, term) ==
  LET goto(c) == IF c = b + 1 THEN <<>>
                 ELSE <<Inst("PseudoBR", <<Sym(Label(f, c, 0))>>)>>
  IN  CASE term[1] = "ret" -> Append(Copy(ArgReg(1), term[2]), Inst("PseudoRET", <<>>))
        [] term[1] = "br"  -> goto(term[2])
        [] term[1] = "condbr" ->
             <<BranchMI(term[2], term[3], term[4], Label(f, term[5], 0))>> \o goto(term[6])
        [] term[1] = "condbrv" ->
             <<Inst("BNE", <<Reg(term[2]), Reg(0), Sym(Label(f, term[3], 0))>>)>> \o goto(term[4])

SelectBlock(f, b) ==
  LET src == prog.funcs[f].blocks[b]
      body == FoldLeft(LAMBDA bs, o : IF o[1] = "select" THEN SelectInserter(f, b, bs, o)
                                      ELSE Extend(bs, OpMIs(o)),
                       <<BlockOf(f, b, 0)>>, src.ops)
      bs == Extend(body, TermMIs(f, b, src.term))
  IN  [bs EXCEPT ![Len(bs)].pad = src.pad, ![Len(bs)].data = src.data]

\* More arguments than registers, or a variadic call, is a fatal error.
CallLowered(o) == o[1] \in {"call", "calli"} => Len(o[3]) <= 8
Lowered(f) ==
  /\ prog.funcs[f].args <= 8
  /\ \A b \in DOMAIN prog.funcs[f].blocks :
       \A k \in DOMAIN prog.funcs[f].blocks[b].ops : CallLowered(prog.funcs[f].blocks[b].ops[k])

Select ==
  /\ phase = "isel"
  /\ IF \A f \in Functions : Lowered(f)
       THEN /\ code' = [f \in Functions |->
                          FlattenSeq([b \in DOMAIN prog.funcs[f].blocks |-> SelectBlock(f, b)])]
            /\ phase' = "layout"
       ELSE /\ code' = code
            /\ phase' = "rejected"
  /\ UNCHANGED <<prog, route, machine>>

(***************************************************************************)
(* The branch hooks of RiscvToyInstrInfo.                                  *)
(***************************************************************************)
Terminators == Branches \cup {"PseudoBR", "PseudoRET"}

Terms(mis) == LET n == Cardinality({k \in DOMAIN mis : \A j \in k .. Len(mis) :
                                                          mis[j].op \in Terminators})
              IN  SubSeq(mis, Len(mis) - n + 1, Len(mis))

DestBlock(mi) == mi.args[Len(mi.args)][2]
ParseCondBranch(mi) == <<mi.op, mi.args[1], mi.args[2]>>

\* fail, TBB, FBB and Cond; "" is no block and <<>> no condition.
AnalyzeBranch(mis) ==
  LET t == Terms(mis)
      res(fail, tbb, fbb, cond) == [fail |-> fail, tbb |-> tbb, fbb |-> fbb, cond |-> cond]
  IN  CASE Len(t) = 0 -> res(FALSE, "", "", <<>>)
        [] Len(t) = 1 /\ t[1].op = "PseudoBR" -> res(FALSE, DestBlock(t[1]), "", <<>>)
        [] Len(t) = 1 /\ t[1].op \in Branches ->
             res(FALSE, DestBlock(t[1]), "", ParseCondBranch(t[1]))
        [] Len(t) = 2 /\ t[1].op \in Branches /\ t[2].op = "PseudoBR" ->
             res(FALSE, DestBlock(t[1]), DestBlock(t[2]), ParseCondBranch(t[1]))
        [] OTHER -> res(TRUE, "", "", <<>>)

\* At most two branches at the end are erased.
RemoveBranch(mis) ==
  LET isBranch(k) == k >= 1 /\ mis[k].op \in Branches \cup {"PseudoBR"}
      n == Len(mis)
      removed == IF ~isBranch(n) THEN 0 ELSE IF isBranch(n - 1) THEN 2 ELSE 1
  IN  SubSeq(mis, 1, n - removed)

InsertBranch(mis, tbb, fbb, cond) ==
  LET br(b) == Inst("PseudoBR", <<Sym(b)>>)
  IN  IF cond = <<>> THEN Append(mis, br(tbb))
      ELSE Append(mis, Inst(cond[1], <<cond[2], cond[3], Sym(tbb)>>))
             \o (IF fbb = "" THEN <<>> ELSE <<br(fbb)>>)

OppositeBranch == [BEQ |-> "BNE", BNE |-> "BEQ", BLT |-> "BGE", BGE |-> "BLT",
                   BLTU |-> "BGEU", BGEU |-> "BLTU"]
ReverseBranchCondition(cond) == [cond EXCEPT ![1] = OppositeBranch[@]]

\* MachineBasicBlock::updateTerminator (external): before was the block's
\* successor in the old layout, after is the one in the new.
UpdateTerminator(mis, before, after) ==
  LET a == AnalyzeBranch(mis)
      other == IF a.fbb # "" THEN a.fbb ELSE before
      again(tbb, fbb, cond) == InsertBranch(RemoveBranch(mis), tbb, fbb, cond)
  IN  CASE a.fail -> mis
        [] ~a.fail /\ a.cond = <<>> /\ a.tbb # "" ->
             IF a.tbb = after THEN RemoveBranch(mis) ELSE mis
        [] ~a.fail /\ a.cond = <<>> /\ a.tbb = "" ->
             IF before = after THEN mis ELSE InsertBranch(mis, before, "", <<>>)
        [] OTHER ->
             IF a.tbb = after THEN again(other, "", ReverseBranchCondition(a.cond))
             ELSE IF other = after THEN again(a.tbb, "", a.cond)
             ELSE again(a.tbb, other, a.cond)

NameAt(bs, k) == IF k \in DOMAIN bs THEN bs[k].name ELSE ""

\* A pass (LLVM's, external) puts the blocks behind the entry into any order.
Permuted(bs, perm) ==
  [k \in DOMAIN bs |->
     [bs[perm[k]] EXCEPT !.mis = UpdateTerminator(@, NameAt(bs, perm[k] + 1),
                                   IF k < Len(bs) THEN bs[perm[k + 1]].name ELSE "")]]
Orders(n) == {p \in [1 .. n -> 1 .. n] : p[1] = 1 /\ \A i, j \in 1 .. n : i # j => p[i] # p[j]}

LayOut ==
  /\ phase = "layout"
  /\ LET g == prog.shuffled
     IN  \E perm \in Orders(Len(code[g])) : code' = [code EXCEPT ![g] = Permuted(@, perm)]
  /\ phase' = "pei"
  /\ UNCHANGED <<prog, route, machine>>

(***************************************************************************)
(* Frames.  LLVM's PrologEpilogInserter (external) gives the callee-saved  *)
(* registers the upper slots, the locals the slots below them.             *)
(***************************************************************************)
AlignTo(n, a) == ((n + a - 1) \div a) * a

SavedSeq(f) == FoldSet(LAMBDA x, s : Append(s, x), <<>>, prog.funcs[f].saved)
\* How far below the top of the frame an object starts.
SavedDepth(k) == 4 * k
LocalDepth(f, k) ==
  SavedDepth(Cardinality(prog.funcs[f].saved))
    + MapThenSumSet(LAMBDA i : AlignTo(prog.funcs[f].locals[i], 4), 1 .. k)
StackSize(f) == AlignTo(LocalDepth(f, Len(prog.funcs[f].locals)), 16)

\* adjustStackPointer: pieces of at most 2047.
AdjustStackPointer(amount, sign) ==
  [k \in 1 .. (amount + 2046) \div 2047 |->
     RI("ADDI", SP, SP, sign * (IF 2047 * k <= amount THEN 2047 ELSE amount % 2047))]

\* storeRegToStackSlot, loadRegFromStackSlot, resolved.
SpillMIs(f, op) ==
  [k \in DOMAIN SavedSeq(f) |-> RI(op, SavedSeq(f)[k], SP, StackSize(f) - SavedDepth(k))]

Prologue(f) == AdjustStackPointer(StackSize(f), -1) \o SpillMIs(f, "SW")
Epilogue(f) == SpillMIs(f, "LW") \o AdjustStackPointer(StackSize(f), 1)

EliminateFrameIndex(f, mi) ==
  IF Len(mi.args) = 3 /\ mi.args[2][1] = "fi"
    THEN RI(mi.op, mi.args[1][2], SP,
            StackSize(f) - LocalDepth(f, mi.args[2][2]) + mi.args[3][2])
    ELSE mi

FramedBlock(f, k, bs) ==
  LET mis == [j \in DOMAIN bs[k].mis |-> EliminateFrameIndex(f, bs[k].mis[j])]
      body == IF mis # <<>> /\ mis[Len(mis)].op = "PseudoRET"
                THEN Front(mis) \o Epilogue(f) \o <<Last(mis)>> ELSE mis
  IN  [bs[k] EXCEPT !.mis = IF k = 1 THEN Prologue(f) \o body ELSE body]

\* An offset that exceeds twelve bits is a fatal error.
OffsetsFit(f) ==
  /\ \A k \in DOMAIN SpillMIs(f, "SW") : IsInt(12, SpillMIs(f, "SW")[k].args[3][2])
  /\ \A k \in DOMAIN code[f] : \A j \in DOMAIN code[f][k].mis :
       LET mi == code[f][k].mis[j]
       IN  Len(mi.args) = 3 /\ mi.args[2][1] = "fi"
             => IsInt(12, EliminateFrameIndex(f, mi).args[3][2])

InsertFrames ==
  /\ phase = "pei"
  /\ IF \A f \in Functions : OffsetsFit(f)
       THEN /\ code' = [f \in Functions |->
                          [k \in DOMAIN code[f] |-> FramedBlock(f, k, code[f])]]
            /\ phase' = "emit"
       ELSE /\ code' = code
            /\ phase' = "rejected"
  /\ UNCHANGED <<prog, route, machine>>

(***************************************************************************)
(* Emission.  Blocks follow each other.  Behind one that returns there may *)
(* be words that are not run, whose first ones are its data.               *)
(***************************************************************************)
CodeBase == 4096
SizeOf(b) == 4 * (Len(b.mis) + b.pad)

\* The blocks in the order of the functions, their addresses, the symbols.
Layout ==
  LET bs == FlattenSeq([k \in DOMAIN prog.order |-> code[prog.order[k]]])
      at == FoldLeft(LAMBDA s, b : Append(s, Last(s) + SizeOf(b)), <<CodeBase>>, bs)
      labels == [s \in {bs[n].name : n \in DOMAIN bs} |->
                   at[CHOOSE n \in DOMAIN bs : bs[n].name = s]]
  IN  [blocks |-> bs, at |-> at,
       sym |-> [f \in Functions |-> labels[code[f][1].name]] @@ labels]

\* lowerMachineOperand keeps the operands; RET becomes JALR there.
EmitInstruction(mi) ==
  IF mi.op = "PseudoRET" THEN Inst("JALR", <<Reg(0), Reg(RA), Imm(0)>>) ELSE mi

Assembled(mi) ==
  IF route = "asm" THEN ParseInst(PrintInst(EmitInstruction(mi))) ELSE EmitInstruction(mi)

\* Where the linker (external) puts the bits of R_RISCV_JAL: bit k of the
\* field is bit ISAJ[k] of the offset.  Branches likewise.
ISAJ == <<12, 13, 14, 15, 16, 17, 18, 19, 11, 1, 2, 3, 4, 5, 6, 7, 8, 9, 10, 20>>
ISAB == <<11, 1, 2, 3, 4, 5, 6, 7, 8, 9, 10, 12>>
FieldOrder == [R_RISCV_JAL |-> ISAJ, R_RISCV_BRANCH |-> ISAB]
Gather(field, order) ==
  LET v == MapThenSumSet(LAMBDA k : Bits(field, k - 1, k - 1) * 2 ^ order[k], DOMAIN order)
  IN  SignExtend(v, Len(order) + 1)
Scatter(v, order) ==
  MapThenSumSet(LAMBDA k : Bits(v, order[k], order[k]) * 2 ^ (k - 1), DOMAIN order)

\* A call is a relocation, as the symbol may be preempted; a branch is not.
Fixed(lay, enc, addr) ==
  IF enc.fix.kind = "none" THEN enc.word
  ELSE LET v == lay.sym[enc.fix.sym] - addr
       IN  IF enc.fix.sym \in Functions
             THEN Upper(enc.word.op, enc.word.rd, Scatter(v, FieldOrder[RelocType(enc.fix.kind)]))
             ELSE ApplyFixup(enc.fix.kind, enc.word, v)

FixReported(lay, enc, addr) ==
  enc.fix.kind # "none" /\ ~FixupFits(enc.fix.kind, lay.sym[enc.fix.sym] - addr)

\* The words of block n, by their addresses.
BlockImage(lay, n) ==
  LET b == lay.blocks[n]
      start == lay.at[n]
      behind == start + 4 * Len(b.mis)
      index(base, a) == (a - base) \div 4 + 1
  IN  [a \in {start + 4 * (j - 1) : j \in DOMAIN b.mis} |->
         Fixed(lay, EncodeInstruction(Assembled(b.mis[index(start, a)])), a)]
        @@ [a \in {behind + 4 * (j - 1) : j \in DOMAIN b.data} |-> b.data[index(behind, a)]]

ErrorIn(lay, n) ==
  \E j \in DOMAIN lay.blocks[n].mis :
    LET i == Assembled(lay.blocks[n].mis[j])
    IN  IF i.op = "error" THEN TRUE
        ELSE FixReported(lay, EncodeInstruction(i), lay.at[n] + 4 * (j - 1))

Emit ==
  /\ phase = "emit"
  /\ LET lay == Layout
     IN  IF \E n \in DOMAIN lay.blocks : ErrorIn(lay, n)
           THEN phase' = "rejected" /\ UNCHANGED <<image, pc, regs>>
           ELSE /\ phase' = "run"
                /\ image' = FoldLeft(LAMBDA m, n : m @@ BlockImage(lay, n), <<>>,
                                     [n \in DOMAIN lay.blocks |-> n])
                /\ pc' = lay.sym[prog.order[1]]
                /\ regs' = IF prog.ptr = "" THEN regs
                           ELSE [regs EXCEPT ![ArgReg(8)] = lay.sym[prog.ptr]]
  /\ UNCHANGED <<prog, route, code, mem>>

(***************************************************************************)
(* The machine (external).  An interrupt at every instruction loses what   *)
(* is below sp.                                                            *)
(***************************************************************************)
StackTop == 2 ^ 18

Perform(w) ==
  LET a == regs[w.rs1]
      b == regs[w.rs2]
      imm == SImm12(w)
      next == pc + 4
      to(rd, v, p) == [ok |-> TRUE, pc |-> p, mem |-> mem,
                       regs |-> IF rd = 0 THEN regs ELSE [regs EXCEPT ![rd] = v]]
      fault == [ok |-> FALSE, pc |-> pc, mem |-> mem, regs |-> regs]
      bool(c) == IF c THEN 1 ELSE 0
      shamt(v) == v % 32
      reg(x) ==
        CASE w.f3 = 0 -> IF Bit30(w) /\ w.op = 51 THEN Arith("SUB", a, x) ELSE Arith("ADD", a, x)
          [] w.f3 = 1 -> Arith("SLL", a, shamt(x))
          [] w.f3 = 2 -> bool(a < x)
          [] w.f3 = 3 -> bool(Unsigned(a) < Unsigned(x))
          [] w.f3 = 4 -> Arith("XOR", a, x)
          [] w.f3 = 5 -> Arith(IF Bit30(w) THEN "SRA" ELSE "SRL", a, shamt(x))
          [] w.f3 = 6 -> Arith("OR", a, x)
          [] w.f3 = 7 -> Arith("AND", a, x)
      bytes(off) == [k \in 0 .. 3 |-> a + off + k]
      loads == 0 :> "LB" @@ 1 :> "LH" @@ 2 :> "LW" @@ 4 :> "LBU" @@ 5 :> "LHU"
      simm == SignExtend(w.f7 * 32 + w.rd, 12)
      taken == CASE w.f3 = 0 -> a = b [] w.f3 = 1 -> a # b
                 [] w.f3 = 4 -> a < b [] w.f3 = 5 -> a >= b
                 [] w.f3 = 6 -> Unsigned(a) < Unsigned(b)
                 [] w.f3 = 7 -> Unsigned(a) >= Unsigned(b)
  IN  CASE w.op = 51 -> to(w.rd, reg(b), next)
        [] w.op = 19 -> to(w.rd, reg(IF w.f3 \in {1, 5} THEN w.rs2 ELSE imm), next)
        [] w.op = 55 -> to(w.rd, Signed((ImmUpper(w) % 2 ^ (W - 12)) * 2 ^ 12), next)
        [] w.op = 3 ->
             LET op == loads[w.f3]
             IN  IF \A k \in 0 .. Bytes(op) - 1 : bytes(imm)[k] \in DOMAIN mem
                   THEN to(w.rd, Loaded(op, mem, bytes(imm)), next) ELSE fault
        [] w.op = 35 ->
             [to(0, 0, next) EXCEPT
                !.mem = Stored(<<"SB", "SH", "SW">>[w.f3 + 1], b, bytes(simm)) @@ mem]
        [] w.op = 103 -> to(w.rd, next, a + imm)
        [] w.op = 111 -> to(w.rd, next, pc + Gather(ImmUpper(w), ISAJ))
        [] w.op = 99 ->
             to(0, 0, IF taken THEN pc + Gather(w.f7 * 32 + w.rd, ISAB) ELSE next)

Step ==
  /\ phase = "run"
  /\ IF pc \notin DOMAIN image THEN phase' = "fault" /\ UNCHANGED <<pc, regs, mem>>
     ELSE LET s == Perform(image[pc])
          IN  /\ phase' = IF ~s.ok THEN "fault" ELSE IF s.pc = 0 THEN "done" ELSE "run"
              /\ pc' = s.pc
              /\ regs' = s.regs
              /\ mem' = [x \in {y \in DOMAIN s.mem : y >= s.regs[SP]} |-> s.mem[x]]
  /\ UNCHANGED <<prog, route, code, image>>

(***************************************************************************)
(* The caller of the first function: 0 is its return address, every other  *)
(* register holds something of its own, and so does its frame.             *)
(***************************************************************************)
InitRegs(args) ==
  [x \in 0 .. 31 |-> CASE x \in {0, RA} -> 0 [] x = SP -> StackTop
                       [] OTHER -> IF x - 9 \in DOMAIN args THEN args[x - 9] ELSE 1000 + x]
InitMem == [x \in StackTop .. StackTop + 7 |-> x % 256]

Init ==
  /\ prog \in Programs
  /\ route \in {"obj", "asm"}
  /\ phase = "isel"
  /\ code = <<>>
  /\ image = <<>>
  /\ pc = 0
  /\ regs = InitRegs(prog.args)
  /\ mem = InitMem

Next == Select \/ LayOut \/ InsertFrames \/ Emit \/ Step

Spec == Init /\ [][Next]_vars

(***************************************************************************)
(* Properties.                                                             *)
(***************************************************************************)

WordOK(w) ==
  /\ w.op \in 0 .. 127 /\ w.f7 \in 0 .. 127 /\ w.f3 \in 0 .. 7
  /\ {w.rd, w.rs1, w.rs2} \subseteq 0 .. 31

(* The compilation and the machine stay within their types: the phases of  *)
(* the pipeline, registers of W bits with x0 zero, whole words in image    *)
(* whose fields, those the fixups fill in included, have their widths.     *)
TypeOK ==
  /\ prog \in Programs /\ route \in {"obj", "asm"}
  /\ phase \in {"isel", "layout", "pei", "emit", "run", "done", "rejected", "fault"}
  /\ \A x \in 0 .. 31 : IsInt(W, regs[x])
  /\ regs[0] = 0
  /\ pc % 4 = 0 /\ \A a \in DOMAIN image : a % 4 = 0 /\ WordOK(image[a])
  /\ \A x \in DOMAIN mem : mem[x] \in 0 .. 255

\* A symbol the parser takes for a register (RiscvToyAsmParser.cpp:338).
NameIsRegister == \E f \in Functions : IsRegName(f)

BranchTooFar ==
  LET lay == Layout
  IN  \E n \in DOMAIN lay.blocks : \E j \in DOMAIN lay.blocks[n].mis :
        LET mi == lay.blocks[n].mis[j]
            away == lay.sym[DestBlock(mi)] - (lay.at[n] + 4 * (j - 1))
        IN  \/ mi.op \in Branches /\ away \notin -4096 .. 4094
            \/ mi.op = "PseudoBR" /\ away \notin -(2 ^ 20) .. 2 ^ 20 - 2

\* What the back end refuses, said of the program and of its layout.
MayBeRejected ==
  \/ \E f \in Functions : ~Lowered(f)
  \/ \E f \in Functions : StackSize(f) > 2048
  \/ code # <<>> /\ (BranchTooFar \/ (route = "asm" /\ NameIsRegister))

(* A program that is compiled, laid out, assembled and linked either is    *)
(* rejected for a reason of its own, or runs to the end and gives the      *)
(* result it has as written: the ten conditions and their swaps            *)
(* (normaliseSetCC, the setcc patterns), the inverted and inserted         *)
(* branches of any block order, constants in two parts, large frames,      *)
(* spills and calls; the stack pointer, the callee-saved registers and the *)
(* caller's memory are as they were.                                       *)
RunsAsWritten ==
  /\ phase # "fault"
  /\ phase = "rejected" => MayBeRejected
  /\ phase = "done" =>
       /\ regs[ArgReg(1)] = Meaning(prog.order[1], prog.args)
       /\ regs[SP] = StackTop
       /\ \A x \in CalleeSaved \ {RA} : regs[x] = InitRegs(prog.args)[x]
       /\ mem = InitMem

\* Words of which the disassembler ignores a part: funct7 of OP and of the
\* shifts (RiscvToyDisassembler.cpp:55, 130).
IgnoredFunct7(w) ==
  /\ w.op = 51 \/ (w.op = 19 /\ w.f3 \in {1, 5})
  /\ w.f7 \notin IF w.f3 = 5 \/ (w.op = 51 /\ w.f3 = 0) THEN {0, 32} ELSE {0}

Reassembles(i) ==
  LET back == ParseInst(PrintInst(i))
  IN  IF back.op = "error" THEN FALSE
      ELSE EncodeInstruction(back) = EncodeInstruction(i)

\* A symbol has no meaning to the disassembler: a fixed word has a number.
WordAgrees(w) ==
  LET i == GetInstruction(w)
  IN  i.op = "fail" \/ (EncodeInstruction(i).word = w /\ Reassembles(i))

(* The three tables of the instruction set agree: what the printer writes  *)
(* of an instruction the parser reads as that instruction, and a word that *)
(* the disassembler accepts is the encoding of what it shows, which        *)
(* assembles to the same word.  Parser, encoder and disassembler are       *)
(* written by hand, each with its own bit positions and ranges.            *)
TextAgrees ==
  /\ phase = "emit" =>
       \A f \in Functions : \A k \in DOMAIN code[f] : \A j \in DOMAIN code[f][k].mis :
         LET mi == EmitInstruction(code[f][k].mis[j])
         IN  Reassembles(mi) \/ (mi.op = "PseudoCALL" /\ IsRegName(DestBlock(mi)))
  /\ phase = "run" /\ pc = CodeBase =>
       \A a \in DOMAIN image : WordAgrees(image[a]) \/ IgnoredFunct7(image[a])
=============================================================================
