----------------------------- MODULE RiscvToyMC -----------------------------
(***************************************************************************)
(* The machine-code layer of the RiscvToy back end, as functions: the      *)
(* encoder, the fixups, the disassembler, the printer and the parser.      *)
(*                                                                         *)
(* An instruction is [op, args]; an argument is <<"reg", n>>, <<"imm", n>> *)
(* or <<"sym", s>>.  A machine word is its six fields of the R format; the *)
(* other formats spread an immediate over some of them.                    *)
(***************************************************************************)
EXTENDS Integers, Sequences, FiniteSets, TLC

Reg(n) == <<"reg", n>>
Imm(n) == <<"imm", n>>
Sym(s) == <<"sym", s>>
Inst(op, args) == [op |-> op, args |-> args]

Bits(v, hi, lo) == (v \div 2 ^ lo) % 2 ^ (hi - lo + 1)
SignExtend(v, bits) == IF v >= 2 ^ (bits - 1) THEN v - 2 ^ bits ELSE v
IsInt(bits, v) == v \in -(2 ^ (bits - 1)) .. 2 ^ (bits - 1) - 1

(***************************************************************************)
(* The instructions: format, opcode, funct3 and funct7.                    *)
(***************************************************************************)
Row(fmt, opcode, f3, f7) == [fmt |-> fmt, op |-> opcode, f3 |-> f3, f7 |-> f7]

Table ==
  [ADD  |-> Row("R", 51, 0, 0),  SUB  |-> Row("R", 51, 0, 32), SLL |-> Row("R", 51, 1, 0),
   SLT  |-> Row("R", 51, 2, 0),  SLTU |-> Row("R", 51, 3, 0),  XOR |-> Row("R", 51, 4, 0),
   SRL  |-> Row("R", 51, 5, 0),  SRA  |-> Row("R", 51, 5, 32), OR  |-> Row("R", 51, 6, 0),
   AND  |-> Row("R", 51, 7, 0),
   ADDI |-> Row("I", 19, 0, 0),  SLTI |-> Row("I", 19, 2, 0),  SLTIU |-> Row("I", 19, 3, 0),
   XORI |-> Row("I", 19, 4, 0),
   SLLI |-> Row("Sh", 19, 1, 0), SRLI |-> Row("Sh", 19, 5, 0), SRAI |-> Row("Sh", 19, 5, 32),
   LB   |-> Row("I", 3, 0, 0),   LH   |-> Row("I", 3, 1, 0),   LW  |-> Row("I", 3, 2, 0),
   LBU  |-> Row("I", 3, 4, 0),   LHU  |-> Row("I", 3, 5, 0),   JALR |-> Row("I", 103, 0, 0),
   SB   |-> Row("S", 35, 0, 0),  SH   |-> Row("S", 35, 1, 0),  SW  |-> Row("S", 35, 2, 0),
   BEQ  |-> Row("B", 99, 0, 0),  BNE  |-> Row("B", 99, 1, 0),  BLT |-> Row("B", 99, 4, 0),
   BGE  |-> Row("B", 99, 5, 0),  BLTU |-> Row("B", 99, 6, 0),  BGEU |-> Row("B", 99, 7, 0),
   LUI  |-> Row("U", 55, 0, 0),  JAL  |-> Row("J", 111, 0, 0)]

MemOps == {"LB", "LBU", "LH", "LHU", "LW", "SB", "SH", "SW", "JALR"}
Branches == {"BEQ", "BNE", "BLT", "BGE", "BLTU", "BGEU"}

(***************************************************************************)
(* The encoder.                                                            *)
(***************************************************************************)
Word(op, rd, f3, rs1, rs2, f7) ==
  [op |-> op, rd |-> rd, f3 |-> f3, rs1 |-> rs1, rs2 |-> rs2, f7 |-> f7]

\* Twenty bits above rd.
Upper(op, rd, imm20) ==
  Word(op, rd, Bits(imm20, 2, 0), Bits(imm20, 7, 3), Bits(imm20, 12, 8), Bits(imm20, 19, 13))
ImmUpper(w) == w.f7 * 2 ^ 13 + w.rs2 * 2 ^ 8 + w.rs1 * 8 + w.f3

\* getBranchTargetOpValue: a number loses its lowest bit, a symbol is a fixup.
BranchTargetOpValue(arg) == IF arg[1] = "imm" THEN arg[2] \div 2 ELSE 0

BinaryCode(i) ==
  LET t == Table[i.op]
      a(k) == i.args[k][2]
  IN  CASE t.fmt = "R"  -> Word(t.op, a(1), t.f3, a(2), a(3), t.f7)
        [] t.fmt = "Sh" -> Word(t.op, a(1), t.f3, a(2), a(3), t.f7)
        [] t.fmt = "I"  -> Word(t.op, a(1), t.f3, a(2), Bits(a(3), 4, 0), Bits(a(3), 11, 5))
        [] t.fmt = "S"  -> Word(t.op, Bits(a(3), 4, 0), t.f3, a(2), a(1), Bits(a(3), 11, 5))
        [] t.fmt = "B"  -> LET v == BranchTargetOpValue(i.args[3])
                           IN  Word(t.op, Bits(v, 3, 0) * 2 + Bits(v, 10, 10), t.f3, a(1), a(2),
                                    Bits(v, 11, 11) * 64 + Bits(v, 9, 4))
        [] t.fmt = "U"  -> Upper(t.op, a(1), a(2))
        [] t.fmt = "J"  -> LET v == BranchTargetOpValue(i.args[2])
                           IN  Upper(t.op, a(1), Bits(v, 19, 19) * 2 ^ 19 + Bits(v, 9, 0) * 2 ^ 9
                                                 + Bits(v, 10, 10) * 2 ^ 8 + Bits(v, 18, 11))

\* encodeInstruction; X1 is ra.
ExpandPseudo(i) ==
  CASE i.op = "PseudoBR"           -> Inst("JAL", <<Reg(0), i.args[1]>>)
    [] i.op = "PseudoCALL"         -> Inst("JAL", <<Reg(1), i.args[1]>>)
    [] i.op = "PseudoCALLIndirect" -> Inst("JALR", <<Reg(1), i.args[1], Imm(0)>>)
    [] i.op = "PseudoRET"          -> Inst("JALR", <<Reg(0), Reg(1), Imm(0)>>)
    [] OTHER -> i

\* What the instruction leaves to be fixed: the last operand of B and J.
FixupOf(i) ==
  LET target == i.args[Len(i.args)]
  IN  IF target[1] # "sym" THEN [kind |-> "none"]
      ELSE [kind |-> IF i.op = "JAL" THEN "jal" ELSE "branch", sym |-> target[2]]

EncodeInstruction(i) ==
  LET e == ExpandPseudo(i) IN [word |-> BinaryCode(e), fix |-> FixupOf(e)]

(***************************************************************************)
(* Fixups.  Out of range or odd, an error is reported.  The bits are ored  *)
(* into a field that is zero.                                              *)
(***************************************************************************)
\* Mutant: the range of a branch is that of a 14-bit offset.
FixupFitsWide(kind, v) ==
  v % 2 = 0 /\ (CASE kind = "branch" -> IsInt(14, v) [] kind = "jal" -> IsInt(21, v))

FixupFits(kind, v) ==
  v % 2 = 0 /\ (CASE kind = "branch" -> IsInt(13, v) [] kind = "jal" -> IsInt(21, v))

\* Mutant: the sign of a branch offset is not masked off its upper part.
ApplyFixupUnmasked(kind, w, v) ==
  CASE kind = "branch" ->
         [w EXCEPT !.f7 = @ + Bits(v, 12, 12) * 64 + v \div 32,
                   !.rd = @ + Bits(v, 4, 1) * 2 + Bits(v, 11, 11)]
    [] kind = "jal" ->
         Upper(w.op, w.rd, ImmUpper(w) + Bits(v, 20, 20) * 2 ^ 19 + Bits(v, 10, 1) * 2 ^ 9
                           + Bits(v, 11, 11) * 2 ^ 8 + Bits(v, 19, 12))

ApplyFixup(kind, w, v) ==
  CASE kind = "branch" ->
         [w EXCEPT !.f7 = @ + Bits(v, 12, 12) * 64 + Bits(v, 10, 5),
                   !.rd = @ + Bits(v, 4, 1) * 2 + Bits(v, 11, 11)]
    [] kind = "jal" ->
         Upper(w.op, w.rd, ImmUpper(w) + Bits(v, 20, 20) * 2 ^ 19 + Bits(v, 10, 1) * 2 ^ 9
                           + Bits(v, 11, 11) * 2 ^ 8 + Bits(v, 19, 12))

RelocType(kind) == [branch |-> "R_RISCV_BRANCH", jal |-> "R_RISCV_JAL"][kind]

(***************************************************************************)
(* The disassembler; Fail where it fails.                                  *)
(***************************************************************************)
Fail == Inst("fail", <<>>)

SImm12(w) == SignExtend(w.f7 * 32 + w.rs2, 12)
Bit30(w) == Bits(w.f7, 5, 5) = 1

RInst(op, w) == Inst(op, <<Reg(w.rd), Reg(w.rs1), Reg(w.rs2)>>)
IInst(op, w) == Inst(op, <<Reg(w.rd), Reg(w.rs1), Imm(SImm12(w))>>)

\* Only bit 30 of funct7 is looked at, and only for SUB and SRA.
DecodeRType(w) ==
  RInst(CASE w.f3 = 0 -> IF Bit30(w) THEN "SUB" ELSE "ADD"
          [] w.f3 = 1 -> "SLL" [] w.f3 = 2 -> "SLT" [] w.f3 = 3 -> "SLTU"
          [] w.f3 = 4 -> "XOR"
          [] w.f3 = 5 -> IF Bit30(w) THEN "SRA" ELSE "SRL"
          [] w.f3 = 6 -> "OR"  [] w.f3 = 7 -> "AND", w)

DecodeIType(w) ==
  LET ops == 0 :> "ADDI" @@ 2 :> "SLTI" @@ 3 :> "SLTIU" @@ 4 :> "XORI"
  IN  IF w.f3 \in DOMAIN ops THEN IInst(ops[w.f3], w) ELSE Fail

DecodeShiftImmediate(w) ==
  IF w.f3 = 1 /\ Bit30(w) THEN Fail
  ELSE Inst(IF w.f3 = 1 THEN "SLLI" ELSE IF Bit30(w) THEN "SRAI" ELSE "SRLI",
            <<Reg(w.rd), Reg(w.rs1), Imm(w.rs2)>>)

DecodeLoad(w) ==
  LET ops == 0 :> "LB" @@ 1 :> "LH" @@ 2 :> "LW" @@ 4 :> "LBU" @@ 5 :> "LHU"
  IN  IF w.f3 \in DOMAIN ops THEN IInst(ops[w.f3], w) ELSE Fail

DecodeLUI(w) == Inst("LUI", <<Reg(w.rd), Imm(ImmUpper(w))>>)

DecodeStore(w) ==
  LET ops == <<"SB", "SH", "SW">>
  IN  IF w.f3 + 1 \in DOMAIN ops
        THEN Inst(ops[w.f3 + 1], <<Reg(w.rs2), Reg(w.rs1), Imm(SignExtend(w.f7 * 32 + w.rd, 12))>>)
        ELSE Fail

DecodeJALR(w) == IF w.f3 = 0 THEN IInst("JALR", w) ELSE Fail

DecodeBranch(w) ==
  LET ops == 0 :> "BEQ" @@ 1 :> "BNE" @@ 4 :> "BLT" @@ 5 :> "BGE" @@ 6 :> "BLTU" @@ 7 :> "BGEU"
      v == Bits(w.f7, 6, 6) * 2 ^ 12 + Bits(w.rd, 0, 0) * 2 ^ 11
           + Bits(w.f7, 5, 0) * 2 ^ 5 + Bits(w.rd, 4, 1) * 2
  IN  IF w.f3 \in DOMAIN ops
        THEN Inst(ops[w.f3], <<Reg(w.rs1), Reg(w.rs2), Imm(SignExtend(v, 13))>>)
        ELSE Fail

\* Mutant: bit 11 of the offset is read from the place of bit 12.
DecodeJALSwapped(w) ==
  LET u == ImmUpper(w)
      v == Bits(u, 8, 8) * 2 ^ 20 + Bits(u, 18, 9) * 2 + Bits(u, 19, 19) * 2 ^ 11
           + Bits(u, 7, 0) * 2 ^ 12
  IN  Inst("JAL", <<Reg(w.rd), Imm(SignExtend(v, 21))>>)

DecodeJAL(w) ==
  LET u == ImmUpper(w)
      v == Bits(u, 19, 19) * 2 ^ 20 + Bits(u, 18, 9) * 2 + Bits(u, 8, 8) * 2 ^ 11
           + Bits(u, 7, 0) * 2 ^ 12
  IN  Inst("JAL", <<Reg(w.rd), Imm(SignExtend(v, 21))>>)

GetInstruction(w) ==
  CASE w.op = 55  -> DecodeLUI(w)
    [] w.op = 51  -> DecodeRType(w)
    [] w.op = 19  -> IF w.f3 \in {1, 5} THEN DecodeShiftImmediate(w) ELSE DecodeIType(w)
    [] w.op = 3   -> DecodeLoad(w)
    [] w.op = 35  -> DecodeStore(w)
    [] w.op = 103 -> DecodeJALR(w)
    [] w.op = 99  -> DecodeBranch(w)
    [] w.op = 111 -> DecodeJAL(w)
    [] OTHER -> Fail

(***************************************************************************)
(* The printer: a mnemonic and its operands, <<"id", name>>, <<"int", n>>  *)
(* or <<"mem", n, name>>.                                                  *)
(***************************************************************************)
RegAltName == <<"zero", "ra", "sp", "gp", "tp", "t0", "t1", "t2", "s0", "s1", "a0", "a1",
  "a2", "a3", "a4", "a5", "a6", "a7", "s2", "s3", "s4", "s5", "s6", "s7", "s8", "s9",
  "s10", "s11", "t3", "t4", "t5", "t6">>

Mnemonic == [ADD |-> "add", SUB |-> "sub", SLL |-> "sll", SLT |-> "slt", SLTU |-> "sltu",
  XOR |-> "xor", SRL |-> "srl", SRA |-> "sra", OR |-> "or", AND |-> "and", ADDI |-> "addi",
  SLTI |-> "slti", SLTIU |-> "sltiu", XORI |-> "xori", SLLI |-> "slli", SRLI |-> "srli",
  SRAI |-> "srai", LB |-> "lb", LH |-> "lh", LW |-> "lw", LBU |-> "lbu", LHU |-> "lhu",
  JALR |-> "jalr", SB |-> "sb", SH |-> "sh", SW |-> "sw", BEQ |-> "beq", BNE |-> "bne",
  BLT |-> "blt", BGE |-> "bge", BLTU |-> "bltu", BGEU |-> "bgeu", LUI |-> "lui",
  JAL |-> "jal", PseudoBR |-> "j", PseudoCALL |-> "call"]

PrintOperand(a) ==
  CASE a[1] = "reg" -> <<"id", RegAltName[a[2] + 1]>>
    [] a[1] = "imm" -> <<"int", a[2]>>
    [] a[1] = "sym" -> <<"id", a[2]>>

PrintMem(base, off) == <<"mem", off[2], RegAltName[base[2] + 1]>>

Text(m, operands) == [mnemonic |-> m, operands |-> operands]

IsRet(i) ==
  i.op = "PseudoRET" \/ (i.op = "JALR" /\ \A k \in 1 .. 3 : i.args[k][2] = <<0, 1, 0>>[k])

PrintInst(i) ==
  CASE IsRet(i) -> Text("ret", <<>>)
    [] i.op = "PseudoCALLIndirect" ->
         Text("jalr", <<<<"id", "ra">>, PrintMem(i.args[1], Imm(0))>>)
    [] i.op \in MemOps /\ ~IsRet(i) ->
         Text(Mnemonic[i.op], <<PrintOperand(i.args[1]), PrintMem(i.args[2], i.args[3])>>)
    [] OTHER -> Text(Mnemonic[i.op], [k \in DOMAIN i.args |-> PrintOperand(i.args[k])])

(***************************************************************************)
(* The parser; Error where it reports one.                                 *)
(***************************************************************************)
RegNames == <<{"x0", "zero"}, {"x1", "ra"}, {"x2", "sp"}, {"x3", "gp"}, {"x4", "tp"},
  {"x5", "t0"}, {"x6", "t1"}, {"x7", "t2"}, {"x8", "s0", "fp"}, {"x9", "s1"}, {"x10", "a0"},
  {"x11", "a1"}, {"x12", "a2"}, {"x13", "a3"}, {"x14", "a4"}, {"x15", "a5"}, {"x16", "a6"},
  {"x17", "a7"}, {"x18", "s2"}, {"x19", "s3"}, {"x20", "s4"}, {"x21", "s5"}, {"x22", "s6"},
  {"x23", "s7"}, {"x24", "s8"}, {"x25", "s9"}, {"x26", "s10"}, {"x27", "s11"}, {"x28", "t3"},
  {"x29", "t4"}, {"x30", "t5"}, {"x31", "t6"}>>

IsRegName(name) == \E r \in DOMAIN RegNames : name \in RegNames[r]
MatchRegisterName(name) == (CHOOSE r \in DOMAIN RegNames : name \in RegNames[r]) - 1

OpOfMnemonic(m) == CHOOSE op \in DOMAIN Mnemonic : Mnemonic[op] = m

\* parseOperand: with these mnemonics all but the first operand are memory.
ParseOperand(op, k, o) ==
  CASE op \in MemOps /\ k > 1 ->
         IF o[1] = "mem" THEN <<"mem", o[2], MatchRegisterName(o[3])>> ELSE <<"error">>
    [] o[1] = "id" /\ IsRegName(o[2]) -> Reg(MatchRegisterName(o[2]))
    [] o[1] = "id"  -> Sym(o[2])
    [] o[1] = "int" -> Imm(o[2])
    [] OTHER -> <<"error">>

InRange(a, lo, hi) == a[1] = "imm" /\ a[2] \in lo .. hi
BranchInRange(a, bits) ==
  a[1] = "sym" \/ (a[1] = "imm" /\ a[2] % 2 = 0 /\ IsInt(bits, a[2]))

\* What MatchAndEmitInstruction asks of the operands; call asks nothing.
OperandsMatch(op, a) ==
  LET regs(n) == Len(a) >= n /\ \A k \in 1 .. n : a[k][1] = "reg"
  IN  CASE op = "PseudoBR"   -> Len(a) >= 1 /\ BranchInRange(a[1], 21)
        [] op = "PseudoCALL" -> Len(a) >= 1 /\ a[1][1] \in {"imm", "sym"}
        [] op = "JAL"  -> Len(a) >= 2 /\ regs(1) /\ BranchInRange(a[2], 21)
        [] op = "LUI"  -> Len(a) >= 2 /\ regs(1) /\ InRange(a[2], 0, 2 ^ 20 - 1)
        [] op \in MemOps -> Len(a) >= 2 /\ regs(1) /\ a[2][2] \in -2048 .. 2047
        [] Table[op].fmt = "R"  -> regs(3)
        [] Table[op].fmt = "Sh" -> Len(a) >= 3 /\ regs(2) /\ InRange(a[3], 0, 31)
        [] Table[op].fmt = "I"  -> Len(a) >= 3 /\ regs(2) /\ InRange(a[3], -2048, 2047)
        [] Table[op].fmt = "B"  -> Len(a) >= 3 /\ regs(2) /\ BranchInRange(a[3], 13)

Error == Inst("error", <<>>)

ParseInst(text) ==
  IF text.mnemonic = "ret" THEN Inst("PseudoRET", <<>>)
  ELSE LET op == OpOfMnemonic(text.mnemonic)
           a == [k \in DOMAIN text.operands |-> ParseOperand(op, k, text.operands[k])]
       IN  IF (\E k \in DOMAIN a : a[k][1] = "error") \/ ~OperandsMatch(op, a) THEN Error
           ELSE IF op \in MemOps THEN Inst(op, <<a[1], Reg(a[2][3]), Imm(a[2][2])>>)
           ELSE Inst(op, a)
=============================================================================
