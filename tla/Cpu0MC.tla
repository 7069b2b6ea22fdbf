------------------------------- MODULE Cpu0MC -------------------------------
(***************************************************************************)
(* The machine-code layer of the Cpu0 back end, as functions: the tables   *)
(* that take a target flag to an expression kind, a fixup, a relocation    *)
(* and a name in the assembly text and back; the encoder and the           *)
(* disassembler; the instruction printer and the operand parser.           *)
(*                                                                         *)
(* An instruction is [op, args]; an argument is <<"reg", r>>, <<"imm", n>> *)
(* or <<"expr", kind, symbol>>, and <<"sym", flag, symbol>> before it is   *)
(* lowered.  An immediate field has H bits (16 in the code), the field of  *)
(* a jump J (24), a machine word twice H.                                  *)
(***************************************************************************)
EXTENDS Integers, Sequences, FiniteSets, SequencesExt

CONSTANT H

ASSUME HAssumption == H \in Nat /\ H >= 6 /\ H % 2 = 0

J == H + H \div 2

Low(v) == v % 2 ^ H
High(v) == (v \div 2 ^ H) % 2 ^ H
Machine(v) == v % 2 ^ (2 * H)
SignExtend(f, bits) == IF f >= 2 ^ (bits - 1) THEN f - 2 ^ bits ELSE f

Reg(r) == <<"reg", r>>
Imm(n) == <<"imm", n>>
Sym(flag, s) == <<"sym", flag, s>>
Expr(kind, s) == <<"expr", kind, s>>
Inst(op, args) == [op |-> op, args |-> args]

(***************************************************************************)
(* Registers: their encoding, the table of the disassembler, the order of  *)
(* their class, which the parser uses for a number, and their names.       *)
(***************************************************************************)
Encoding == [ZERO |-> 0, AT |-> 1, V0 |-> 2, V1 |-> 3, A0 |-> 4, A1 |-> 5,
             T9 |-> 6, T0 |-> 7, T1 |-> 8, S0 |-> 9, S1 |-> 10, GP |-> 11,
             FP |-> 12, SP |-> 13, LR |-> 14, SW |-> 15]

CPURegsTable == <<"ZERO", "AT", "V0", "V1", "A0", "A1", "T9", "T0", "T1",
                  "S0", "S1", "GP", "FP", "SP", "LR", "SW">>

CPURegs == <<"ZERO", "AT", "V0", "V1", "A0", "A1", "T9", "T0", "T1",
             "S0", "S1", "GP", "FP", "SP", "LR", "SW">>

\* What printRegName writes behind the $: an identifier or an integer.
RegName ==
  LET named == [ZERO |-> "zero", T9 |-> "t9", GP |-> "gp", FP |-> "fp",
                SP |-> "sp", LR |-> "lr", SW |-> "sw"]
  IN [r \in DOMAIN Encoding |->
        IF r \in DOMAIN named THEN <<"id", named[r]>> ELSE <<"int", Encoding[r]>>]

\* matchRegisterName; pc, hi, lo and epc are no operand of what is modelled.
RegOfName == [zero |-> "ZERO", at |-> "AT", v0 |-> "V0", v1 |-> "V1",
              a0 |-> "A0", a1 |-> "A1", t9 |-> "T9", t0 |-> "T0", t1 |-> "T1",
              s0 |-> "S0", s1 |-> "S1", sw |-> "SW", gp |-> "GP", fp |-> "FP",
              sp |-> "SP", lr |-> "LR"]

(***************************************************************************)
(* From the flag of a machine operand to a relocation.                     *)
(***************************************************************************)
TargetKind == [MO_NO_FLAG |-> "CEK_None", MO_GPREL |-> "CEK_GPREL",
  MO_GOT_CALL |-> "CEK_GOT_CALL", MO_GOT |-> "CEK_GOT",
  MO_ABS_HI |-> "CEK_ABS_HI", MO_ABS_LO |-> "CEK_ABS_LO",
  MO_TLSGD |-> "CEK_TLSGD", MO_TLSLDM |-> "CEK_TLSLDM",
  MO_DTP_HI |-> "CEK_DTP_HI", MO_DTP_LO |-> "CEK_DTP_LO",
  MO_GOTTPREL |-> "CEK_GOTTPREL", MO_TP_HI |-> "CEK_TP_HI",
  MO_TP_LO |-> "CEK_TP_LO", MO_GOT_HI16 |-> "CEK_GOT_HI16",
  MO_GOT_LO16 |-> "CEK_GOT_LO16"]

FixupKind == [CEK_GPREL |-> "GPREL16", CEK_GOT_CALL |-> "CALL16",
  CEK_GOT |-> "GOT", CEK_ABS_HI |-> "HI16", CEK_ABS_LO |-> "LO16",
  CEK_TLSGD |-> "TLSGD", CEK_TLSLDM |-> "TLSLDM", CEK_DTP_HI |-> "DTP_HI",
  CEK_DTP_LO |-> "DTP_LO", CEK_GOTTPREL |-> "GOTTPREL", CEK_TP_HI |-> "TP_HI",
  CEK_TP_LO |-> "TP_LO", CEK_GOT_HI16 |-> "GOT_HI16", CEK_GOT_LO16 |-> "GOT_LO16"]

RelocTypes == [FK_Data_4 |-> "R_CPU0_32", FK_GPRel_4 |-> "R_CPU0_GPREL32",
  GPREL16 |-> "R_CPU0_GPREL16", CALL16 |-> "R_CPU0_CALL16", GOT |-> "R_CPU0_GOT16",
  HI16 |-> "R_CPU0_HI16", LO16 |-> "R_CPU0_LO16", TLSGD |-> "R_CPU0_TLS_GD",
  GOTTPREL |-> "R_CPU0_TLS_GOTTPREL", PC16 |-> "R_CPU0_PC16", PC24 |-> "R_CPU0_PC24",
  TP_HI |-> "R_CPU0_TLS_TP_HI16", TP_LO |-> "R_CPU0_TLS_TP_LO16",
  TLSLDM |-> "R_CPU0_TLS_LDM", DTP_HI |-> "R_CPU0_TLS_DTP_HI16",
  DTP_LO |-> "R_CPU0_TLS_DTP_LO16", GOT_HI16 |-> "R_CPU0_GOT_HI16",
  GOT_LO16 |-> "R_CPU0_GOT_LO16"]

\* Mutant: the types of the two halves of a TLS offset are exchanged.
GetRelocTypeSwapped(kind) ==
  CASE kind = "DTP_HI" -> "R_CPU0_TLS_DTP_LO16" [] kind = "DTP_LO" -> "R_CPU0_TLS_DTP_HI16"
    [] OTHER -> RelocTypes[kind]

GetRelocType(kind) == RelocTypes[kind]

\* Cpu0MCExpr::printImpl, and the names evaluateRelocExpr knows.
ExprName == [CEK_DTP_HI |-> "dtp_hi", CEK_DTP_LO |-> "dtp_lo", CEK_GOT |-> "got",
  CEK_GOTTPREL |-> "gottprel", CEK_GOT_CALL |-> "call16", CEK_GOT_HI16 |-> "got_hi",
  CEK_GOT_LO16 |-> "got_lo", CEK_GPREL |-> "gp_rel", CEK_ABS_HI |-> "hi",
  CEK_ABS_LO |-> "lo", CEK_TLSGD |-> "tlsgd", CEK_TLSLDM |-> "tlsldm",
  CEK_TP_HI |-> "tp_hi", CEK_TP_LO |-> "tp_lo"]

KindOfName == [call16 |-> "CEK_GOT_CALL", call_hi |-> "CEK_CALL_HI16",
  call_lo |-> "CEK_CALL_LO16", dtp_hi |-> "CEK_DTP_HI", dtp_lo |-> "CEK_DTP_LO",
  got |-> "CEK_GOT", got_hi |-> "CEK_GOT_HI16", got_lo |-> "CEK_GOT_LO16",
  gottprel |-> "CEK_GOTTPREL", gp_rel |-> "CEK_GPREL", hi |-> "CEK_ABS_HI",
  lo |-> "CEK_ABS_LO", tlsgd |-> "CEK_TLSGD", tlsldm |-> "CEK_TLSLDM",
  tp_hi |-> "CEK_TP_HI", tp_lo |-> "CEK_TP_LO"]

\* LowerSymbolOperand, on every operand of an instruction.
LowerOperands(i) ==
  Inst(i.op, [k \in DOMAIN i.args |->
                IF i.args[k][1] = "sym"
                  THEN Expr(TargetKind[i.args[k][2]], i.args[k][3])
                  ELSE i.args[k]])

(***************************************************************************)
(* The forms of the instructions, by what their operands are.              *)
(***************************************************************************)
Form(op) ==
  CASE op \in {"ADDu", "SUBu", "ADD", "XOR", "SLT", "SHLV", "CMP"} -> "regs"
    [] op \in {"ADDiu", "SLTi"}         -> "simm16"
    [] op \in {"ANDi", "ORi", "XORi"}   -> "uimm16"
    [] op = "LUi"                       -> "upper"
    [] op \in {"SHL", "SRA"}            -> "shamt"
    [] op \in {"LD", "ST"}  -> "mem"
    [] op \in {"BEQ", "BNE"}            -> "brtarget16"
    [] op \in {"JEQ", "JNE", "JLT"}     -> "brtarget24"
    [] op \in {"JMP", "BAL"}            -> "jmptarget"
    [] op = "JSUB"                      -> "calltarget"
    [] op \in {"JR", "RET"}             -> "jumpFR"
    [] op = "JALR"                      -> "jumpLinkReg"
    [] op \in {"WORD", "GPWORD"}        -> "data"

Targets == {"brtarget16", "brtarget24", "jmptarget", "calltarget"}

(***************************************************************************)
(* The encoder.  A word is its opcode, four bits each for ra, rb and rc,   *)
(* and what stands below them, 0 where the form fixes it.  RET has the     *)
(* opcode of JR.                                                           *)
(***************************************************************************)
Word(op, ra, rb, rc, field) ==
  [op |-> op, ra |-> ra, rb |-> rb, rc |-> rc, field |-> field]

\* getMachineOpValue: a register's number, an immediate, 0 for an expression.
MachineOpValue(a) ==
  CASE a[1] = "reg" -> Encoding[a[2]] [] a[1] = "imm" -> a[2] [] OTHER -> 0

\* getMemEncoding
EncodeMem(i) ==
  Word(i.op, MachineOpValue(i.args[1]), MachineOpValue(i.args[2]), 0,
       Low(MachineOpValue(i.args[3])))

Encode(i) ==
  LET v(k) == MachineOpValue(i.args[k])
      form == Form(i.op)
  IN CASE form = "regs"        -> Word(i.op, v(1), v(2), v(3), 0)
       [] form \in {"simm16", "uimm16", "brtarget16"} -> Word(i.op, v(1), v(2), 0, Low(v(3)))
       [] form = "upper"       -> Word(i.op, v(1), 0, 0, Low(v(2)))
       [] form = "shamt"       -> Word(i.op, v(1), v(2), 0, v(3))
       [] form = "mem"         -> EncodeMem(i)
       [] form = "brtarget24"  -> Word(i.op, 0, 0, 0, v(2) % 2 ^ J)
       [] form \in {"jmptarget", "calltarget"} -> Word(i.op, 0, 0, 0, v(1) % 2 ^ J)
       [] form = "jumpFR"      -> Word("JR", v(1), 0, 0, 0)
       [] form = "jumpLinkReg" -> Word(i.op, Encoding["LR"], v(1), 0, 0)
       [] form = "data"        -> Word(i.op, 0, 0, 0, Machine(v(1)))

\* The fixups an instruction's operands record, as a set of at most one.  A
\* symbol without a kind in an operand that is no target records none.
Fixups(i) ==
  LET exprs == {k \in DOMAIN i.args : i.args[k][1] = "expr"}
      form  == Form(i.op)
      kind(k) == CASE form = "brtarget16"        -> {"PC16"}
                   [] form \in Targets           -> {"PC24"}
                   [] i.op = "WORD"              -> {"FK_Data_4"}
                   [] i.op = "GPWORD"            -> {"FK_GPRel_4"}
                   [] i.args[k][2] \in DOMAIN FixupKind -> {FixupKind[i.args[k][2]]}
                   [] OTHER                      -> {}
  IN UNION {{[kind |-> f, sym |-> i.args[k][3]] : f \in kind(k)} : k \in exprs}

(***************************************************************************)
(* The disassembler.                                                       *)
(***************************************************************************)
RegAt(n) == Reg(CPURegsTable[n + 1])

\* DecodeBranch16Target and DecodeBranch24Target: 0x8fff and 0x8fffff.
SignLimit(bits) == 2 ^ (bits - 1) + 2 ^ (bits - 4) - 1

\* Mutant: the sign is not extended.
DecodeBranchUnsigned(field, bits) == field

DecodeBranch(field, bits) ==
  IF field > SignLimit(bits) THEN -(2 ^ bits - field) ELSE field

DecodeJumpFR(w) ==
  Inst(IF CPURegsTable[w.ra + 1] = "LR" THEN "RET" ELSE "JR", <<RegAt(w.ra)>>)

Decode(w) ==
  LET form == Form(w.op)
      rrr(last) == Inst(w.op, <<RegAt(w.ra), RegAt(w.rb), last>>)
  IN CASE form = "regs"        -> rrr(RegAt(w.rc))
       [] form \in {"simm16", "mem"} -> rrr(Imm(SignExtend(w.field, H)))
       [] form \in {"uimm16", "shamt"} -> rrr(Imm(w.field))
       [] form = "upper"       -> Inst(w.op, <<RegAt(w.ra), Imm(w.field)>>)
       [] form = "brtarget16"  -> rrr(Imm(DecodeBranch(w.field, H)))
       [] form = "brtarget24"  -> Inst(w.op, <<Reg("SW"), Imm(DecodeBranch(w.field, J))>>)
       [] form \in {"jmptarget", "calltarget"} -> Inst(w.op, <<Imm(w.field)>>)
       [] form = "jumpFR"      -> DecodeJumpFR(w)
       [] form = "jumpLinkReg" -> Inst(w.op, <<RegAt(w.rb)>>)

(***************************************************************************)
(* The printer.  A line is a mnemonic and its operands between commas,     *)
(* each a sequence of tokens.                                              *)
(***************************************************************************)
Punct(c) == <<"punct", c>>

\* Labels of blocks and tables begin with $.
SymTokens(s) == IF s = "$label" THEN <<Punct("$"), <<"id", s>>>> ELSE <<<<"id", s>>>>

PrintImm(n) == IF n < 0 THEN <<Punct("-"), <<"int", -n>>>> ELSE <<<<"int", n>>>>

PrintOperand(a) ==
  CASE a[1] = "reg" -> <<Punct("$"), RegName[a[2]]>>
    [] a[1] = "imm" -> PrintImm(a[2])
    [] a[1] = "expr" /\ a[2] = "CEK_None" -> SymTokens(a[3])
    [] a[1] = "expr" /\ a[2] # "CEK_None" ->
         <<Punct("%"), <<"id", ExprName[a[2]]>>, Punct("(")>> \o SymTokens(a[3]) \o <<Punct(")")>>

\* printUnsignedImm
PrintUnsigned(a) == IF a[1] = "imm" THEN PrintImm(Low(a[2])) ELSE PrintOperand(a)

\* ADDu with $zero is printed as move, and printMemOperand joins two operands.
PrintInst(i) ==
  LET form == Form(i.op)
      p(k) == PrintOperand(i.args[k])
  IN CASE i.op = "ADDu" /\ i.args[3] = Reg("ZERO") -> <<"move", <<p(1), p(2)>>>>
       [] form = "mem" -> <<i.op, <<p(1), p(3) \o <<Punct("(")>> \o p(2) \o <<Punct(")")>>>>>>
       [] form = "uimm16" -> <<i.op, <<p(1), p(2), PrintUnsigned(i.args[3])>>>>
       [] form = "upper"  -> <<i.op, <<p(1), PrintUnsigned(i.args[2])>>>>
       [] form \notin {"mem", "uimm16", "upper"}
          /\ ~(i.op = "ADDu" /\ i.args[3] = Reg("ZERO"))
            -> <<i.op, [k \in DOMAIN i.args |-> p(k)]>>

(***************************************************************************)
(* The parser.  What is parsed is an operand and the tokens behind it;     *)
(* Bad stands for an error.                                                *)
(***************************************************************************)
Bad == [val |-> <<"bad">>, rest |-> <<>>]
Good(val, rest) == [val |-> val, rest |-> rest]
Drop(s, n) == SubSeq(s, n + 1, Len(s))
Starts(ts, c) == ts # <<>> /\ ts[1] = Punct(c)

\* Mutant: the numbers start at 1.
MatchRegisterByNumberFromOne(n) == IF n \in 1..15 THEN Reg(CPURegs[n]) ELSE <<"bad">>

MatchRegisterByNumber(n) == IF n <= 15 THEN Reg(CPURegs[n + 1]) ELSE <<"bad">>

\* tryParseRegister
ParseReg(t) ==
  CASE t[1] = "id" /\ t[2] \in DOMAIN RegOfName -> Reg(RegOfName[t[2]])
    [] t[1] = "int"                             -> MatchRegisterByNumber(t[2])
    [] OTHER                                    -> <<"bad">>

\* The generic parser of expressions: a number, or a symbol with or without $.
ParseExpression(ts) ==
  CASE Starts(ts, "-") -> Good(Imm(-ts[2][2]), Drop(ts, 2))
    [] Starts(ts, "$") -> Good(Expr("CEK_None", ts[2][2]), Drop(ts, 2))
    [] ts[1][1] = "int" -> Good(Imm(ts[1][2]), Drop(ts, 1))
    [] ts[1][1] = "id"  -> Good(Expr("CEK_None", ts[1][2]), Drop(ts, 1))
    [] OTHER -> Bad

\* parseRelocOperand: %name(expression), and every further ).
ParseReloc(ts) ==
  IF Len(ts) < 4 \/ ts[2][1] # "id" \/ ts[3] # Punct("(") THEN Bad
  ELSE LET inner == ParseExpression(Drop(ts, 3))
           open  == {k \in 1..Len(inner.rest) : inner.rest[k] # Punct(")")}
           after == IF open = {} THEN Len(inner.rest)
                    ELSE (CHOOSE k \in open : \A m \in open : k <= m) - 1
       IN IF inner = Bad \/ ~Starts(inner.rest, ")") \/ ts[2][2] \notin DOMAIN KindOfName
            THEN Bad
            ELSE Good(Expr(KindOfName[ts[2][2]], inner.val[3]), Drop(inner.rest, after))

\* parseMemOffset and parseMemOperand; no offset is 0.
ParseMem(ts) ==
  LET off == CASE Starts(ts, "%") -> ParseReloc(ts)
               [] Starts(ts, "(") -> Good(Imm(0), ts)
               [] ts[1][1] = "int" \/ Starts(ts, "-") -> ParseExpression(ts)
               [] OTHER -> Bad
      t   == off.rest
  IN IF off # Bad /\ Len(t) = 4 /\ t[1] = Punct("(") /\ t[2] = Punct("$") /\ t[4] = Punct(")")
       THEN <<ParseReg(t[3]), off.val>>
       ELSE <<<<"bad">>, <<"bad">>>>

\* ParseOperand: behind $ a register, or else a symbol.
ParseOperand(ts) ==
  LET r == CASE Starts(ts, "$") /\ ParseReg(ts[2]) # <<"bad">> -> Good(ParseReg(ts[2]), Drop(ts, 2))
             [] Starts(ts, "%") -> ParseReloc(ts)
             [] OTHER           -> ParseExpression(ts)
  IN IF r.rest = <<>> THEN r.val ELSE <<"bad">>

\* ParseInstruction, with the matcher's choice of the memory operand's parser.
Parse(line) ==
  LET op  == CASE line[1] = "RET" -> "JR" [] line[1] = "move" -> "ADDu" [] OTHER -> line[1]
      ops == line[2]
  IN CASE line[1] = "move" ->
            Inst(op, <<ParseOperand(ops[1]), ParseOperand(ops[2]), Reg("ZERO")>>)
       [] Form(op) = "mem" -> Inst(op, <<ParseOperand(ops[1])>> \o ParseMem(ops[2]))
       [] line[1] # "move" /\ Form(op) # "mem" ->
            Inst(op, [k \in DOMAIN ops |-> ParseOperand(ops[k])])

Rejected(i) == \E k \in DOMAIN i.args : i.args[k] = <<"bad">>

=============================================================================
