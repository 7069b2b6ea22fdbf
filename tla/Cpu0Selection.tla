---------------------------- MODULE Cpu0Selection ----------------------------
(***************************************************************************)
(* The instruction sequences that the Cpu0 back end and its assembler      *)
(* write for one operation, executed: constants and li and la, the         *)
(* adjustment of sp, and the comparisons of integers as values, as branch  *)
(* conditions and as selectors, with CMP (cpu032I) and SLT (cpu032II).     *)
(*                                                                         *)
(* An action of the code generator translates an operation; Execute runs   *)
(* the instructions one by one.                                            *)
(***************************************************************************)
EXTENDS Cpu0AnalyzeImmediate, Bitwise

CONSTANT Operands    \* values that are compared

ASSUME OperandsAssumption == Operands \subseteq Word

\* The registers; "taken" is where a branch leaves whether it is taken.
Cells == {"zero", "at", "sp", "sw", "d", "t", "lhs", "rhs", "tval", "taken"}

VARIABLES hasSlt,    \* the subtarget: SLT and BEQ, or CMP and JEQ
          task,      \* the operation, and what it is to leave in which cell
          code,      \* its instructions still to be executed
          regs,      \* the contents of the registers
          before     \* regs when the operation began

vars == <<hasSlt, task, code, regs, before>>

Conditions == {"eq", "ne", "lt", "le", "gt", "ge", "ult", "ule", "ugt", "uge"}
Unsigned   == {"ult", "ule", "ugt", "uge"}

(***************************************************************************)
(* Instructions.  R names two registers, I a register and an immediate,    *)
(* which the instruction extends to a word.                                *)
(***************************************************************************)
SignExtending == {"ADDiu", "SLTi", "SLTiu"}

R(op, d, a, b) == [op |-> op, d |-> d, a |-> a, b |-> b, imm |-> 0]
I(op, d, a, n) ==
  [op |-> op, d |-> d, a |-> a, b |-> "imm",
   imm |-> IF op \in SignExtending THEN Signed(n, ImmBits) % Span ELSE n % Half]

Instr == [op : STRING, d : Cells, a : Cells, b : Cells \cup {"imm"}, imm : Word]

Bool(p) == IF p THEN 1 ELSE 0

Less(x, y) == Signed(x, WordBits) < Signed(y, WordBits)

\* CMP and CMPu set N, bit 0, and Z, bit 1, of the status word.
Status(sw, less, equal) ==
  (sw - (sw % 4)) + Bool(less) + 2 * Bool(equal)
N(sw) == sw % 2 = 1
Z(sw) == (sw \div 2) % 2 = 1

Sum(x, y) == (x + y) % Span

Result(i) ==
  LET x   == regs[i.a]
      y   == IF i.b = "imm" THEN i.imm ELSE regs[i.b]
      old == regs[i.d]
  IN  CASE i.op \in {"ADDiu", "ADD", "ADDu"} -> Sum(x, y)
        [] i.op = "ANDi"              -> x & y
        [] i.op = "ORi"               -> x | y
        [] i.op \in {"XOR", "XORi"}   -> x ^^ y
        [] i.op = "LUi"               -> y * Half
        [] i.op = "SHL"               -> (x * 2 ^ y) % Span
        [] i.op = "SHR"               -> x \div 2 ^ y
        [] i.op \in {"SLT", "SLTi"}   -> Bool(Less(x, y))
        [] i.op \in {"SLTu", "SLTiu"} -> Bool(x < y)
        [] i.op = "CMP"               -> Status(old, Less(x, y), x = y)
        [] i.op = "CMPu"              -> Status(old, x < y, x = y)
        [] i.op = "MOVZ"              -> IF y = 0 THEN x ELSE old
        [] i.op = "MOVN"              -> IF y # 0 THEN x ELSE old
        [] i.op = "BEQ"               -> Bool(x = y)
        [] i.op = "BNE"               -> Bool(x # y)
        [] i.op = "JEQ"               -> Bool(Z(x))
        [] i.op = "JNE"               -> Bool(~Z(x))
        [] i.op = "JLT"               -> Bool(N(x))
        [] i.op = "JGE"               -> Bool(~N(x))
        [] i.op = "JLE"               -> Bool(N(x) \/ Z(x))
        [] i.op = "JGT"               -> Bool(~N(x) /\ ~Z(x))

(***************************************************************************)
(* Constants: the patterns of Cpu0InstrInfo.td that match v (the matcher   *)
(* may take any of them), the li and la of the assembler, loadImmediate.   *)
(***************************************************************************)
HI16(v) == v \div Half
LO16(v) == v % Half

LuiOri(d, v) == <<I("LUi", d, "zero", HI16(v)), I("ORi", d, d, LO16(v))>>

ConstantPats(v) ==
  (IF IsInt(Signed(v, WordBits)) THEN {<<I("ADDiu", "d", "zero", v)>>} ELSE {})
  \cup (IF HI16(v) = 0 THEN {<<I("ORi", "d", "zero", LO16(v))>>} ELSE {})
  \cup (IF LO16(v) = 0 THEN {<<I("LUi", "d", "zero", HI16(v))>>} ELSE {})
  \cup {LuiOri("d", v)}

ExpandLoadImm(d, v) ==
  CASE HI16(v) = 0 -> <<I("ORi", d, "zero", v)>>
    [] Signed(v, WordBits) \in -(Half \div 2) .. -1 ->
         <<I("ADDiu", d, "zero", v)>>
    [] OTHER -> LuiOri(d, v)

ExpandLoadAddressImm(d, v) ==
  IF IsInt(Signed(v, WordBits)) THEN <<I("ADDiu", d, "zero", v)>>
                                ELSE LuiOri(d, v)

ExpandLoadAddressReg(d, s, v) ==
  IF IsInt(Signed(v, WordBits))
    THEN <<I("ADDiu", d, s, v)>>
    ELSE LuiOri(d, v) \o <<R("ADD", d, d, s)>>

\* Mutant: the immediate is built in a register that holds a value.
LoadImmediateInT(v) ==
  LET seq == Analyze(v % Wide, FALSE)
  IN  [k \in DOMAIN seq |->
         I(seq[k].opc, "t", IF k = 1 THEN "zero" ELSE "t", seq[k].imm)]

LoadImmediate(v) ==
  LET seq == Analyze(v % Wide, FALSE)
  IN  [k \in DOMAIN seq |->
         I(seq[k].opc, "at", IF k = 1 THEN "zero" ELSE "at", seq[k].imm)]

AdjustStackPtr(amount) ==
  IF IsInt(amount)
    THEN <<I("ADDiu", "sp", "sp", amount)>>
    ELSE LET load == LoadImmediate(amount)
         IN  load \o <<R("ADDu", "sp", "sp", load[Len(load)].d)>>

(***************************************************************************)
(* Comparisons as values: the setcc patterns of a condition.               *)
(***************************************************************************)
SetCCPatsCmp(d) ==
  LET Equal(cmp)      == <<R(cmp, "sw", "lhs", "rhs"), I("ANDi", d, "sw", 2),
                           I("SHR", d, d, 1)>>
      Negative(cmp, a, b) == <<R(cmp, "sw", a, b), I("ANDi", d, "sw", 1)>>
      Flip             == <<I("XORi", d, d, 1)>>
  IN  [eq  |-> Equal("CMP"),
       ne  |-> Equal("CMP") \o Flip,
       lt  |-> Negative("CMP", "lhs", "rhs"),
       ult |-> Negative("CMPu", "lhs", "rhs"),
       le  |-> Negative("CMP", "rhs", "lhs") \o Flip,
       ule |-> Negative("CMP", "rhs", "lhs") \o Flip,
       gt  |-> Negative("CMP", "rhs", "lhs"),
       ugt |-> Negative("CMPu", "rhs", "lhs"),
       ge  |-> Negative("CMP", "lhs", "rhs") \o Flip,
       uge |-> Negative("CMPu", "lhs", "rhs") \o Flip]

SetCCPatsSlt(d) ==
  LET Flip == <<I("XORi", d, d, 1)>>
  IN  [eq  |-> <<R("XOR", d, "lhs", "rhs"), I("SLTiu", d, d, 1)>>,
       ne  |-> <<R("XOR", d, "lhs", "rhs"), R("SLTu", d, "zero", d)>>,
       lt  |-> <<R("SLT", d, "lhs", "rhs")>>,
       ult |-> <<R("SLTu", d, "lhs", "rhs")>>,
       le  |-> <<R("SLT", d, "rhs", "lhs")>> \o Flip,
       ule |-> <<R("SLTu", d, "rhs", "lhs")>> \o Flip,
       gt  |-> <<R("SLT", d, "rhs", "lhs")>>,
       ugt |-> <<R("SLTu", d, "rhs", "lhs")>>,
       ge  |-> <<R("SLT", d, "lhs", "rhs")>> \o Flip,
       uge |-> <<R("SLTu", d, "lhs", "rhs")>> \o Flip]

\* The patterns with the constant n on the right.
SetCCImmPatsSlt(d, n) ==
  LET Flip == <<I("XORi", d, d, 1)>>
  IN  [lt  |-> <<I("SLTi", d, "lhs", n)>>,
       ult |-> <<I("SLTiu", d, "lhs", n)>>,
       ge  |-> <<I("SLTi", d, "lhs", n)>> \o Flip,
       uge |-> <<I("SLTiu", d, "lhs", n)>> \o Flip]

SetCC(cc, d) == IF hasSlt THEN SetCCPatsSlt(d)[cc] ELSE SetCCPatsCmp(d)[cc]

(***************************************************************************)
(* Comparisons as branch conditions: the brcond patterns of a condition,   *)
(* and of a value that was computed before.                                *)
(***************************************************************************)
BrcondPatsCmp(cc) ==
  LET jump == [eq |-> "JEQ", ne |-> "JNE", lt |-> "JLT", le |-> "JLE",
               gt |-> "JGT", ge |-> "JGE", ult |-> "JLT", ule |-> "JLE",
               ugt |-> "JGT", uge |-> "JGE"]
  IN  <<R(IF cc \in Unsigned THEN "CMPu" ELSE "CMP", "sw", "lhs", "rhs"),
        R(jump[cc], "taken", "sw", "zero")>>

\* Mutant: the operands of slt are not exchanged for > and <=.
BrcondPatsSltSameOrder(cc) ==
  LET slt  == IF cc \in Unsigned THEN "SLTu" ELSE "SLT"
      below == R(slt, "t", "lhs", "rhs")
      If(i, op) == <<i, R(op, "taken", "t", "zero")>>
  IN  CASE cc = "eq" -> <<R("BEQ", "taken", "lhs", "rhs")>>
        [] cc = "ne" -> <<R("BNE", "taken", "lhs", "rhs")>>
        [] cc \in {"lt", "ult", "gt", "ugt"} -> If(below, "BNE")
        [] cc \in {"le", "ule", "ge", "uge"} -> If(below, "BEQ")

BrcondPatsSlt(cc) ==
  LET slt     == IF cc \in Unsigned THEN "SLTu" ELSE "SLT"
      below   == R(slt, "t", "lhs", "rhs")
      above   == R(slt, "t", "rhs", "lhs")
      If(i, op) == <<i, R(op, "taken", "t", "zero")>>
  IN  CASE cc = "eq"            -> <<R("BEQ", "taken", "lhs", "rhs")>>
        [] cc = "ne"            -> <<R("BNE", "taken", "lhs", "rhs")>>
        [] cc \in {"lt", "ult"} -> If(below, "BNE")
        [] cc \in {"gt", "ugt"} -> If(above, "BNE")
        [] cc \in {"le", "ule"} -> If(above, "BEQ")
        [] cc \in {"ge", "uge"} -> If(below, "BEQ")

Brcond(cc) == IF hasSlt THEN BrcondPatsSlt(cc) ELSE BrcondPatsCmp(cc)

BrcondValue(r) ==
  IF hasSlt THEN <<R("BNE", "taken", r, "zero")>>
            ELSE <<R("CMP", "sw", r, "zero"), R("JNE", "taken", "sw", "zero")>>

(***************************************************************************)
(* Comparisons as selectors: d holds the value for false and gets tval.    *)
(* A condition without a pattern of its own is computed first.             *)
(***************************************************************************)
MovzPats0Slt == [ge  |-> R("SLT", "t", "lhs", "rhs"),
                 uge |-> R("SLTu", "t", "lhs", "rhs"),
                 le  |-> R("SLT", "t", "rhs", "lhs"),
                 ule |-> R("SLTu", "t", "rhs", "lhs")]

MovnPats(r) == <<R("MOVN", "d", "tval", r)>>

Select(cc) ==
  CASE cc = "eq" ->
         <<R("XOR", "t", "lhs", "rhs"), R("MOVZ", "d", "tval", "t")>>
    [] cc = "ne" -> <<R("XOR", "t", "lhs", "rhs")>> \o MovnPats("t")
    [] cc \in DOMAIN MovzPats0Slt /\ hasSlt ->
         <<MovzPats0Slt[cc], R("MOVZ", "d", "tval", "t")>>
    [] OTHER -> SetCC(cc, "t") \o MovnPats("t")

\* The patterns with the constant n on the right.
SelectImmPatsSlt(n) ==
  [ge  |-> <<I("SLTi", "t", "lhs", n), R("MOVZ", "d", "tval", "t")>>,
   uge |-> <<I("SLTiu", "t", "lhs", n), R("MOVZ", "d", "tval", "t")>>]

(***************************************************************************)
(* What the operations mean.                                               *)
(***************************************************************************)
Holds(cc, x, y) ==
  CASE cc = "eq"  -> x = y
    [] cc = "ne"  -> x # y
    [] cc = "lt"  -> Less(x, y)
    [] cc = "gt"  -> Less(y, x)
    [] cc = "le"  -> ~Less(y, x)
    [] cc = "ge"  -> ~Less(x, y)
    [] cc = "ult" -> x < y
    [] cc = "ugt" -> x > y
    [] cc = "ule" -> x <= y
    [] cc = "uge" -> x >= y

\* The registers a comparison may use besides its result.
StatusWord == IF hasSlt THEN {} ELSE {"sw"}

HoldsNow(cc) == Holds(cc, regs.lhs, regs.rhs)

(***************************************************************************)
(* The state machine.  A task says which operation is done and under which *)
(* condition, the value it must leave in cell, and the registers that may  *)
(* change with it.                                                         *)
(***************************************************************************)
NoTask == [op |-> "none", cc |-> "none", cell |-> "d", value |-> 0,
           scratch |-> {}, size |-> 0]

Init ==
  /\ hasSlt \in BOOLEAN
  /\ task = NoTask
  /\ code = <<>>
  /\ \E lhs, rhs \in Operands :
       regs = [zero |-> 0, at |-> 1, sp |-> Half, sw |-> 5, d |-> 2, t |-> 4,
               lhs |-> lhs, rhs |-> rhs, tval |-> 3, taken |-> 0]
  /\ before = regs

Begin(op, cc, cell, value, scratch, instrs) ==
  /\ task = NoTask
  /\ task' = [op |-> op, cc |-> cc, cell |-> cell, value |-> value,
              scratch |-> scratch, size |-> Len(instrs)]
  /\ code' = instrs
  /\ before' = regs
  /\ UNCHANGED <<hasSlt, regs>>

SelectConstant ==
  \E v \in Word : \E instrs \in ConstantPats(v) :
    Begin("constant", "none", "d", v, {}, instrs)

Li == \E v \in Word : Begin("li", "none", "d", v, {}, ExpandLoadImm("d", v))

LaImm ==
  \E v \in Word : Begin("la", "none", "d", v, {}, ExpandLoadAddressImm("d", v))

\* la d,v(s): the assembler lets d and s be one register.
LaReg ==
  \E v \in Word, d \in {"d", "lhs"} :
    Begin(IF d = "lhs" THEN "la same" ELSE "la", "none", d, Sum(regs.lhs, v), {},
          ExpandLoadAddressReg(d, "lhs", v))

AdjustSP ==
  \E v \in Word :
    LET amount == Signed(v, WordBits)
    IN  Begin("adjust", "none", "sp", Sum(regs.sp, v), {"at"},
              AdjustStackPtr(amount))

SelectSetCC ==
  \E cc \in Conditions :
    Begin("setcc", cc, "d", Bool(HoldsNow(cc)), StatusWord, SetCC(cc, "d"))

SelectSetCCImm ==
  /\ hasSlt
  /\ IsInt(Signed(regs.rhs, WordBits))
  /\ \E cc \in DOMAIN SetCCImmPatsSlt("d", 0) :
       Begin("setcc", cc, "d", Bool(HoldsNow(cc)), {},
             SetCCImmPatsSlt("d", regs.rhs)[cc])

SelectBrcond ==
  \E cc \in Conditions :
    Begin("brcond", cc, "taken", Bool(HoldsNow(cc)), {"t"} \cup StatusWord,
          Brcond(cc))

SelectBrcondValue ==
  \E cc \in Conditions :
    Begin("setcc", cc, "taken", Bool(HoldsNow(cc)), {"t"} \cup StatusWord,
          SetCC(cc, "t") \o BrcondValue("t"))

SelectSelect ==
  \E cc \in Conditions :
    Begin("select", cc, "d", IF HoldsNow(cc) THEN regs.tval ELSE regs.d,
          {"t"} \cup StatusWord, Select(cc))

SelectSelectImm ==
  /\ hasSlt
  /\ IsInt(Signed(regs.rhs, WordBits))
  /\ \E cc \in DOMAIN SelectImmPatsSlt(0) :
       Begin("select", cc, "d", IF HoldsNow(cc) THEN regs.tval ELSE regs.d,
             {"t"}, SelectImmPatsSlt(regs.rhs)[cc])

Execute ==
  /\ code # <<>>
  /\ regs' = [regs EXCEPT ![Head(code).d] = Result(Head(code))]
  /\ code' = Tail(code)
  /\ UNCHANGED <<hasSlt, task, before>>

Next ==
  \/ SelectConstant \/ Li \/ LaImm \/ LaReg \/ AdjustSP
  \/ SelectSetCC \/ SelectSetCCImm
  \/ SelectBrcond \/ SelectBrcondValue
  \/ SelectSelect \/ SelectSelectImm
  \/ Execute

Spec == Init /\ [][Next]_vars

(***************************************************************************)
(* Properties.                                                             *)
(***************************************************************************)
Done == task # NoTask /\ code = <<>>

Correct == regs[task.cell] = task.value

\* The unsigned <= of cpu032I as a value is written with the signed CMP.
SignedUle == ~hasSlt /\ task.cc = "ule" /\ task.op \in {"setcc", "select"}

\* la d,v(d) overwrites its base before it adds it.
ClobberedBase == task.op = "la same" /\ task.size = 3

\* A constant, an li, an la or an adjustment of sp leaves the constant, the
\* address or the moved sp, for every value and by every pattern that matches
\* it; expandLoadAddressReg with the base as its destination is the exception
\* README.md tells of.
ConstantsBuilt ==
  Done /\ task.cc = "none" /\ ~ClobberedBase => Correct

\* A comparison decides as the condition says, signed or unsigned, whether it
\* is used as a value, a branch or a selector, on both subtargets; the unsigned
\* <= of SetlePatsCmp is the exception README.md tells of.
ComparisonsDecided ==
  Done /\ task.cc # "none" /\ ~SignedUle => Correct

\* No sequence changes a register besides its result, the temporaries of its
\* own and, for adjustStackPtr, the assembler temporary.
NothingElseChanged ==
  \A r \in Cells \ (task.scratch \cup {task.cell}) : regs[r] = before[r]

\* loadImmediate finds a sequence of one instruction where there is one, and
\* never needs more than two.
SingleInstruction(v) ==
  IsInt(v) \/ v \in 0 .. Half - 1 \/ v % Half = 0

ImmediatesShortest ==
  task.op = "adjust" =>
    LET v == Signed(task.value - before.sp, WordBits)
    IN  task.size = CASE IsInt(v)               -> 1
                      [] ~IsInt(v) /\ SingleInstruction(v) -> 2
                      [] OTHER                  -> 3
=============================================================================
