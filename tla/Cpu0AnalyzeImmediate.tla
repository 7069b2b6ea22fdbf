------------------------ MODULE Cpu0AnalyzeImmediate ------------------------
(***************************************************************************)
(* Cpu0AnalyzeImmediate.cpp: the search for the shortest sequence of       *)
(* ADDiu, ORi, SHL and LUi that builds a constant.                         *)
(*                                                                         *)
(* An immediate field has ImmBits bits (16 on the machine), a register     *)
(* twice as many and the uint64_t that the search computes with four times *)
(* as many, so that every mask and every wrap of the code has its place in *)
(* a narrow instance too.                                                  *)
(***************************************************************************)
EXTENDS Integers, Sequences

CONSTANT ImmBits

ASSUME ImmBitsAssumption == ImmBits \in Nat /\ ImmBits >= 3

WordBits == 2 * ImmBits
Half     == 2 ^ ImmBits            \* 0x10000
Span     == 2 ^ WordBits           \* one above the largest register value
Wide     == 2 ^ (2 * WordBits)     \* one above the largest uint64_t
Word     == 0 .. Span - 1

\* The value of the low n bits of x as a signed number.
Signed(x, n) == LET low == x % 2 ^ n
                IN  IF low >= 2 ^ (n - 1) THEN low - 2 ^ n ELSE low

\* isInt<16>
IsInt(v) == v = Signed(v, ImmBits)

\* v without its low ImmBits bits: Imm & 0xffffffffffff0000.
UpperPart(v) == v - (v % Half)

CountTrailingZeros(v) ==
  CHOOSE n \in 0 .. 2 * WordBits - 1 : v % 2 ^ (n + 1) = 2 ^ n

Inst(opc, imm) == [opc |-> opc, imm |-> imm]

AddInstr(seqs, inst) ==
  IF seqs = <<>> THEN <<<<inst>>>>
                 ELSE [k \in DOMAIN seqs |-> Append(seqs[k], inst)]

(***************************************************************************)
(* The list of sequences for the low remSize bits of imm.                  *)
(***************************************************************************)
RECURSIVE GetInstSeqLs(_, _)

\* Mutant: the upper part is not rounded for the sign of the ADDiu.
GetInstSeqLsADDiuTruncated(imm, remSize) ==
  AddInstr(GetInstSeqLs(UpperPart(imm), remSize), Inst("ADDiu", imm % Half))

GetInstSeqLsADDiu(imm, remSize) ==
  AddInstr(GetInstSeqLs(UpperPart((imm + Half \div 2) % Wide), remSize),
           Inst("ADDiu", imm % Half))

GetInstSeqLsORi(imm, remSize) ==
  AddInstr(GetInstSeqLs(UpperPart(imm), remSize), Inst("ORi", imm % Half))

GetInstSeqLsSHL(imm, remSize) ==
  LET shamt == CountTrailingZeros(imm)
  IN  AddInstr(GetInstSeqLs(imm \div 2 ^ shamt, remSize - shamt),
               Inst("SHL", shamt))

GetInstSeqLs(imm, remSize) ==
  LET masked == imm % Span
      bit15  == imm % Half >= Half \div 2
  IN  CASE masked = 0 -> <<>>
        [] masked # 0 /\ remSize <= ImmBits -> <<<<Inst("ADDiu", masked)>>>>
        [] masked # 0 /\ remSize > ImmBits /\ imm % Half = 0 ->
             GetInstSeqLsSHL(imm, remSize)
        [] OTHER ->
             GetInstSeqLsADDiu(imm, remSize)
               \o (IF bit15 THEN GetInstSeqLsORi(imm, remSize) ELSE <<>>)

(***************************************************************************)
(* ADDiu and SHL in front become one LUi, if the shifted operand still     *)
(* fits.                                                                   *)
(***************************************************************************)
StartsWithADDiuSHL(seq) ==
  /\ Len(seq) >= 2
  /\ seq[1].opc = "ADDiu"
  /\ seq[2].opc = "SHL"
  /\ seq[2].imm >= ImmBits

ShiftedImm(seq) == Signed(seq[1].imm, ImmBits) * 2 ^ (seq[2].imm - ImmBits)

\* Mutant: a shift by exactly one half is not taken.
ReplaceADDiuSHLWithLUiOffByOne(seq) ==
  IF StartsWithADDiuSHL(seq) /\ seq[2].imm > ImmBits /\ IsInt(ShiftedImm(seq))
    THEN <<Inst("LUi", ShiftedImm(seq) % Half)>> \o SubSeq(seq, 3, Len(seq))
    ELSE seq

ReplaceADDiuSHLWithLUi(seq) ==
  IF StartsWithADDiuSHL(seq) /\ IsInt(ShiftedImm(seq))
    THEN <<Inst("LUi", ShiftedImm(seq) % Half)>> \o SubSeq(seq, 3, Len(seq))
    ELSE seq

GetShortestSeq(seqs) ==
  LET replaced == [k \in DOMAIN seqs |-> ReplaceADDiuSHLWithLUi(seqs[k])]
      first    == CHOOSE k \in DOMAIN seqs :
                    \A j \in DOMAIN seqs :
                      \/ Len(replaced[k]) < Len(replaced[j])
                      \/ Len(replaced[k]) = Len(replaced[j]) /\ k <= j
  IN  replaced[first]

Analyze(imm, lastInstrIsADDiu) ==
  GetShortestSeq(IF lastInstrIsADDiu \/ imm = 0
                   THEN GetInstSeqLsADDiu(imm, WordBits)
                   ELSE GetInstSeqLs(imm, WordBits))
=============================================================================
