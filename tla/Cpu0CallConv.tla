---------------------------- MODULE Cpu0CallConv ----------------------------
(***************************************************************************)
(* Where the arguments of a call travel: class Cpu0CC of                   *)
(* Cpu0ISelLowering.cpp, as the caller (LowerCall, passByValArg) and the   *)
(* callee (LowerFormalArguments, copyByValRegs, writeVarArgRegs) use it.   *)
(*                                                                         *)
(* A calling convention is a record of the ABI, "O32" or "S32", and of the *)
(* convention of the function, "C" or "fast".  An argument is a record of  *)
(* its size and alignment in bytes; a byval argument is a structure.       *)
(***************************************************************************)
EXTENDS Integers, Sequences, SequencesExt

AlignTo(n, a) == ((n + a - 1) \div a) * a
AtMost(a, b)  == IF a < b THEN a ELSE b
AtLeast(a, b) == IF a < b THEN b ELSE a

RegSize == 4
I32 == [size |-> 4, align |-> 4, byval |-> FALSE]
I64 == [size |-> 8, align |-> 8, byval |-> FALSE]
Struct(words, align) == [size |-> 4 * words, align |-> align, byval |-> TRUE]

\* A structure fills whole words, and its alignment is a power of two.
Structs == [size  : {n \in Nat : n # 0 /\ n % RegSize = 0},
            align : {n \in Nat : n \notin {0, 5, 6, 7}},
            byval : {TRUE}]
ArgType  == {I32, I64} \cup Structs
ConvType == [abi : {"O32", "S32"}, conv : {"C", "fast"}]

NumIntArgRegs(cc)   == IF cc.abi = "O32" THEN 2 ELSE 0

\* Mutant: the callee's stores of A0 and A1 get no space.
ReservedArgAreaNone(cc) == 0

ReservedArgArea(cc) == IF cc.abi = "O32" /\ cc.conv # "fast" THEN 8 ELSE 0

\* The legalizer makes two parts of an i64; the second needs no alignment.
PartsOf(a) ==
  IF a = I64 THEN <<[I32 EXCEPT !.align = 8], [I32 EXCEPT !.align = 1]>>
             ELSE <<a>>
Parts(args) == FlattenSeq([k \in DOMAIN args |-> PartsOf(args[k])])

(***************************************************************************)
(* The CCState: the argument registers allocated so far, the next stack    *)
(* offset, and the location of each part.  The first `num' words of a part *)
(* are in the registers from `first' on, the others at `addr' on the stack.*)
(***************************************************************************)
Loc(first, num, addr) == [first |-> first, num |-> num, addr |-> addr]

Place(s, regs, stack, loc) ==
  [regs |-> regs, stack |-> stack, locs |-> Append(s.locs, loc)]

AllocateStack(s, p, regs) ==
  LET addr == AlignTo(s.stack, p.align)
  IN  Place(s, regs, addr + RegSize, Loc(0, 0, addr))

CC_Cpu0S32(s, p) == AllocateStack(s, p, s.regs)

\* Mutant: the first part of an i64 may go in A1.
CC_Cpu0O32Odd(s, p) ==
  IF s.regs < 2
    THEN Place(s, s.regs + 1, s.stack, Loc(s.regs, 1, 0))
    ELSE AllocateStack(s, p, 2)

\* The first part of an i64 must be in A0, and A1 is skipped for it.
CC_Cpu0O32(s, p) ==
  IF s.regs = 0 \/ (s.regs = 1 /\ p.align # 8)
    THEN Place(s, s.regs + 1, s.stack, Loc(s.regs, 1, 0))
    ELSE AllocateStack(s, p, 2)

\* Mutant: allocateRegs does not stop behind the last argument register.
HandleByValArgUnbounded(cc, s, p) ==
  LET align == AtMost(AtLeast(p.align, RegSize), 2 * RegSize)
      first == IF align > RegSize THEN s.regs + (s.regs % 2) ELSE s.regs
      num   == IF cc.conv = "fast" \/ first >= NumIntArgRegs(cc)
                 THEN 0 ELSE p.size \div RegSize
      addr  == AlignTo(s.stack, align)
  IN  Place(s, first + num, addr + p.size - RegSize * num, Loc(first, num, addr))

HandleByValArg(cc, s, p) ==
  LET align == AtMost(AtLeast(p.align, RegSize), 2 * RegSize)
      first == IF cc.conv = "fast" THEN s.regs
               ELSE IF align > RegSize THEN s.regs + (s.regs % 2) ELSE s.regs
      num   == IF cc.conv = "fast" THEN 0
               ELSE AtMost(p.size \div RegSize,
                           AtLeast(NumIntArgRegs(cc) - first, 0))
      addr  == AlignTo(s.stack, align)
  IN  Place(s, first + num, addr + p.size - RegSize * num,
            Loc(first, num, addr))

Assign(cc, s, p) ==
  IF p.byval THEN HandleByValArg(cc, s, p)
  ELSE IF cc.abi = "O32" THEN CC_Cpu0O32(s, p)
  ELSE CC_Cpu0S32(s, p)

\* The constructor, which reserves the area, and the loop over the parts.
Run(cc, parts) ==
  LET state[n \in 0 .. Len(parts)] ==
        IF n = 0 THEN [regs |-> 0, stack |-> ReservedArgArea(cc), locs |-> <<>>]
                 ELSE Assign(cc, state[n - 1], parts[n])
  IN  state[Len(parts)]

\* analyzeCallOperands and analyzeFormalArguments.
Analyze(cc, args) == Run(cc, Parts(args))

HasByVal(args) == \E k \in DOMAIN args : args[k].byval

-----------------------------------------------------------------------------
(***************************************************************************)
(* The words of an argument list, each where the caller puts it and where  *)
(* the callee looks for it: in a register, or at an offset from the stack  *)
(* pointer on entry.                                                       *)
(***************************************************************************)
InReg(r)     == [reg |-> r, off |-> 0]
OnStack(off) == [reg |-> -1, off |-> off]

WordOfLoc(loc, w) ==
  IF w <= loc.num THEN InReg(loc.first + w - 1)
                  ELSE OnStack(loc.addr + RegSize * (w - loc.num - 1))

Words(p)         == 1 .. p.size \div RegSize
LocWords(p, loc) == [w \in Words(p) |-> WordOfLoc(loc, w)]

\* LowerCall: passArgOnStack, passByValArg and the registers to pass.
PassedWords(cc, parts) ==
  FlattenSeq([k \in DOMAIN parts |-> LocWords(parts[k], Run(cc, parts).locs[k])])
CallerWords(cc, args) == PassedWords(cc, Parts(args))

\* Mutant: the object of a byval argument starts where its stack part does.
ByValOffsetOnStack(cc, loc) == loc.addr

\* copyByValRegs: the object that holds a byval argument in the callee.
ByValOffset(cc, loc) ==
  IF loc.num > 0
    THEN ReservedArgArea(cc) - (NumIntArgRegs(cc) - loc.first) * RegSize
    ELSE loc.addr

\* LowerFormalArguments.
FoundWords(cc, p, loc) ==
  IF p.byval
    THEN [w \in Words(p) |-> OnStack(ByValOffset(cc, loc) + RegSize * (w - 1))]
    ELSE LocWords(p, loc)
FixedWords(cc, parts) ==
  FlattenSeq([k \in DOMAIN parts |-> FoundWords(cc, parts[k], Run(cc, parts).locs[k])])

\* writeVarArgRegs: the offset that va_start yields.
VaArgOffset(cc, args) ==
  LET s == Analyze(cc, args)
  IN  IF NumIntArgRegs(cc) = s.regs
        THEN AlignTo(s.stack, RegSize)
        ELSE ReservedArgArea(cc) - RegSize * (NumIntArgRegs(cc) - s.regs)

\* va_arg, for each of the arguments behind the fixed ones.
VaArg(s, a) ==
  LET at == AlignTo(s.ap, a.align)
  IN  [ap    |-> at + a.size,
       words |-> s.words \o [w \in Words(a) |-> OnStack(at + RegSize * (w - 1))]]

VaArgs(cc, args, extra) ==
  LET state[n \in 0 .. Len(extra)] ==
        IF n = 0 THEN [ap |-> VaArgOffset(cc, args), words |-> <<>>]
                 ELSE VaArg(state[n - 1], extra[n])
  IN  state[Len(extra)]

CalleeWords(cc, args, extra) ==
  FixedWords(cc, Parts(args)) \o VaArgs(cc, args, extra).words

(***************************************************************************)
(* The registers the callee stores on entry, and at which offsets: those   *)
(* of its byval arguments and, when it is variadic, those left over.       *)
(***************************************************************************)
Homes(first, num, off) ==
  [i \in 1 .. num |-> [reg |-> first + i - 1, off |-> off + RegSize * (i - 1)]]

ByValHomes(cc, p, loc) ==
  IF p.byval THEN Homes(loc.first, loc.num, ByValOffset(cc, loc)) ELSE <<>>

ObjectHomes(cc, parts) ==
  FlattenSeq([k \in DOMAIN parts |->
                ByValHomes(cc, parts[k], Run(cc, parts).locs[k])])

VarArgHomes(cc, args) ==
  LET s == Analyze(cc, args)
  IN  Homes(s.regs, AtLeast(NumIntArgRegs(cc) - s.regs, 0), VaArgOffset(cc, args))

HomedRegs(cc, args, vararg) ==
  ObjectHomes(cc, Parts(args))
    \o IF vararg THEN VarArgHomes(cc, args) ELSE <<>>
=============================================================================
