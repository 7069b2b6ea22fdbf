------------------------ MODULE ArgumentListsProofs ------------------------
(***************************************************************************)
(* The invariants of ArgumentLists, for argument lists of every length.    *)
(***************************************************************************)
EXTENDS ArgumentLists, CallConvTheorems

(***************************************************************************)
(* The inductive invariant: a list has arguments for an ellipsis only when *)
(* the function is variadic, they are scalars, and then the convention is  *)
(* not "fast".  What the analyses make of such a list is a matter of       *)
(* CallConvTheorems.                                                       *)
(***************************************************************************)
IInv ==
  /\ cc \in Conventions /\ vararg \in BOOLEAN
  /\ args \in Seq(ArgTypes)
  /\ extra \in Seq(ArgTypes) /\ extra \in Seq(Extras)
  /\ vararg => cc.conv # "fast"
  /\ ~vararg => extra = <<>>

LEMMA InitHolds == Init => IInv
<1>1. <<>> \in Seq(ArgTypes) /\ <<>> \in Seq(Extras)
  OBVIOUS
<1>. QED
  BY <1>1 DEF Init, IInv

LEMMA StepHolds == IInv /\ [Next]_vars => IInv'
<1>. SUFFICES ASSUME IInv, [Next]_vars PROVE IInv'
  OBVIOUS
<1>1. CASE AddFixed
  <2>1. PICK a \in ArgTypes : args' = Append(args, a)
    BY <1>1 DEF AddFixed
  <2>2. cc' = cc /\ vararg' = vararg /\ extra' = extra
    BY <1>1 DEF AddFixed
  <2>3. Append(args, a) \in Seq(ArgTypes)
    BY DEF IInv
  <2>. QED
    BY <2>1, <2>2, <2>3 DEF IInv
<1>2. CASE AddExtra
  <2>1. PICK a \in ArgTypes : ~a.byval /\ extra' = Append(extra, a)
    BY <1>2 DEF AddExtra
  <2>2. vararg /\ cc' = cc /\ vararg' = vararg /\ args' = args
    BY <1>2 DEF AddExtra
  <2>3. a \in Extras
    BY <2>1, ArgTypesAssumption, ExtrasAre
  <2>4. Append(extra, a) \in Seq(ArgTypes) /\ Append(extra, a) \in Seq(Extras)
    BY <2>3 DEF IInv
  <2>. QED
    BY <2>1, <2>2, <2>4 DEF IInv
<1>3. CASE UNCHANGED vars
  BY <1>3 DEF IInv, vars
<1>. QED
  BY <1>1, <1>2, <1>3 DEF Next

LEMMA ListHolds ==
  ASSUME IInv
  PROVE  ListInv(cc, vararg, args, extra)
<1>1. cc \in ConvType /\ vararg \in BOOLEAN /\ (vararg => cc.conv # "fast")
  BY ConventionsAssumption DEF IInv
<1>2. args \in Seq(ArgType)
  BY ArgTypesAssumption DEF IInv
<1>. QED
  BY <1>1, <1>2, EveryList DEF IInv

(***************************************************************************)
(* What the invariant says of the list that is passed.                     *)
(***************************************************************************)
LEMMA PassedState ==
  ASSUME IInv
  PROVE  \E s \in StateType(cc) :
           /\ s = Analyze(cc, Passed) /\ Area = s.stack
           /\ CallerWords(cc, Passed) \in Seq(Region(0, s.regs, ReservedArgArea(cc), s.stack))
           /\ IsInjective(CallerWords(cc, Passed))
<1>1. PartsInv(cc, Parts(Passed))
  BY ListHolds DEF ListInv, Passed
<1>. QED
  BY <1>1 DEF PartsInv, Analyze, Area, CallerWords

LEMMA HomesTyped ==
  ASSUME IInv
  PROVE  /\ HomedRegs(cc, args, vararg) \in Seq(HomeType(cc))
         /\ ToSet(HomedRegs(cc, args, vararg)) \subseteq HomeType(cc)
<1>1. /\ cc \in ConvType /\ vararg \in BOOLEAN /\ (vararg => cc.conv # "fast")
      /\ args \in Seq(ArgType) /\ PartsInv(cc, Parts(args))
  BY ListHolds DEF ListInv, TypedLists
<1>2. HomedRegs(cc, args, vararg) \in Seq(HomeType(cc))
  BY <1>1, HomedRegsAre
<1>3. PICK H, h : h = HomedRegs(cc, args, vararg) /\ H = HomeType(cc) /\ h \in Seq(H)
  BY <1>2
<1>4. ToSet(h) \subseteq H
  BY <1>3 DEF ToSet
<1>. QED
  BY <1>2, <1>3, <1>4

LEMMA TypeHolds == IInv => TypeOK
<1>. SUFFICES ASSUME IInv PROVE TypeOK
  OBVIOUS
<1>1. PICK s \in StateType(cc) : s = Analyze(cc, Passed) /\ Area = s.stack
  BY PassedState
<1>2. s.regs \in 0 .. 2 /\ s.stack % 4 = 0
  BY DEF StateType, Sane
<1>3. /\ cc \in Conventions /\ vararg \in BOOLEAN
      /\ args \in Seq(ArgTypes) /\ extra \in Seq(ArgTypes)
  BY DEF IInv
<1>. QED
  BY <1>1, <1>2, <1>3 DEF TypeOK, RegSize

LEMMA FoundHolds == IInv => WordsFound
<1>. SUFFICES ASSUME IInv PROVE WordsFound
  OBVIOUS
<1>1. PICK X, sent : sent = CallerWords(cc, Passed) /\ sent \in Seq(X)
  BY PassedState
<1>2. PICK found, homed : /\ found = CalleeWords(cc, args, extra)
                          /\ homed = ToSet(HomedRegs(cc, args, vararg))
  OBVIOUS
<1>3. Matched(sent, found, homed)
  BY <1>1, <1>2, ListHolds DEF ListInv, FoundInv, Passed
<1>4. DOMAIN sent = 1 .. Len(sent)
  BY <1>1
<1>. QED
  BY <1>1, <1>2, <1>3, <1>4 DEF WordsFound, Matched

LEMMA ApartHolds == IInv => WordsApart
<1>. SUFFICES ASSUME IInv PROVE WordsApart
  OBVIOUS
<1>1. PICK s \in StateType(cc) :
        /\ Area = s.stack
        /\ CallerWords(cc, Passed) \in Seq(Region(0, s.regs, ReservedArgArea(cc), s.stack))
        /\ IsInjective(CallerWords(cc, Passed))
  BY PassedState
<1>2. PICK area \in Nat, r \in 0 .. 2, low \in {0, 8} :
        /\ area = s.stack /\ r = s.regs /\ low = ReservedArgArea(cc) /\ low <= area
  BY DEF StateType, Sane, ReservedArgArea
<1>3. PICK sent : /\ sent = CallerWords(cc, Passed) /\ IsInjective(sent)
                  /\ sent \in Seq(Region(0, r, low, area))
  BY <1>1, <1>2
<1>4. ASSUME NEW w \in ToSet(sent), w.reg = -1
      PROVE  /\ w.off \in low .. area - 4
  <2>1. w \in Region(0, r, low, area)
    BY <1>3 DEF ToSet
  <2>2. CASE \E i \in 0 .. r - 1 : w = InReg(i)
    BY <1>4, <2>2 DEF InReg
  <2>3. CASE \E o \in {x \in low .. area - 4 : x % 4 = 0} : w = OnStack(o)
    BY <2>3 DEF OnStack
  <2>. QED
    BY <2>1, <2>2, <2>3 DEF Region
<1>5. PICK homes : homes = {OnStack(h.off) : h \in ToSet(HomedRegs(cc, args, vararg))}
  OBVIOUS
<1>6. ASSUME NEW w \in homes
      PROVE  w.off \in {0, 4} /\ low = 8
  <2>1. PICK h \in HomeType(cc) : w = OnStack(h.off)
    BY <1>5, HomesTyped
  <2>2. HasHomes(cc) /\ h.off \in {0, 4}
    BY DEF HomeType
  <2>3. low = 8
    BY <1>2, <2>2 DEF ReservedArgArea, HasHomes
  <2>. QED
    BY <2>1, <2>2, <2>3 DEF OnStack
<1>7. PICK onStack : onStack = {w \in ToSet(sent) : w.reg = -1}
  OBVIOUS
<1>8. homes \cap onStack = {}
  <2>. SUFFICES ASSUME NEW w \in homes, w \in onStack PROVE FALSE
    OBVIOUS
  <2>1. w.off \in {0, 4} /\ low = 8 /\ w.off \in low .. area - 4
    BY <1>4, <1>6, <1>7
  <2>. QED
    BY <2>1
<1>9. ASSUME NEW w \in homes \cup onStack PROVE w.off \in 0 .. area - RegSize
  <2>1. CASE w \in homes
    <3>1. w.off \in {0, 4} /\ low = 8
      BY <1>6, <2>1
    <3>. QED
      BY <1>2, <3>1 DEF RegSize
  <2>2. CASE w \in onStack
    <3>1. w.off \in low .. area - 4
      BY <1>4, <1>7, <2>2
    <3>. QED
      BY <1>2, <3>1 DEF RegSize
  <2>. QED
    BY <2>1, <2>2
<1>. QED
  BY <1>1, <1>2, <1>3, <1>5, <1>7, <1>8, <1>9 DEF WordsApart

(***************************************************************************)
(* The inductive invariant holds in every state, for every length of the   *)
(* lists, every set of conventions and every set of argument types.        *)
(***************************************************************************)
THEOREM Invariant == Spec => []IInv
BY InitHolds, StepHolds, PTL DEF Spec

(***************************************************************************)
(* Every argument list is analysed to a whole number of words, in at most  *)
(* the two argument registers: CCState over analyzeCallOperands.           *)
(***************************************************************************)
THEOREM ListsTyped == Spec => []TypeOK
BY Invariant, TypeHolds, PTL

(***************************************************************************)
(* The callee finds every word of every argument list where the caller put *)
(* it: LowerFormalArguments, copyByValRegs, writeVarArgRegs and va_arg see *)
(* what LowerCall and passByValArg passed, though only the caller analyses *)
(* the variable arguments.                                                 *)
(***************************************************************************)
THEOREM EveryWordFound == Spec => []WordsFound
BY Invariant, FoundHolds, PTL

(***************************************************************************)
(* No two words of an argument list share a place, the callee's stores of  *)
(* A0 and A1 spare those on the stack, and all of it is in the area that   *)
(* LowerCall gives the call frame: the area reserved by the Cpu0CC         *)
(* constructor is large enough.                                            *)
(***************************************************************************)
THEOREM EveryWordApart == Spec => []WordsApart
BY Invariant, ApartHolds, PTL
=============================================================================
