--------------------------- MODULE FramesTheorems ---------------------------
(***************************************************************************)
(* Facts about Cpu0Frames that no step of the program changes: the sizes   *)
(* of a frame, the code of prologues, calls and epilogues, the words of a  *)
(* call, and what each instruction of that code does to its activation and *)
(* to the part of the stack which is its own.                              *)
(***************************************************************************)
EXTENDS Cpu0FramesInv, CallConvTheorems

Program == {Funcs[n] : n \in DOMAIN Funcs}

-----------------------------------------------------------------------------
(***************************************************************************)
(* The functions of the program, and the words of their calls.             *)
(***************************************************************************)
LEMMA InProgram ==
  ASSUME NEW f \in Program
  PROVE  f \in FuncType /\ WellFormed(f)
BY FuncsAssumption DEF Program

LEMMA SameExtras == {I32, I64} = Extras
BY DEF Extras

LEMMA ConvOf ==
  ASSUME NEW f \in Program
  PROVE  /\ Cc(f) \in ConvType /\ f.vararg \in BOOLEAN /\ f.args \in Seq(ArgType)
         /\ f.vararg => Cc(f).conv # "fast"
BY InProgram DEF FuncType, WellFormed, Cc, ConvType

\* A call passes enough space for what its callee expects, and each of its
\* words is in a register or in that space.
SoundCall(f, k) ==
  /\ Callee(f, k) \in Program
  /\ NextStackOffset(f, k) \in Nat /\ NextStackOffset(f, k) % 4 = 0
  /\ IncomingArgSize(Callee(f, k)) <= NextStackOffset(f, k)
  /\ CallWords(Cc(Callee(f, k)), SentWords(f, k), NextStackOffset(f, k))

LEMMA CalleeOf ==
  ASSUME NEW f \in Program, NEW k \in DOMAIN f.calls
  PROVE  /\ Callee(f, k) \in Program /\ f.calls[k].callee \in DOMAIN Funcs
         /\ f.calls[k].extra \in Seq(Extras)
         /\ ~Callee(f, k).vararg => f.calls[k].extra = <<>>
<1>1. f.calls \in Seq(CallType)
  BY InProgram DEF FuncType
<1>2. f.calls[k] \in CallType
  BY <1>1
<1>3. f.calls[k].callee \in DOMAIN Funcs /\ f.calls[k].extra \in Seq(Extras)
  BY <1>2, SameExtras DEF CallType
<1>. QED
  BY <1>3, InProgram DEF Callee, Program, WellFormed

LEMMA SoundCalls ==
  ASSUME NEW f \in Program, NEW k \in DOMAIN f.calls
  PROVE  SoundCall(f, k)
<1> DEFINE g == Callee(f, k)
           e == f.calls[k].extra
<1>1. g \in Program /\ e \in Seq(Extras) /\ (~g.vararg => e = <<>>)
  BY CalleeOf
<1>2. PICK c \in ConvType, v \in BOOLEAN, l \in Seq(ArgType) :
        c = Cc(g) /\ v = g.vararg /\ l = g.args /\ (v => c.conv # "fast")
  BY <1>1, ConvOf
<1>3. CallWords(c, CallerWords(c, l \o e), Analyze(c, l \o e).stack)
      /\ Analyze(c, l \o e).stack % 4 = 0
  BY <1>1, <1>2, WordsOfCall
<1>4. Analyze(c, l).stack <= Analyze(c, l \o e).stack /\ Analyze(c, l \o e).stack \in Nat
  BY <1>1, <1>2, ListGrows
<1>5. /\ NextStackOffset(f, k) = Analyze(c, l \o e).stack
      /\ IncomingArgSize(g) = Analyze(c, l).stack
      /\ SentWords(f, k) = CallerWords(c, l \o e)
  BY <1>2 DEF NextStackOffset, IncomingArgSize, SentWords, Passed
<1>. QED
  BY <1>1, <1>2, <1>3, <1>4, <1>5 DEF SoundCall

LEMMA Incoming ==
  ASSUME NEW f \in Program
  PROVE  /\ IncomingArgSize(f) \in Nat /\ ReservedArgArea(Cc(f)) <= IncomingArgSize(f)
         /\ IncomingArgSize(f) % 4 = 0
         /\ Homed(f) \in Seq(HomeType(Cc(f)))
<1>1. PICK c \in ConvType, v \in BOOLEAN, l \in Seq(ArgType) :
        c = Cc(f) /\ v = f.vararg /\ l = f.args /\ (v => c.conv # "fast")
  BY ConvOf
<1>2. <<>> \in Seq(Extras) /\ l \o <<>> = l
  OBVIOUS
<1>3. /\ Analyze(c, l \o <<>>).stack % 4 = 0
      /\ ReservedArgArea(c) <= Analyze(c, l).stack
      /\ HomedRegs(c, l, v) \in Seq(HomeType(c))
  BY <1>1, <1>2, WordsOfCall
<1>4. Analyze(c, l).stack \in Nat
  BY <1>1, <1>2, ListGrows
<1>. QED
  BY <1>1, <1>2, <1>3, <1>4 DEF IncomingArgSize, Homed

LEMMA HomesOf ==
  ASSUME NEW f \in Program, NEW k \in DOMAIN Homed(f)
  PROVE  \E x \in {0, 1} : /\ Homed(f)[k] = [reg |-> x, off |-> 4 * x]
                           /\ ReservedArgArea(Cc(f)) = 8
<1>1. Homed(f)[k] \in HomeType(Cc(f))
  BY Incoming
<1>. QED
  BY <1>1 DEF HomeType, HasHomes, ReservedArgArea

-----------------------------------------------------------------------------
(***************************************************************************)
(* The sizes of a frame.                                                   *)
(***************************************************************************)
LEMMA AlignedTo8 ==
  ASSUME NEW n \in Nat
  PROVE  AlignTo(n, 8) \in Nat /\ n <= AlignTo(n, 8) /\ AlignTo(n, 8) % 8 = 0
BY DEF AlignTo

LEMMA CallFrameOf ==
  ASSUME NEW f \in Program, NEW k \in DOMAIN f.calls
  PROVE  /\ CallFrame(f, k) \in Nat /\ CallFrame(f, k) % 8 = 0
         /\ NextStackOffset(f, k) <= CallFrame(f, k)
BY SoundCalls, AlignedTo8 DEF SoundCall, CallFrame

MaxOf(x, S) == x \in S /\ \A y \in S : x >= y

LEMMA MaxExists ==
  ASSUME NEW n \in Nat, NEW K \in SUBSET (1 .. n), NEW g \in [K -> Nat]
  PROVE  \E x \in Nat : MaxOf(x, {0} \cup {g[k] : k \in K})
<1> DEFINE T(m) == {0} \cup {g[k] : k \in {i \in K : i <= m}}
           S == {m \in Nat : \E x \in Nat : MaxOf(x, T(m))}
<1>1. 0 \in S
  <2>1. T(0) = {0}
    OBVIOUS
  <2>2. MaxOf(0, {0})
    BY DEF MaxOf
  <2>. QED
    BY <2>1, <2>2
<1>2. ASSUME NEW m \in 0 .. n - 1, m \in S PROVE m + 1 \in S
  <2>1. PICK x \in Nat : MaxOf(x, T(m))
    BY <1>2
  <2>2. CASE m + 1 \in K
    <3>1. T(m + 1) = T(m) \cup {g[m + 1]}
      BY <2>2
    <3>2. g[m + 1] \in Nat /\ T(m) \subseteq Nat
      BY <2>2
    <3>3. \E y \in Nat : MaxOf(y, T(m) \cup {g[m + 1]})
      <4>. HIDE DEF T
      <4>1. CASE x >= g[m + 1]
        BY <2>1, <3>2, <4>1 DEF MaxOf
      <4>2. CASE x < g[m + 1]
        BY <2>1, <3>2, <4>2 DEF MaxOf
      <4>. QED
        BY <3>2, <4>1, <4>2
    <3>4. \E y \in Nat : MaxOf(y, T(m + 1))
      BY <3>1, <3>3
    <3>. HIDE DEF T
    <3>. QED
      BY <3>4
  <2>3. CASE m + 1 \notin K
    <3>1. T(m + 1) = T(m)
      BY <2>3
    <3>. HIDE DEF T
    <3>. QED
      BY <2>1, <3>1
  <2>. QED
    BY <2>2, <2>3
<1>3. n \in S
  <2>. HIDE DEF S
  <2>. QED
    BY <1>1, <1>2, IntervalInduction
<1>4. T(n) = {0} \cup {g[k] : k \in K}
  OBVIOUS
<1>. QED
  BY <1>3, <1>4

LEMMA MaxCallFrameOf ==
  ASSUME NEW f \in Program
  PROVE  /\ MaxCallFrame(f) \in Nat /\ MaxCallFrame(f) % 8 = 0
         /\ \A k \in RealCalls(f) : k \in DOMAIN f.calls /\ CallFrame(f, k) <= MaxCallFrame(f)
<1> DEFINE g == [k \in RealCalls(f) |-> CallFrame(f, k)]
           S == {0} \cup {CallFrame(f, k) : k \in RealCalls(f)}
<1>1. f.calls \in Seq(CallType)
  BY InProgram DEF FuncType
<1>2. RealCalls(f) \in SUBSET (1 .. Len(f.calls)) /\ RealCalls(f) \subseteq DOMAIN f.calls
  BY <1>1 DEF RealCalls
<1>3. g \in [RealCalls(f) -> Nat] /\ Len(f.calls) \in Nat
  BY <1>1, <1>2, CallFrameOf
<1>4. {0} \cup {g[k] : k \in RealCalls(f)} = S
  OBVIOUS
<1>5. \E x \in Nat : MaxOf(x, S)
  <2>. HIDE DEF g
  <2>. QED
    BY <1>2, <1>3, <1>4, MaxExists
<1>6. MaxOf(MaxCallFrame(f), S)
  <2>1. \E x : x \in S /\ \A y \in S : x >= y
    BY <1>5 DEF MaxOf
  <2>2. MaxCallFrame(f) = CHOOSE x \in S : \A y \in S : x >= y
    BY DEF MaxCallFrame, Max
  <2>. HIDE DEF S
  <2>3. MaxCallFrame(f) \in S /\ \A y \in S : MaxCallFrame(f) >= y
    BY <2>1, <2>2
  <2>. QED
    BY <2>3 DEF MaxOf
<1>. QED
  BY <1>2, <1>6, CallFrameOf DEF MaxOf

SavedFacts(f) ==
  LET s == SavedRegs(f)
  IN  /\ s \in Seq(SavedSet) /\ Len(s) \in Nat
      /\ RealCalls(f) # {} => "lr" \in ToSet(s)
      /\ HasFP(f) => "fp" \in ToSet(s)
      /\ f.uses \subseteq ToSet(s)

LEMMA ToSetIs ==
  ASSUME NEW X, NEW s \in Seq(X)
  PROVE  ToSet(s) = {s[i] : i \in DOMAIN s}
BY DEF ToSet

LEMMA ToSetOf ==
  ASSUME NEW X, NEW s \in Seq(X), NEW t \in Seq(X)
  PROVE  ToSet(s \o t) = ToSet(s) \cup ToSet(t)
BY ToSetConcat

LEMMA SavedOf ==
  ASSUME NEW f \in Program
  PROVE  SavedFacts(f)
<1> DEFINE a == If(RealCalls(f) # {}, <<"lr">>)
           b == If(HasFP(f) \/ "fp" \in f.uses, <<"fp">>)
           c == If("s1" \in f.uses, <<"s1">>)
           d == If("s0" \in f.uses, <<"s0">>)
<1>1. f.uses \subseteq {"fp", "s0", "s1"}
  BY InProgram DEF FuncType
<1>2. a \in Seq(SavedSet) /\ b \in Seq(SavedSet) /\ c \in Seq(SavedSet) /\ d \in Seq(SavedSet)
  <2>1. /\ <<"lr">> \in Seq(SavedSet) /\ <<"fp">> \in Seq(SavedSet) /\ <<>> \in Seq(SavedSet)
        /\ <<"s1">> \in Seq(SavedSet) /\ <<"s0">> \in Seq(SavedSet)
    BY DEF SavedSet, KeptRegs
  <2>. QED
    BY <2>1 DEF If
<1>3. ASSUME NEW x PROVE ToSet(<<x>>) = {x}
  BY DEF ToSet
<1>4. /\ RealCalls(f) # {} => "lr" \in ToSet(a)
      /\ HasFP(f) \/ "fp" \in f.uses => "fp" \in ToSet(b)
      /\ "s1" \in f.uses => "s1" \in ToSet(c)
      /\ "s0" \in f.uses => "s0" \in ToSet(d)
  BY <1>3 DEF If
<1>. HIDE DEF a, b, c, d
<1>5. PICK ab \in Seq(SavedSet) : ab = a \o b /\ ToSet(ab) = ToSet(a) \cup ToSet(b)
  BY ZenonT(60), <1>2, ToSetOf, ConcatProperties
<1>6. PICK abc \in Seq(SavedSet) : abc = ab \o c /\ ToSet(abc) = ToSet(ab) \cup ToSet(c)
  BY ZenonT(60), <1>2, ToSetOf, ConcatProperties
<1>7. PICK s \in Seq(SavedSet) : s = abc \o d /\ ToSet(s) = ToSet(abc) \cup ToSet(d)
  BY ZenonT(60), <1>2, ToSetOf, ConcatProperties
<1>8. SavedRegs(f) = s
  BY <1>5, <1>6, <1>7 DEF SavedRegs, a, b, c, d
<1>. QED
  <2>1. ToSet(a) \cup ToSet(b) \cup ToSet(c) \cup ToSet(d) \subseteq ToSet(s)
    BY <1>5, <1>6, <1>7
  <2>2. /\ RealCalls(f) # {} => "lr" \in ToSet(s)
        /\ HasFP(f) => "fp" \in ToSet(s)
    BY <1>4, <2>1
  <2>3. f.uses \subseteq ToSet(s)
    BY <1>1, <1>4, <2>1
  <2>4. Len(s) \in Nat
    OBVIOUS
  <2>. QED
    BY <1>8, <2>2, <2>3, <2>4 DEF SavedFacts

\* The frame has room for its objects and, when it is reserved, for the words
\* of every call.
Sized(f) ==
  /\ StackSize(f) \in Nat /\ StackSize(f) % 8 = 0
  /\ Objects(f) \in Nat /\ 4 * Objects(f) <= StackSize(f)
  /\ Len(SavedRegs(f)) \in Nat /\ Len(EhRegs(f)) \in Nat /\ f.locals \in Nat
  /\ Len(SavedRegs(f)) + f.locals + Len(EhRegs(f)) <= Objects(f)
  /\ HasReservedCallFrame(f) =>
       \A k \in RealCalls(f) : CallFrame(f, k) + 4 * Objects(f) <= StackSize(f)

LEMMA EhRegsOf ==
  ASSUME NEW f \in Program
  PROVE  /\ EhRegs(f) \in Seq({"a0", "a1"}) /\ Len(EhRegs(f)) \in Nat
         /\ Len(EhRegs(f)) <= EhSlots(f) /\ EhSlots(f) \in Nat
<1>1. PICK s \in Seq({"a0", "a1"}), t \in Seq({"a0", "a1"}) :
        s = <<"a0", "a1">> /\ t = <<>> /\ Len(s) = 2 /\ Len(t) = 0
  <2>1. <<"a0", "a1">> \in Seq({"a0", "a1"}) /\ Len(<<"a0", "a1">>) = 2
    OBVIOUS
  <2>2. <<>> \in Seq({"a0", "a1"}) /\ Len(<<>>) = 0
    OBVIOUS
  <2>. QED
    BY <2>1, <2>2
<1>2. CASE f.eh /\ f.abi = "O32"
  BY <1>1, <1>2 DEF EhRegs, EhSlots
<1>3. CASE ~(f.eh /\ f.abi = "O32")
  <2>1. EhRegs(f) = t /\ EhSlots(f) \in {0, 2}
    BY <1>1, <1>3 DEF EhRegs, EhSlots
  <2>. QED
    BY <1>1, <2>1
<1>. QED
  BY <1>2, <1>3

LEMMA SizeOf ==
  ASSUME NEW f \in Program
  PROVE  Sized(f)
<1>1. f.locals \in Nat /\ Len(SavedRegs(f)) \in Nat
  BY InProgram, SavedOf DEF FuncType, SavedFacts
<1>2. PICK s \in Nat, l \in Nat, e \in Nat, ee \in Nat :
        /\ s = Len(SavedRegs(f)) /\ l = f.locals /\ e = EhSlots(f) /\ ee = Len(EhRegs(f))
        /\ ee <= e
  BY <1>1, EhRegsOf
<1>3. PICK x \in Nat : x = MaxCallFrame(f)
  BY MaxCallFrameOf
<1>4. PICK y \in Nat : /\ y = IF AdjustsStack(f) /\ HasReservedCallFrame(f) THEN x ELSE 0
                       /\ (AdjustsStack(f) /\ HasReservedCallFrame(f) => y = x)
  OBVIOUS
<1>5. PICK n \in Nat : n = 4 * (s + l + e) + y
  OBVIOUS
<1>6. StackSize(f) = AlignTo(n, 8)
  BY <1>2, <1>3, <1>4, <1>5 DEF StackSize
<1>7. StackSize(f) \in Nat /\ n <= StackSize(f) /\ StackSize(f) % 8 = 0
  BY <1>6, AlignedTo8
<1>8. Objects(f) = s + l + e
  BY <1>2 DEF Objects
<1>9. ASSUME NEW k \in RealCalls(f), HasReservedCallFrame(f)
      PROVE  CallFrame(f, k) + 4 * Objects(f) <= StackSize(f)
  <2>1. AdjustsStack(f)
    BY DEF AdjustsStack
  <2>2. y = x /\ CallFrame(f, k) <= x
    BY <1>3, <1>4, <1>9, <2>1, MaxCallFrameOf
  <2>3. CallFrame(f, k) \in Nat
    BY CallFrameOf, MaxCallFrameOf
  <2>. QED
    BY <1>5, <1>7, <1>8, <2>2, <2>3
<1>. QED
  <2>1. /\ Objects(f) \in Nat /\ 4 * Objects(f) <= StackSize(f)
        /\ Len(SavedRegs(f)) + f.locals + Len(EhRegs(f)) <= Objects(f)
    <3>1. PICK z \in Nat : z = StackSize(f) /\ n <= z
      BY <1>7
    <3>2. s + l + e \in Nat /\ 4 * (s + l + e) <= z /\ s + l + ee <= s + l + e
      <4>1. ee <= e
        BY <1>2
      <4>2. s + l + e \in Nat /\ s + l + ee <= s + l + e
        BY <4>1
      <4>3. 4 * (s + l + e) <= n
        BY <1>5
      <4>. QED
        BY <3>1, <4>2, <4>3
    <3>. QED
      BY <1>2, <1>8, <3>1, <3>2
  <2>. QED
    BY <1>2, <1>7, <1>9, <2>1 DEF Sized

-----------------------------------------------------------------------------
(***************************************************************************)
(* The parts of the code, and which instruction is where.                  *)
(***************************************************************************)
Joined(c, s, t) ==
  /\ Len(c) = Len(s) + Len(t) /\ Len(s) \in Nat /\ Len(t) \in Nat
  /\ \A p \in 1 .. Len(c) :
       \/ p \in 1 .. Len(s) /\ c[p] = s[p]
       \/ \E k \in 1 .. Len(t) : p = Len(s) + k /\ c[p] = t[k]

LEMMA JoinAt ==
  ASSUME NEW X, NEW s \in Seq(X), NEW t \in Seq(X), NEW c, c = s \o t
  PROVE  c \in Seq(X) /\ Joined(c, s, t)
<1>1. /\ c \in Seq(X) /\ Len(c) = Len(s) + Len(t) /\ Len(s) \in Nat /\ Len(t) \in Nat
      /\ \A p \in 1 .. Len(c) : c[p] = IF p <= Len(s) THEN s[p] ELSE t[p - Len(s)]
  BY ConcatProperties
<1>2. ASSUME NEW p \in 1 .. Len(c), ~(p <= Len(s))
      PROVE  \E k \in 1 .. Len(t) : p = Len(s) + k /\ c[p] = t[k]
  <2>1. p - Len(s) \in 1 .. Len(t) /\ p = Len(s) + (p - Len(s)) /\ c[p] = t[p - Len(s)]
    BY <1>1, <1>2
  <2>. QED
    BY <2>1
<1>. QED
  BY <1>1, <1>2 DEF Joined

LEMMA IfOne ==
  ASSUME NEW cond, NEW i \in InstrType
  PROVE  /\ If(cond, <<i>>) \in Seq(InstrType) /\ Len(If(cond, <<i>>)) = One(cond)
         /\ One(cond) \in {0, 1} /\ (One(cond) = 1 <=> cond)
         /\ \A k \in 1 .. Len(If(cond, <<i>>)) : cond /\ k = 1 /\ If(cond, <<i>>)[k] = i
<1>1. <<i>> \in Seq(InstrType) /\ Len(<<i>>) = 1 /\ <<i>>[1] = i
  OBVIOUS
<1>2. <<>> \in Seq(InstrType) /\ Len(<<>>) = 0
  OBVIOUS
<1>3. CASE cond
  BY <1>1, <1>3 DEF If, One
<1>4. CASE ~cond
  BY <1>2, <1>4 DEF If, One
<1>. QED
  BY <1>3, <1>4

LEMMA IsSegment ==
  ASSUME NEW X, NEW n \in Nat, NEW s, DOMAIN s = 1 .. n, NEW g,
         s = [k \in 1 .. n |-> g[k]], \A k \in 1 .. n : g[k] \in X
  PROVE  s \in Seq(X) /\ Len(s) = n
BY FunctionIsSeq

LEMMA ValsTyped ==
  ASSUME NEW d \in Int, NEW k \in Int, NEW i \in Int
  PROVE  /\ GPVal(d) \in Int /\ AllocaVal(d) \in Int /\ Handler \in Int
         /\ ReturnTo(d, k) \in Int /\ ArgVal(d, k, i) \in Int /\ LocalVal(d, k) \in Int
         /\ \A r \in KeptRegs : RegVal(d, r) \in Int
BY DEF GPVal, AllocaVal, Handler, ReturnTo, ArgVal, LocalVal, RegVal, Val, KeptRegs

LEMMA InstrsTyped ==
  ASSUME NEW n \in Int, NEW r \in RegNames, NEW q \in RegNames, NEW s \in SlotType,
         NEW k \in Nat
  PROVE  /\ AddSP(n) \in InstrType /\ St(r, s) \in InstrType /\ Ld(r, s) \in InstrType
         /\ StV(n, s) \in InstrType /\ Li(r, n) \in InstrType /\ Copy(r, q) \in InstrType
         /\ Call(k) \in InstrType /\ Jump(k) \in InstrType
         /\ AddSPV1 \in InstrType /\ Ret \in InstrType
BY DEF AddSP, St, Ld, StV, Li, Copy, Call, Jump, AddSPV1, Ret, InstrType

LEMMA SlotsTyped ==
  ASSUME NEW f \in Program, NEW off \in Int
  PROVE  /\ ObjSlot(f, off) \in SlotType /\ Slot("sp", off) \in SlotType
         /\ \A k \in Nat : SavedSlot(f, k) \in SlotType
         /\ f.calls # <<>> => GPSlot(f) \in SlotType /\ GPSlot(f).off \in Nat
                              /\ GPSlot(f).off % 4 = 0
<1>1. StackSize(f) \in Nat
  BY SizeOf DEF Sized
<1>2. FrameReg(f) \in {"sp", "fp"}
  BY DEF FrameReg
<1>3. ASSUME f.calls # <<>> PROVE Len(f.calls) \in DOMAIN f.calls
  BY <1>3, InProgram DEF FuncType
<1>4. ASSUME f.calls # <<>>
      PROVE  NextStackOffset(f, Len(f.calls)) \in Nat /\ NextStackOffset(f, Len(f.calls)) % 4 = 0
  BY <1>3, <1>4, SoundCalls DEF SoundCall
<1>5. ObjSlot(f, off) \in SlotType /\ Slot("sp", off) \in SlotType
  BY <1>1, <1>2 DEF ObjSlot, Slot, SlotType
<1>6. \A k \in Nat : SavedSlot(f, k) \in SlotType
  BY <1>1 DEF SavedSlot, Slot, SlotType
<1>7. f.calls # <<>> => GPSlot(f) \in SlotType /\ GPSlot(f).off \in Nat /\ GPSlot(f).off % 4 = 0
  BY <1>2, <1>4 DEF GPSlot, Slot, SlotType
<1>. QED
  BY <1>5, <1>6, <1>7

LEMMA RegsTyped ==
  ASSUME NEW f \in Program
  PROVE  /\ DOMAIN SavedRegs(f) = 1 .. Len(SavedRegs(f)) /\ Len(SavedRegs(f)) \in Nat
         /\ DOMAIN EhRegs(f) = 1 .. Len(EhRegs(f)) /\ Len(EhRegs(f)) \in Nat
         /\ \A k \in DOMAIN SavedRegs(f) : SavedRegs(f)[k] \in RegNames /\ SavedRegs(f)[k] \in SavedSet
         /\ \A k \in DOMAIN EhRegs(f) : EhRegs(f)[k] \in RegNames /\ EhRegs(f)[k] \in {"a0", "a1"}
         /\ f.locals \in Nat
         /\ \A k \in Nat : EhOffset(f, k) \in Int /\ LocalOffset(f, k) \in Int
<1>1. /\ SavedRegs(f) \in Seq(SavedSet) /\ EhRegs(f) \in Seq({"a0", "a1"})
      /\ Len(SavedRegs(f)) \in Nat /\ Len(EhRegs(f)) \in Nat /\ f.locals \in Nat
  BY SavedOf, EhRegsOf, SizeOf DEF SavedFacts, Sized
<1>2. SavedSet \subseteq RegNames /\ {"a0", "a1"} \subseteq RegNames
  BY DEF SavedSet, KeptRegs, RegNames
<1>3. \A k \in Nat : EhOffset(f, k) \in Int /\ LocalOffset(f, k) \in Int
  BY <1>1 DEF EhOffset, LocalOffset
<1>. QED
  BY SMTT(60), <1>1, <1>2, <1>3

LEMMA MovesTyped ==
  ASSUME NEW f \in Program
  PROVE  /\ \A k \in DOMAIN SavedRegs(f) :
              /\ St(SavedRegs(f)[k], SavedSlot(f, k)) \in InstrType
              /\ Ld(SavedRegs(f)[k], SavedSlot(f, k)) \in InstrType
         /\ \A k \in DOMAIN EhRegs(f) :
              /\ St(EhRegs(f)[k], ObjSlot(f, EhOffset(f, k))) \in InstrType
              /\ Ld(EhRegs(f)[k], ObjSlot(f, EhOffset(f, k))) \in InstrType
<1>1. \A r \in RegNames, s \in SlotType : St(r, s) \in InstrType /\ Ld(r, s) \in InstrType
  BY DEF St, Ld, InstrType
<1>2. ASSUME NEW k \in DOMAIN SavedRegs(f)
      PROVE  SavedRegs(f)[k] \in RegNames /\ SavedSlot(f, k) \in SlotType
  <2>1. k \in Nat
    BY RegsTyped
  <2>2. SavedSlot(f, k) \in SlotType
    BY <2>1, SlotsTyped
  <2>. QED
    BY <2>2, RegsTyped
<1>3. ASSUME NEW k \in DOMAIN EhRegs(f)
      PROVE  EhRegs(f)[k] \in RegNames /\ ObjSlot(f, EhOffset(f, k)) \in SlotType
  <2>1. k \in Nat
    BY RegsTyped
  <2>2. EhOffset(f, k) \in Int
    BY <2>1, RegsTyped
  <2>. QED
    BY <2>2, RegsTyped, SlotsTyped
<1>. QED
  BY <1>1, <1>2, <1>3

\* A segment of code: its length, and its instructions.
LEMMA StoresAre ==
  ASSUME NEW f \in Program
  PROVE  /\ SaveRegs(f) \in Seq(InstrType) /\ Len(SaveRegs(f)) = Len(SavedRegs(f))
         /\ \A k \in 1 .. Len(SaveRegs(f)) :
              SaveRegs(f)[k] = St(SavedRegs(f)[k], SavedSlot(f, k))
         /\ SaveEhData(f) \in Seq(InstrType) /\ Len(SaveEhData(f)) = Len(EhRegs(f))
         /\ \A k \in 1 .. Len(SaveEhData(f)) :
              SaveEhData(f)[k] = St(EhRegs(f)[k], ObjSlot(f, EhOffset(f, k)))
<1>1. SaveRegs(f) \in [1 .. Len(SavedRegs(f)) -> InstrType]
  BY RegsTyped, MovesTyped DEF SaveRegs
<1>2. SaveEhData(f) \in [1 .. Len(EhRegs(f)) -> InstrType]
  BY RegsTyped, MovesTyped DEF SaveEhData
<1>3. SaveRegs(f) \in Seq(InstrType) /\ Len(SaveRegs(f)) = Len(SavedRegs(f))
  BY <1>1, RegsTyped, FunctionIsSeq
<1>4. SaveEhData(f) \in Seq(InstrType) /\ Len(SaveEhData(f)) = Len(EhRegs(f))
  BY <1>2, RegsTyped, FunctionIsSeq
<1>5. \A k \in DOMAIN SavedRegs(f) : SaveRegs(f)[k] = St(SavedRegs(f)[k], SavedSlot(f, k))
  BY DEF SaveRegs
<1>6. \A k \in DOMAIN EhRegs(f) : SaveEhData(f)[k] = St(EhRegs(f)[k], ObjSlot(f, EhOffset(f, k)))
  BY DEF SaveEhData
<1>. QED
  BY <1>3, <1>4, <1>5, <1>6, RegsTyped

LEMMA LoadsAre ==
  ASSUME NEW f \in Program
  PROVE  /\ LoadEhData(f) \in Seq(InstrType) /\ Len(LoadEhData(f)) = Len(EhRegs(f))
         /\ \A k \in 1 .. Len(LoadEhData(f)) :
              LoadEhData(f)[k] = Ld(EhRegs(f)[k], ObjSlot(f, EhOffset(f, k)))
         /\ LoadRegs(f) \in Seq(InstrType) /\ Len(LoadRegs(f)) = Len(SavedRegs(f))
         /\ \A j \in 1 .. Len(LoadRegs(f)) :
              \E k \in 1 .. Len(SavedRegs(f)) :
                 /\ k = Len(SavedRegs(f)) + 1 - j
                 /\ LoadRegs(f)[j] = Ld(SavedRegs(f)[k], SavedSlot(f, k))
<1> DEFINE s == [k \in DOMAIN SavedRegs(f) |-> Ld(SavedRegs(f)[k], SavedSlot(f, k))]
           n == Len(SavedRegs(f))
<1>1. LoadEhData(f) \in [1 .. Len(EhRegs(f)) -> InstrType]
  BY RegsTyped, MovesTyped DEF LoadEhData
<1>2. LoadEhData(f) \in Seq(InstrType) /\ Len(LoadEhData(f)) = Len(EhRegs(f))
  BY <1>1, RegsTyped, FunctionIsSeq
<1>3. \A k \in DOMAIN EhRegs(f) : LoadEhData(f)[k] = Ld(EhRegs(f)[k], ObjSlot(f, EhOffset(f, k)))
  BY DEF LoadEhData
<1>4. s \in [1 .. n -> InstrType]
  BY RegsTyped, MovesTyped
<1>5. s \in Seq(InstrType) /\ Len(s) = n /\ n \in Nat
  BY <1>4, RegsTyped, FunctionIsSeq
<1>6. LoadRegs(f) = [j \in 1 .. n |-> s[n - j + 1]]
  BY <1>5 DEF LoadRegs, Reverse
<1>7. ASSUME NEW j \in 1 .. n
      PROVE  \E k \in 1 .. n : k = n + 1 - j /\ LoadRegs(f)[j] = Ld(SavedRegs(f)[k], SavedSlot(f, k))
  <2>1. n + 1 - j \in 1 .. n /\ n + 1 - j = n - j + 1
    BY <1>5
  <2>2. LoadRegs(f)[j] = s[n + 1 - j]
    <3>. HIDE DEF s, n
    <3>. QED
      BY <1>6, <2>1
  <2>3. \A k \in 1 .. n : s[k] = Ld(SavedRegs(f)[k], SavedSlot(f, k))
    BY RegsTyped
  <2>. HIDE DEF s, n
  <2>. QED
    BY <2>1, <2>2, <2>3
<1>8. LoadRegs(f) \in [1 .. n -> InstrType]
  <2>1. ASSUME NEW j \in 1 .. n PROVE s[n - j + 1] \in InstrType
    <3>1. n - j + 1 \in 1 .. n
      BY <1>5
    <3>. HIDE DEF s, n
    <3>. QED
      BY <1>4, <3>1
  <2>. HIDE DEF s, n
  <2>. QED
    BY <1>6, <2>1
<1>9. LoadRegs(f) \in Seq(InstrType) /\ Len(LoadRegs(f)) = n
  BY <1>5, <1>8, FunctionIsSeq
<1>. QED
  BY <1>2, <1>3, <1>7, <1>9, RegsTyped

LEMMA HomeArgsAre ==
  ASSUME NEW f \in Program
  PROVE  /\ HomeArgs(f) \in Seq(InstrType) /\ Len(HomeArgs(f)) = Len(Homed(f))
         /\ Len(Homed(f)) \in Nat /\ DOMAIN Homed(f) = 1 .. Len(Homed(f))
         /\ \A k \in 1 .. Len(HomeArgs(f)) :
              HomeArgs(f)[k] = St(ArgReg(Homed(f)[k].reg), ObjSlot(f, Homed(f)[k].off))
<1>1. Len(Homed(f)) \in Nat /\ DOMAIN Homed(f) = 1 .. Len(Homed(f))
  BY Incoming
<1>2. HomeArgs(f)
        = [k \in DOMAIN Homed(f) |-> St(ArgReg(Homed(f)[k].reg), ObjSlot(f, Homed(f)[k].off))]
  BY DEF HomeArgs, Homed
<1>3. ASSUME NEW k \in DOMAIN Homed(f)
      PROVE  St(ArgReg(Homed(f)[k].reg), ObjSlot(f, Homed(f)[k].off)) \in InstrType
  <2>1. PICK x \in {0, 1} : Homed(f)[k] = [reg |-> x, off |-> 4 * x]
    BY HomesOf
  <2>2. Homed(f)[k].reg = x /\ Homed(f)[k].off = 4 * x /\ 4 * x \in Int
    BY <2>1
  <2>3. ArgReg(x) \in RegNames
    BY DEF ArgReg, RegNames
  <2>. QED
    BY <2>2, <2>3, SlotsTyped, InstrsTyped
<1>4. HomeArgs(f) \in [1 .. Len(Homed(f)) -> InstrType]
  BY <1>1, <1>2, <1>3
<1>5. HomeArgs(f) \in Seq(InstrType) /\ Len(HomeArgs(f)) = Len(Homed(f))
  BY <1>1, <1>4, FunctionIsSeq
<1>. QED
  BY <1>1, <1>2, <1>5

\* What the p-th instruction of a function is.
EnterInstr(f, d, p, i) ==
  \/ f.pic /\ p = 1 /\ i = Li("gp", GPVal(d))
  \/ HasFrame(f) /\ p = AfterCpload(f) + 1 /\ i = AddSP(-StackSize(f))
  \/ \E k \in 1 .. Len(SavedRegs(f)) :
       p = AfterAllocate(f) + k /\ i = St(SavedRegs(f)[k], SavedSlot(f, k))
  \/ \E k \in 1 .. Len(EhRegs(f)) :
       p = AfterSaves(f) + k /\ i = St(EhRegs(f)[k], ObjSlot(f, EhOffset(f, k)))
  \/ HasFP(f) /\ p = AfterEh(f) + 1 /\ i = Copy("fp", "sp")
  \/ /\ HasFrame(f) /\ NeedsGPSlot(f)
     /\ p = AfterFP(f) + 1 /\ i = St("gp", Slot("sp", GPSlot(f).off))
  \/ \E k \in 1 .. Len(Homed(f)) :
       p = AfterGP(f) + k /\ i = St(ArgReg(Homed(f)[k].reg), ObjSlot(f, Homed(f)[k].off))

\* A part of code that there is only under a condition.
Optional(s, cond, i) ==
  /\ s \in Seq(InstrType) /\ Len(s) = One(cond)
  /\ \A k \in 1 .. Len(s) : cond /\ k = 1 /\ s[k] = i

LEMMA OptionalParts ==
  ASSUME NEW f \in Program, NEW d \in Nat
  PROVE  /\ Optional(Cpload(f, d), f.pic, Li("gp", GPVal(d)))
         /\ Optional(AllocateFrame(f), HasFrame(f), AddSP(-StackSize(f)))
         /\ Optional(SetFP(f), HasFP(f), Copy("fp", "sp"))
         /\ Optional(CpRestore(f), HasFrame(f) /\ NeedsGPSlot(f), St("gp", Slot("sp", GPSlot(f).off)))
         /\ Optional(RestoreSP(f), HasFP(f), Copy("sp", "fp"))
         /\ Optional(FreeFrame(f), StackSize(f) # 0, AddSP(StackSize(f)))
<1>1. StackSize(f) \in Int /\ -StackSize(f) \in Int /\ GPVal(d) \in Int
  <2>1. StackSize(f) \in Nat
    BY SizeOf DEF Sized
  <2>2. GPVal(d) \in Int
    BY DEF GPVal, Val
  <2>. QED
    BY <2>1, <2>2
<1>2. {"gp", "sp", "fp"} \subseteq RegNames
  BY DEF RegNames
<1>3. Optional(Cpload(f, d), f.pic, Li("gp", GPVal(d)))
  <2>1. Li("gp", GPVal(d)) \in InstrType
    BY <1>1, <1>2 DEF Li, InstrType
  <2>. QED
    BY <2>1, IfOne DEF Optional, Cpload
<1>4. Optional(AllocateFrame(f), HasFrame(f), AddSP(-StackSize(f)))
  <2>1. AddSP(-StackSize(f)) \in InstrType
    BY <1>1 DEF AddSP, InstrType
  <2>. QED
    BY <2>1, IfOne DEF Optional, AllocateFrame
<1>5. Optional(FreeFrame(f), StackSize(f) # 0, AddSP(StackSize(f)))
  <2>1. AddSP(StackSize(f)) \in InstrType
    BY <1>1 DEF AddSP, InstrType
  <2>. QED
    BY <2>1, IfOne DEF Optional, FreeFrame
<1>6. Copy("fp", "sp") \in InstrType /\ Copy("sp", "fp") \in InstrType
  BY <1>2 DEF Copy, InstrType
<1>7. Optional(SetFP(f), HasFP(f), Copy("fp", "sp"))
  BY <1>6, IfOne DEF Optional, SetFP
<1>8. Optional(RestoreSP(f), HasFP(f), Copy("sp", "fp"))
  BY <1>6, IfOne DEF Optional, RestoreSP
<1>9. Optional(CpRestore(f), HasFrame(f) /\ NeedsGPSlot(f), St("gp", Slot("sp", GPSlot(f).off)))
  <2>1. CASE NeedsGPSlot(f)
    <3>1. GPSlot(f).off \in Nat
      BY <2>1, SlotsTyped DEF NeedsGPSlot
    <3>2. St("gp", Slot("sp", GPSlot(f).off)) \in InstrType
      BY <1>2, <3>1 DEF St, Slot, SlotType, InstrType
    <3>. QED
      BY <3>2, IfOne DEF Optional, CpRestore
  <2>2. CASE ~NeedsGPSlot(f)
    <3>1. CpRestore(f) = <<>> /\ One(HasFrame(f) /\ NeedsGPSlot(f)) = 0
      BY <2>2 DEF CpRestore, If, One
    <3>2. <<>> \in Seq(InstrType) /\ Len(<<>>) = 0
      OBVIOUS
    <3>. QED
      BY <3>1, <3>2 DEF Optional
  <2>. QED
    BY <2>1, <2>2
<1>. QED
  BY <1>3, <1>4, <1>5, <1>7, <1>8, <1>9

LEMMA OneTyped == \A cond : One(cond) \in {0, 1} /\ (cond => One(cond) = 1) /\ (~cond => One(cond) = 0)
BY DEF One

\* Where the parts of a prologue end.
Places(f) ==
  /\ AfterCpload(f) \in Nat /\ AfterAllocate(f) \in Nat /\ AfterSaves(f) \in Nat
  /\ AfterEh(f) \in Nat /\ AfterFP(f) \in Nat /\ AfterGP(f) \in Nat
  /\ AfterCpload(f) = IF f.pic THEN 1 ELSE 0
  /\ AfterAllocate(f) = AfterCpload(f) + IF HasFrame(f) THEN 1 ELSE 0
  /\ AfterSaves(f) = AfterAllocate(f) + Len(SavedRegs(f))
  /\ AfterEh(f) = AfterSaves(f) + Len(EhRegs(f))
  /\ AfterFP(f) = AfterEh(f) + IF HasFP(f) THEN 1 ELSE 0
  /\ AfterGP(f) = AfterFP(f) + IF HasFrame(f) /\ NeedsGPSlot(f) THEN 1 ELSE 0

LEMMA PlacesOf ==
  ASSUME NEW f \in Program
  PROVE  Places(f)
<1>1. Len(SavedRegs(f)) \in Nat /\ Len(EhRegs(f)) \in Nat
  BY RegsTyped
<1>. QED
  BY <1>1 DEF Places, AfterCpload, AfterAllocate, AfterSaves, AfterEh, AfterFP, AfterGP, One

LEMMA EnterIs ==
  ASSUME NEW f \in Program, NEW d \in Nat
  PROVE  /\ EnterCode(f, d) \in Seq(InstrType)
         /\ Len(EnterCode(f, d)) = AfterGP(f) + Len(Homed(f))
         /\ \A p \in 1 .. Len(EnterCode(f, d)) : EnterInstr(f, d, p, EnterCode(f, d)[p])
<1> DEFINE c1 == Cpload(f, d)
           c2 == c1 \o AllocateFrame(f)
           c3 == c2 \o SaveRegs(f)
           c4 == c3 \o SaveEhData(f)
           c5 == c4 \o SetFP(f)
           c6 == c5 \o CpRestore(f)
           c7 == c6 \o HomeArgs(f)
<1>1. /\ Optional(Cpload(f, d), f.pic, Li("gp", GPVal(d)))
      /\ Optional(AllocateFrame(f), HasFrame(f), AddSP(-StackSize(f)))
      /\ Optional(SetFP(f), HasFP(f), Copy("fp", "sp"))
      /\ Optional(CpRestore(f), HasFrame(f) /\ NeedsGPSlot(f), St("gp", Slot("sp", GPSlot(f).off)))
  BY OptionalParts
<1>. HIDE DEF c1, c2, c3, c4, c5, c6, c7
<1>2. /\ c1 \in Seq(InstrType) /\ Len(c1) = AfterCpload(f)
      /\ \A p \in 1 .. Len(c1) : EnterInstr(f, d, p, c1[p])
  BY <1>1 DEF c1, Optional, EnterInstr, AfterCpload
<1>3. /\ c2 \in Seq(InstrType) /\ Len(c2) = AfterAllocate(f)
      /\ \A p \in 1 .. Len(c2) : EnterInstr(f, d, p, c2[p])
  <2>1. c2 = c1 \o AllocateFrame(f) /\ AllocateFrame(f) \in Seq(InstrType)
    BY <1>1 DEF c2, Optional
  <2>2. c2 \in Seq(InstrType) /\ Joined(c2, c1, AllocateFrame(f))
    BY <1>2, <2>1, JoinAt
  <2>3. ASSUME NEW k \in 1 .. Len(AllocateFrame(f))
        PROVE  EnterInstr(f, d, Len(c1) + k, AllocateFrame(f)[k])
    BY <1>1, <1>2, <2>3 DEF Optional, EnterInstr
  <2>. QED
    BY <1>1, <1>2, <2>2, <2>3 DEF Joined, Optional, AfterAllocate
<1>4. /\ c3 \in Seq(InstrType) /\ Len(c3) = AfterSaves(f)
      /\ \A p \in 1 .. Len(c3) : EnterInstr(f, d, p, c3[p])
  <2>1. c3 = c2 \o SaveRegs(f) /\ SaveRegs(f) \in Seq(InstrType)
    BY StoresAre DEF c3
  <2>2. c3 \in Seq(InstrType) /\ Joined(c3, c2, SaveRegs(f))
    BY <1>3, <2>1, JoinAt
  <2>3. ASSUME NEW k \in 1 .. Len(SaveRegs(f))
        PROVE  EnterInstr(f, d, Len(c2) + k, SaveRegs(f)[k])
    BY <1>3, <2>3, StoresAre DEF EnterInstr
  <2>. QED
    BY <1>3, <2>2, <2>3, StoresAre DEF Joined, AfterSaves
<1>5. /\ c4 \in Seq(InstrType) /\ Len(c4) = AfterEh(f)
      /\ \A p \in 1 .. Len(c4) : EnterInstr(f, d, p, c4[p])
  <2>1. c4 = c3 \o SaveEhData(f) /\ SaveEhData(f) \in Seq(InstrType)
    BY StoresAre DEF c4
  <2>2. c4 \in Seq(InstrType) /\ Joined(c4, c3, SaveEhData(f))
    BY <1>4, <2>1, JoinAt
  <2>3. ASSUME NEW k \in 1 .. Len(SaveEhData(f))
        PROVE  EnterInstr(f, d, Len(c3) + k, SaveEhData(f)[k])
    BY <1>4, <2>3, StoresAre DEF EnterInstr
  <2>. QED
    BY <1>4, <2>2, <2>3, StoresAre DEF Joined, AfterEh
<1>6. /\ c5 \in Seq(InstrType) /\ Len(c5) = AfterFP(f)
      /\ \A p \in 1 .. Len(c5) : EnterInstr(f, d, p, c5[p])
  <2>1. c5 = c4 \o SetFP(f) /\ SetFP(f) \in Seq(InstrType)
    BY <1>1 DEF c5, Optional
  <2>2. c5 \in Seq(InstrType) /\ Joined(c5, c4, SetFP(f))
    BY <1>5, <2>1, JoinAt
  <2>3. ASSUME NEW k \in 1 .. Len(SetFP(f))
        PROVE  EnterInstr(f, d, Len(c4) + k, SetFP(f)[k])
    BY <1>1, <1>5, <2>3 DEF Optional, EnterInstr
  <2>. QED
    BY <1>1, <1>5, <2>2, <2>3 DEF Joined, Optional, AfterFP
<1>7. /\ c6 \in Seq(InstrType) /\ Len(c6) = AfterGP(f)
      /\ \A p \in 1 .. Len(c6) : EnterInstr(f, d, p, c6[p])
  <2>1. c6 = c5 \o CpRestore(f) /\ CpRestore(f) \in Seq(InstrType)
    BY <1>1 DEF c6, Optional
  <2>2. c6 \in Seq(InstrType) /\ Joined(c6, c5, CpRestore(f))
    BY <1>6, <2>1, JoinAt
  <2>3. ASSUME NEW k \in 1 .. Len(CpRestore(f))
        PROVE  EnterInstr(f, d, Len(c5) + k, CpRestore(f)[k])
    BY <1>1, <1>6, <2>3 DEF Optional, EnterInstr
  <2>. QED
    BY <1>1, <1>6, <2>2, <2>3 DEF Joined, Optional, AfterGP
<1>8. /\ c7 \in Seq(InstrType) /\ Len(c7) = AfterGP(f) + Len(Homed(f))
      /\ \A p \in 1 .. Len(c7) : EnterInstr(f, d, p, c7[p])
  <2>1. c7 = c6 \o HomeArgs(f) /\ HomeArgs(f) \in Seq(InstrType)
    BY HomeArgsAre DEF c7
  <2>2. c7 \in Seq(InstrType) /\ Joined(c7, c6, HomeArgs(f))
    BY <1>7, <2>1, JoinAt
  <2>3. ASSUME NEW k \in 1 .. Len(HomeArgs(f))
        PROVE  EnterInstr(f, d, Len(c6) + k, HomeArgs(f)[k])
    BY <1>7, <2>3, HomeArgsAre DEF EnterInstr
  <2>. QED
    BY <1>7, <2>2, <2>3, HomeArgsAre DEF Joined
<1>9. EnterCode(f, d) = c7
  BY DEF EnterCode, Prologue, c7, c6, c5, c4, c3, c2, c1
<1>. QED
  BY <1>8, <1>9

-----------------------------------------------------------------------------
(***************************************************************************)
(* The words that a call passes are put in place one after the other.      *)
(***************************************************************************)
\* s holds the indexes up to n of the words in places of S, all of them.
Picks(s, words, S, n) ==
  /\ s \in Seq(1 .. Len(words))
  /\ \A i \in 1 .. n : words[i].reg \in S => \E j \in DOMAIN s : s[j] = i

LEMMA ChosenIs ==
  ASSUME NEW words \in Seq(WordType), NEW S
  PROVE  Picks(Chosen(words, S), words, S, Len(words))
<1> DEFINE N == Len(words)
           V == Seq(1 .. N)
           Next1(s, n) == IF words[n].reg \in S THEN Append(s, n) ELSE s
           g == [v \in V \X (1 .. N) |-> Next1(v[1], v[2])]
           F(f) == [n \in 0 .. N |-> IF n = 0 THEN <<>>
                      ELSE IF words[n].reg \in S THEN Append(f[n - 1], n) ELSE f[n - 1]]
           d == CHOOSE f : f = F(f)
<1>1. N \in Nat
  OBVIOUS
<1>2. ASSUME NEW s \in V, NEW n \in 1 .. N PROVE Next1(s, n) \in V
  <2>1. Append(s, n) \in Seq(1 .. N)
    <3>. HIDE DEF N
    <3>. QED
      BY AppendProperties
  <2>. QED
    BY <2>1
<1>3. StepOn(g, V, 0, N)
  <2>. HIDE DEF V, N, Next1
  <2>. QED
    BY <1>2 DEF StepOn
<1>4. PICK f : f \in [0 .. N -> V] /\ IsRecursion(f, <<>>, g, 0, N)
  <2>1. <<>> \in V /\ 0 \in Int /\ N \in Int /\ 0 <= N
    BY <1>1
  <2>. HIDE DEF g, N, V
  <2>. QED
    BY <1>3, <2>1, RecursionExists
<1>5. f = F(f)
  <2>1. ASSUME NEW n \in 0 .. N, n # 0 PROVE f[n] = Next1(f[n - 1], n)
    <3>1. n \in 0 + 1 .. N /\ n \in 1 .. N /\ n - 1 \in 0 .. N
      <4>. HIDE DEF N
      <4>. QED
        BY <1>1, <2>1
    <3>2. f[n - 1] \in V
      BY <1>4, <3>1
    <3>3. f[n] = g[<<f[n - 1], n>>]
      <4>. HIDE DEF g, N
      <4>. QED
        BY <1>4, <3>1 DEF IsRecursion
    <3>4. <<f[n - 1], n>> \in V \X (1 .. N)
      BY <3>1, <3>2
    <3>. HIDE DEF V, N, Next1
    <3>. QED
      BY <3>3, <3>4
  <2>2. f[0] = <<>>
    <3>. HIDE DEF g, N
    <3>. QED
      BY <1>4 DEF IsRecursion
  <2>. HIDE DEF V, N
  <2>. QED
    BY <1>4, <2>1, <2>2
<1>6. d = F(d)
  <2>. HIDE DEF F
  <2>. QED
    BY <1>5
<1> DEFINE T == {n \in 0 .. N : Picks(d[n], words, S, n)}
<1>7. 0 \in T
  <2>1. d[0] = <<>> /\ 0 \in 0 .. N
    <3>1. 0 \in 0 .. N
      BY <1>1
    <3>. HIDE DEF d, N
    <3>. QED
      BY <1>6, <3>1
  <2>2. Picks(<<>>, words, S, 0)
    BY DEF Picks
  <2>. HIDE DEF d, N
  <2>. QED
    BY <2>1, <2>2
<1>8. ASSUME NEW n \in 0 .. N - 1, n \in T PROVE n + 1 \in T
  <2>1. n + 1 \in 0 .. N /\ n + 1 # 0 /\ (n + 1) - 1 = n /\ n + 1 \in 1 .. N /\ n \in Nat
    <3>. HIDE DEF N, d
    <3>. QED
      BY <1>1
  <2>2. d[n + 1] = Next1(d[n], n + 1)
    <3>. HIDE DEF d, N
    <3>. QED
      BY <1>6, <2>1
  <2>3. Picks(d[n], words, S, n)
    BY <1>8
  <2>. HIDE DEF d
  <2>4. CASE words[n + 1].reg \in S
    <3>1. PICK s \in Seq(1 .. N) : s = d[n]
      BY <2>3 DEF Picks
    <3>2. d[n + 1] = Append(s, n + 1)
      BY <2>2, <2>4, <3>1
    <3>3. /\ Append(s, n + 1) \in Seq(1 .. N)
          /\ Len(Append(s, n + 1)) = Len(s) + 1 /\ Len(s) \in Nat
          /\ Append(s, n + 1)[Len(s) + 1] = n + 1
          /\ \A j \in 1 .. Len(s) : Append(s, n + 1)[j] = s[j]
      <4>. HIDE DEF N
      <4>. QED
        BY <2>1, AppendProperties
    <3>4. \A i \in 1 .. n : words[i].reg \in S => \E j \in 1 .. Len(s) : s[j] = i
      <4>1. DOMAIN s = 1 .. Len(s)
        OBVIOUS
      <4>. QED
        BY <2>3, <3>1, <4>1 DEF Picks
    <3>5. ASSUME NEW i \in 1 .. n + 1, words[i].reg \in S
          PROVE  \E j \in DOMAIN Append(s, n + 1) : Append(s, n + 1)[j] = i
      <4>1. DOMAIN Append(s, n + 1) = 1 .. Len(s) + 1
        BY <3>3
      <4>2. CASE i = n + 1
        <5>1. Len(s) + 1 \in 1 .. Len(s) + 1
          BY <3>3
        <5>. QED
          BY <3>3, <4>1, <4>2, <5>1
      <4>3. CASE i # n + 1
        <5>1. i \in 1 .. n
          BY <2>1, <4>3
        <5>2. PICK j \in 1 .. Len(s) : s[j] = i
          BY <3>4, <3>5, <5>1
        <5>3. j \in 1 .. Len(s) + 1
          BY <3>3
        <5>. QED
          BY <3>3, <4>1, <5>2, <5>3
      <4>. QED
        BY <4>2, <4>3
    <3>. QED
      BY <2>1, <3>2, <3>3, <3>5 DEF Picks
  <2>5. CASE words[n + 1].reg \notin S
    <3>1. d[n + 1] = d[n]
      BY <2>2, <2>5
    <3>2. ASSUME NEW i \in 1 .. n + 1, words[i].reg \in S
          PROVE  i \in 1 .. n
      BY <2>1, <2>5, <3>2
    <3>. QED
      BY <2>1, <2>3, <3>1, <3>2 DEF Picks
  <2>. QED
    BY <2>4, <2>5
<1>9. N \in T
  <2>1. N \in 0 .. N /\ 0 \in Int /\ N \in Int
    BY <1>1
  <2>. HIDE DEF T, N
  <2>. QED
    BY <1>7, <1>8, <2>1, IntervalInduction
<1>10. Chosen(words, S) = d[N]
  BY DEF Chosen
<1>. HIDE DEF d
<1>. QED
  BY <1>9, <1>10

\* Every word has its turn.
Ordered(words) ==
  /\ Order(words) \in Seq(1 .. Len(words))
  /\ DOMAIN Order(words) = 1 .. Len(Order(words)) /\ Len(Order(words)) \in Nat
  /\ \A i \in DOMAIN words : \E j \in DOMAIN Order(words) : Order(words)[j] = i

LEMMA OrderIs ==
  ASSUME NEW words \in Seq(WordType), \A i \in DOMAIN words : words[i].reg \in {-1, 0, 1}
  PROVE  Ordered(words)
<1>1. PICK s \in Seq(1 .. Len(words)) :
        s = Chosen(words, {-1}) /\ Picks(s, words, {-1}, Len(words))
  <2>1. Picks(Chosen(words, {-1}), words, {-1}, Len(words))
    BY ChosenIs
  <2>2. Chosen(words, {-1}) \in Seq(1 .. Len(words))
    BY <2>1 DEF Picks
  <2>. QED
    BY <2>1, <2>2
<1>2. PICK t \in Seq(1 .. Len(words)) :
        t = Chosen(words, {0, 1}) /\ Picks(t, words, {0, 1}, Len(words))
  <2>1. Picks(Chosen(words, {0, 1}), words, {0, 1}, Len(words))
    BY ChosenIs
  <2>2. Chosen(words, {0, 1}) \in Seq(1 .. Len(words))
    BY <2>1 DEF Picks
  <2>. QED
    BY <2>1, <2>2
<1>3. PICK c : c = s \o t
  OBVIOUS
<1>4. c \in Seq(1 .. Len(words)) /\ Len(c) = Len(s) + Len(t) /\ DOMAIN c = 1 .. Len(c)
      /\ Len(s) \in Nat /\ Len(t) \in Nat /\ DOMAIN s = 1 .. Len(s) /\ DOMAIN t = 1 .. Len(t)
      /\ \A i \in 1 .. Len(s) + Len(t) : c[i] = IF i <= Len(s) THEN s[i] ELSE t[i - Len(s)]
  BY <1>3, ConcatProperties
<1>5. ASSUME NEW i \in DOMAIN words PROVE \E j \in DOMAIN c : c[j] = i
  <2>1. i \in 1 .. Len(words)
    OBVIOUS
  <2>2. CASE words[i].reg = -1
    <3>1. PICK j \in DOMAIN s : s[j] = i
      BY <1>1, <2>1, <2>2 DEF Picks
    <3>2. j \in 1 .. Len(s) + Len(t) /\ j <= Len(s)
      BY <1>4
    <3>. QED
      BY <1>4, <3>1, <3>2
  <2>3. CASE words[i].reg \in {0, 1}
    <3>1. PICK j \in DOMAIN t : t[j] = i
      BY <1>2, <2>1, <2>3 DEF Picks
    <3>2. j + Len(s) \in 1 .. Len(s) + Len(t) /\ ~(j + Len(s) <= Len(s))
          /\ (j + Len(s)) - Len(s) = j
      BY SMTT(60), <1>4
    <3>. QED
      BY <1>4, <3>1, <3>2
  <2>. QED
    BY <2>2, <2>3
<1>6. Order(words) = c
  BY <1>1, <1>2, <1>3 DEF Order
<1>. QED
  BY <1>4, <1>5, <1>6 DEF Ordered

LEMMA CallOrdered ==
  ASSUME NEW f \in Program, NEW k \in DOMAIN f.calls
  PROVE  /\ SentWords(f, k) \in Seq(WordType) /\ Ordered(SentWords(f, k))
         /\ \A i \in DOMAIN SentWords(f, k) :
              \/ SentWords(f, k)[i].reg \in {0, 1}
              \/ /\ SentWords(f, k)[i].reg = -1
                 /\ SentWords(f, k)[i].off \in Nat /\ SentWords(f, k)[i].off % 4 = 0
                 /\ SentWords(f, k)[i].off + 4 <= NextStackOffset(f, k)
<1>1. CallWords(Cc(Callee(f, k)), SentWords(f, k), NextStackOffset(f, k))
  BY SoundCalls DEF SoundCall
<1>2. SentWords(f, k) \in Seq(WordType)
  BY <1>1 DEF CallWords
<1>3. \A i \in DOMAIN SentWords(f, k) : SentWords(f, k)[i].reg \in {-1, 0, 1}
  BY <1>1 DEF CallWords, InArea
<1>4. Ordered(SentWords(f, k))
  BY <1>2, <1>3, OrderIs
<1>5. \A i \in DOMAIN SentWords(f, k) :
              \/ SentWords(f, k)[i].reg \in {0, 1}
              \/ /\ SentWords(f, k)[i].reg = -1
                 /\ SentWords(f, k)[i].off \in Nat /\ SentWords(f, k)[i].off % 4 = 0
                 /\ SentWords(f, k)[i].off + 4 <= NextStackOffset(f, k)
  BY <1>1 DEF CallWords, InArea
<1>. QED
  BY <1>2, <1>4, <1>5

\* The j-th word that the k-th call of f passes.
Turn(f, k, j) == Order(SentWords(f, k))[j]
Turns(f, k)   == Len(Order(SentWords(f, k)))

LEMMA TurnOf ==
  ASSUME NEW f \in Program, NEW k \in DOMAIN f.calls
  PROVE  /\ Turns(f, k) \in Nat /\ DOMAIN Order(SentWords(f, k)) = 1 .. Turns(f, k)
         /\ \A j \in 1 .. Turns(f, k) : Turn(f, k, j) \in DOMAIN SentWords(f, k)
         /\ \A i \in DOMAIN SentWords(f, k) : \E j \in 1 .. Turns(f, k) : Turn(f, k, j) = i
<1>1. Ordered(SentWords(f, k)) /\ SentWords(f, k) \in Seq(WordType)
  BY CallOrdered
<1>2. DOMAIN SentWords(f, k) = 1 .. Len(SentWords(f, k))
  BY <1>1
<1>. QED
  BY <1>1, <1>2 DEF Ordered, Turn, Turns

PassInstr(f, d, k, area, j, i) ==
  i = PassWord(SentWords(f, k)[Turn(f, k, j)], ArgVal(d, k, Turn(f, k, j)), area)

LEMMA PassArgsAre ==
  ASSUME NEW f \in Program, NEW d \in Nat, NEW k \in DOMAIN f.calls, NEW area \in SlotType
  PROVE  /\ PassArgs(f, d, k, area) \in Seq(InstrType)
         /\ Len(PassArgs(f, d, k, area)) = Turns(f, k)
         /\ \A j \in 1 .. Turns(f, k) :
              PassInstr(f, d, k, area, j, PassArgs(f, d, k, area)[j])
<1>1. PassArgs(f, d, k, area)
        = [j \in 1 .. Turns(f, k) |->
             PassWord(SentWords(f, k)[Turn(f, k, j)], ArgVal(d, k, Turn(f, k, j)), area)]
  BY TurnOf DEF PassArgs, Turn
<1>2. ASSUME NEW i \in DOMAIN SentWords(f, k)
      PROVE  PassWord(SentWords(f, k)[i], ArgVal(d, k, i), area) \in InstrType
  <2>1. i \in Nat /\ k \in Nat
    <3>1. f.calls \in Seq(CallType) /\ SentWords(f, k) \in Seq(WordType)
      BY InProgram, CallOrdered DEF FuncType
    <3>. QED
      BY <3>1
  <2>2. ArgVal(d, k, i) \in Int
    BY <2>1 DEF ArgVal, Val
  <2>3. CASE SentWords(f, k)[i].reg \in {0, 1}
    <3>1. ArgReg(SentWords(f, k)[i].reg) \in RegNames
      BY DEF ArgReg, RegNames
    <3>. QED
      BY <2>2, <2>3, <3>1 DEF PassWord, Li, InstrType
  <2>4. CASE SentWords(f, k)[i].reg = -1 /\ SentWords(f, k)[i].off \in Nat
    <3>1. Slot(area.base, area.off + SentWords(f, k)[i].off) \in SlotType
      BY <2>4 DEF Slot, SlotType
    <3>. QED
      BY <2>2, <2>4, <3>1 DEF PassWord, StV, InstrType
  <2>. QED
    BY <2>3, <2>4, CallOrdered
<1>3. PassArgs(f, d, k, area) \in [1 .. Turns(f, k) -> InstrType]
  BY <1>1, <1>2, TurnOf
<1>4. PassArgs(f, d, k, area) \in Seq(InstrType) /\ Len(PassArgs(f, d, k, area)) = Turns(f, k)
  BY <1>3, TurnOf, FunctionIsSeq
<1>. QED
  BY <1>1, <1>4 DEF PassInstr

EpilogueInstr(f, q, i) ==
  \/ HasFP(f) /\ q = 1 /\ i = Copy("sp", "fp")
  \/ \E k \in 1 .. Len(EhRegs(f)) :
       q = AfterSP(f) + k /\ i = Ld(EhRegs(f)[k], ObjSlot(f, EhOffset(f, k)))
  \/ \E k \in 1 .. Len(SavedRegs(f)) :
       q = AfterLoads(f) + 1 - k /\ i = Ld(SavedRegs(f)[k], SavedSlot(f, k))
  \/ StackSize(f) # 0 /\ q = AfterLoads(f) + 1 /\ i = AddSP(StackSize(f))

Ends(f) ==
  /\ AfterSP(f) \in Nat /\ AfterEhLoads(f) \in Nat /\ AfterLoads(f) \in Nat /\ AfterFree(f) \in Nat
  /\ AfterSP(f) = IF HasFP(f) THEN 1 ELSE 0
  /\ AfterEhLoads(f) = AfterSP(f) + Len(EhRegs(f))
  /\ AfterLoads(f) = AfterEhLoads(f) + Len(SavedRegs(f))
  /\ AfterFree(f) = AfterLoads(f) + IF StackSize(f) # 0 THEN 1 ELSE 0

LEMMA EndsOf ==
  ASSUME NEW f \in Program
  PROVE  Ends(f)
<1>1. Len(SavedRegs(f)) \in Nat /\ Len(EhRegs(f)) \in Nat
  BY RegsTyped
<1>2. /\ AfterSP(f) \in Nat /\ AfterEhLoads(f) \in Nat /\ AfterLoads(f) \in Nat
      /\ AfterSP(f) = IF HasFP(f) THEN 1 ELSE 0
      /\ AfterEhLoads(f) = AfterSP(f) + Len(EhRegs(f))
      /\ AfterLoads(f) = AfterEhLoads(f) + Len(SavedRegs(f))
  BY <1>1 DEF AfterSP, AfterEhLoads, AfterLoads, One
<1>3. CASE StackSize(f) # 0
  BY <1>2, <1>3 DEF Ends, AfterFree, One
<1>4. CASE StackSize(f) = 0
  BY <1>2, <1>4 DEF Ends, AfterFree, One
<1>. QED
  BY <1>3, <1>4

LEMMA EpilogueIs ==
  ASSUME NEW f \in Program
  PROVE  /\ Epilogue(f) \in Seq(InstrType) /\ Len(Epilogue(f)) = AfterFree(f)
         /\ \A q \in 1 .. AfterFree(f) : EpilogueInstr(f, q, Epilogue(f)[q])
<1> DEFINE c1 == RestoreSP(f)
           c2 == c1 \o LoadEhData(f)
           c3 == c2 \o LoadRegs(f)
           c4 == c3 \o FreeFrame(f)
<1>1. /\ Optional(RestoreSP(f), HasFP(f), Copy("sp", "fp"))
      /\ Optional(FreeFrame(f), StackSize(f) # 0, AddSP(StackSize(f)))
  <2>1. 0 \in Nat
    OBVIOUS
  <2>. QED
    BY <2>1, OptionalParts
<1>. HIDE DEF c1, c2, c3, c4
<1>2. /\ c1 \in Seq(InstrType) /\ Len(c1) = AfterSP(f)
      /\ \A p \in 1 .. Len(c1) : EpilogueInstr(f, p, c1[p])
  BY <1>1 DEF c1, Optional, EpilogueInstr, AfterSP
<1>3. /\ c2 \in Seq(InstrType) /\ Len(c2) = AfterEhLoads(f)
      /\ \A p \in 1 .. Len(c2) : EpilogueInstr(f, p, c2[p])
  <2>1. c2 = c1 \o LoadEhData(f) /\ LoadEhData(f) \in Seq(InstrType)
    BY LoadsAre DEF c2
  <2>2. c2 \in Seq(InstrType) /\ Joined(c2, c1, LoadEhData(f))
    BY <1>2, <2>1, JoinAt
  <2>3. ASSUME NEW k \in 1 .. Len(LoadEhData(f))
        PROVE  EpilogueInstr(f, Len(c1) + k, LoadEhData(f)[k])
    BY <1>2, <2>3, LoadsAre DEF EpilogueInstr
  <2>. QED
    BY <1>2, <2>2, <2>3, LoadsAre DEF Joined, AfterEhLoads
<1>4. /\ c3 \in Seq(InstrType) /\ Len(c3) = AfterLoads(f)
      /\ \A p \in 1 .. Len(c3) : EpilogueInstr(f, p, c3[p])
  <2>1. c3 = c2 \o LoadRegs(f) /\ LoadRegs(f) \in Seq(InstrType)
    BY LoadsAre DEF c3
  <2>2. c3 \in Seq(InstrType) /\ Joined(c3, c2, LoadRegs(f))
    BY <1>3, <2>1, JoinAt
  <2>3. ASSUME NEW j \in 1 .. Len(LoadRegs(f))
        PROVE  EpilogueInstr(f, Len(c2) + j, LoadRegs(f)[j])
    <3>1. PICK k \in 1 .. Len(SavedRegs(f)) :
            k = Len(SavedRegs(f)) + 1 - j /\ LoadRegs(f)[j] = Ld(SavedRegs(f)[k], SavedSlot(f, k))
      BY LoadsAre
    <3>2. Len(c2) + j = AfterLoads(f) + 1 - k
      BY <1>3, <3>1, EndsOf, RegsTyped DEF Ends
    <3>. QED
      BY <3>1, <3>2 DEF EpilogueInstr
  <2>. QED
    BY <1>3, <2>2, <2>3, LoadsAre DEF Joined, AfterLoads
<1>5. /\ c4 \in Seq(InstrType) /\ Len(c4) = AfterFree(f)
      /\ \A p \in 1 .. Len(c4) : EpilogueInstr(f, p, c4[p])
  <2>1. c4 = c3 \o FreeFrame(f) /\ FreeFrame(f) \in Seq(InstrType)
    BY <1>1 DEF c4, Optional
  <2>2. c4 \in Seq(InstrType) /\ Joined(c4, c3, FreeFrame(f))
    BY <1>4, <2>1, JoinAt
  <2>3. ASSUME NEW k \in 1 .. Len(FreeFrame(f))
        PROVE  EpilogueInstr(f, Len(c3) + k, FreeFrame(f)[k])
    BY <1>1, <1>4, <2>3 DEF Optional, EpilogueInstr
  <2>. QED
    BY <1>1, <1>4, <2>2, <2>3 DEF Joined, Optional, AfterFree
<1>6. Epilogue(f) = c4
  BY DEF Epilogue, c4, c3, c2, c1
<1>. QED
  BY <1>5, <1>6

LeaveInstr(f, p, i) ==
  \/ p \in 1 .. AfterFree(f) /\ EpilogueInstr(f, p, i)
  \/ p = AfterFree(f) + 1 /\ i = Ret

ThrowInstr(f, p, i) ==
  \/ p \in 1 .. AfterFree(f) /\ EpilogueInstr(f, p, i)
  \/ p = AfterFree(f) + 1 /\ i = Copy("lr", "v0")
  \/ p = AfterFree(f) + 2 /\ i = AddSPV1
  \/ p = AfterFree(f) + 3 /\ i = Ret

LEMMA EndInstrs ==
  /\ <<Ret>> \in Seq(InstrType) /\ Len(<<Ret>>) = 1 /\ <<Ret>>[1] = Ret
  /\ <<Copy("lr", "v0"), AddSPV1, Ret>> \in Seq(InstrType)
  /\ Len(<<Copy("lr", "v0"), AddSPV1, Ret>>) = 3
  /\ <<Copy("lr", "v0"), AddSPV1, Ret>>[1] = Copy("lr", "v0")
  /\ <<Copy("lr", "v0"), AddSPV1, Ret>>[2] = AddSPV1
  /\ <<Copy("lr", "v0"), AddSPV1, Ret>>[3] = Ret
<1>1. Ret \in InstrType /\ AddSPV1 \in InstrType /\ Copy("lr", "v0") \in InstrType
  BY DEF Ret, AddSPV1, Copy, InstrType, RegNames
<1>2. ASSUME NEW x \in InstrType, NEW y \in InstrType, NEW z \in InstrType
      PROVE  /\ <<x>> \in Seq(InstrType) /\ Len(<<x>>) = 1 /\ <<x>>[1] = x
             /\ <<x, y, z>> \in Seq(InstrType) /\ Len(<<x, y, z>>) = 3
             /\ <<x, y, z>>[1] = x /\ <<x, y, z>>[2] = y /\ <<x, y, z>>[3] = z
  OBVIOUS
<1>. QED
  BY <1>1, <1>2

LEMMA LeaveIs ==
  ASSUME NEW f \in Program
  PROVE  /\ LeaveCode(f) \in Seq(InstrType) /\ Len(LeaveCode(f)) = AfterFree(f) + 1
         /\ \A p \in 1 .. Len(LeaveCode(f)) : LeaveInstr(f, p, LeaveCode(f)[p])
<1>1. /\ Epilogue(f) \in Seq(InstrType) /\ Len(Epilogue(f)) = AfterFree(f)
      /\ \A q \in 1 .. AfterFree(f) : EpilogueInstr(f, q, Epilogue(f)[q])
  BY EpilogueIs
<1>2. PICK e \in Seq(InstrType) : e = <<Ret>> /\ Len(e) = 1 /\ e[1] = Ret
  BY EndInstrs
<1>3. PICK c : c = Epilogue(f) \o e
  OBVIOUS
<1>4. c \in Seq(InstrType) /\ Joined(c, Epilogue(f), e)
  BY <1>1, <1>3, JoinAt
<1>5. Len(c) = AfterFree(f) + 1 /\ \A p \in 1 .. Len(c) : LeaveInstr(f, p, c[p])
  BY <1>1, <1>2, <1>4 DEF Joined, LeaveInstr
<1>6. LeaveCode(f) = c
  BY <1>2, <1>3 DEF LeaveCode
<1>. QED
  BY <1>4, <1>5, <1>6

LEMMA ThrowIs ==
  ASSUME NEW f \in Program
  PROVE  /\ EhReturnCode(f) \in Seq(InstrType) /\ Len(EhReturnCode(f)) = AfterFree(f) + 3
         /\ \A p \in 1 .. Len(EhReturnCode(f)) : ThrowInstr(f, p, EhReturnCode(f)[p])
<1>1. /\ Epilogue(f) \in Seq(InstrType) /\ Len(Epilogue(f)) = AfterFree(f)
      /\ \A q \in 1 .. AfterFree(f) : EpilogueInstr(f, q, Epilogue(f)[q])
  BY EpilogueIs
<1>2. PICK e \in Seq(InstrType) :
        /\ e = <<Copy("lr", "v0"), AddSPV1, Ret>> /\ Len(e) = 3
        /\ e[1] = Copy("lr", "v0") /\ e[2] = AddSPV1 /\ e[3] = Ret
  BY EndInstrs
<1>3. PICK c : c = Epilogue(f) \o e
  OBVIOUS
<1>4. c \in Seq(InstrType) /\ Joined(c, Epilogue(f), e)
  BY <1>1, <1>3, JoinAt
<1>5. Len(c) = AfterFree(f) + 3
  BY <1>1, <1>2, <1>4 DEF Joined
<1>6. ASSUME NEW k \in 1 .. 3 PROVE ThrowInstr(f, AfterFree(f) + k, e[k])
  <2>1. k = 1 \/ k = 2 \/ k = 3
    OBVIOUS
  <2>. QED
    BY <1>2, <2>1 DEF ThrowInstr
<1>7. \A p \in 1 .. AfterFree(f) : ThrowInstr(f, p, Epilogue(f)[p])
  BY <1>1 DEF ThrowInstr
<1>8. \A p \in 1 .. Len(c) : ThrowInstr(f, p, c[p])
  BY <1>1, <1>2, <1>4, <1>6, <1>7 DEF Joined
<1>9. EhReturnCode(f) = c
  BY <1>2, <1>3 DEF EhReturnCode
<1>. QED
  BY <1>4, <1>5, <1>8, <1>9

TailInstr(f, d, k, p, i) ==
  \/ p \in 1 .. Turns(f, k) /\ PassInstr(f, d, k, ObjSlot(f, 0), p, i)
  \/ \E q \in 1 .. AfterFree(f) : p = Turns(f, k) + q /\ EpilogueInstr(f, q, i)
  \/ p = Turns(f, k) + AfterFree(f) + 1 /\ i = Jump(k)

LEMMA TailIs ==
  ASSUME NEW f \in Program, NEW d \in Nat, NEW k \in DOMAIN f.calls
  PROVE  /\ TailCallCode(f, d, k) \in Seq(InstrType)
         /\ Len(TailCallCode(f, d, k)) = Turns(f, k) + AfterFree(f) + 1
         /\ \A p \in 1 .. Len(TailCallCode(f, d, k)) :
              TailInstr(f, d, k, p, TailCallCode(f, d, k)[p])
<1>1. /\ Epilogue(f) \in Seq(InstrType) /\ Len(Epilogue(f)) = AfterFree(f)
      /\ \A q \in 1 .. AfterFree(f) : EpilogueInstr(f, q, Epilogue(f)[q])
  BY EpilogueIs
<1>2. PICK j \in Seq(InstrType) : j = <<Jump(k)>> /\ Len(j) = 1 /\ j[1] = Jump(k)
  <2>1. k \in Nat
    <3>1. f.calls \in Seq(CallType)
      BY InProgram DEF FuncType
    <3>. QED
      BY <3>1
  <2>2. Jump(k) \in InstrType
    BY <2>1 DEF Jump, InstrType
  <2>3. <<Jump(k)>> \in Seq(InstrType) /\ Len(<<Jump(k)>>) = 1 /\ <<Jump(k)>>[1] = Jump(k)
    BY <2>2
  <2>. QED
    BY <2>3
<1>3. PICK s \in Seq(InstrType) :
        /\ s = PassArgs(f, d, k, ObjSlot(f, 0)) /\ Len(s) = Turns(f, k)
        /\ \A p \in 1 .. Turns(f, k) : PassInstr(f, d, k, ObjSlot(f, 0), p, s[p])
  <2>1. ObjSlot(f, 0) \in SlotType
    BY SlotsTyped
  <2>. QED
    BY <2>1, PassArgsAre
<1>4. PICK t : t = s \o Epilogue(f)
  OBVIOUS
<1>5. t \in Seq(InstrType) /\ Joined(t, s, Epilogue(f))
  BY <1>1, <1>4, JoinAt
<1>6. PICK c : c = t \o j
  OBVIOUS
<1>7. c \in Seq(InstrType) /\ Joined(c, t, j)
  BY <1>5, <1>6, JoinAt
<1>8. /\ Len(t) = Turns(f, k) + AfterFree(f)
      /\ \A p \in 1 .. Len(t) : TailInstr(f, d, k, p, t[p])
  BY <1>1, <1>3, <1>5 DEF Joined, TailInstr
<1>9. /\ Len(c) = Turns(f, k) + AfterFree(f) + 1
      /\ \A p \in 1 .. Len(c) : TailInstr(f, d, k, p, c[p])
  <2>1. \A q \in 1 .. Len(j) : TailInstr(f, d, k, Len(t) + q, j[q])
    BY <1>2, <1>8 DEF TailInstr
  <2>. QED
    BY <1>2, <1>7, <1>8, <2>1 DEF Joined
<1>10. TailCallCode(f, d, k) = c
  BY <1>2, <1>3, <1>4, <1>6 DEF TailCallCode
<1>. QED
  BY <1>7, <1>9, <1>10

CallInstr(f, d, k, p, i) ==
  \/ ~HasReservedCallFrame(f) /\ p = 1 /\ i = AddSP(-CallFrame(f, k))
  \/ \E j \in 1 .. Turns(f, k) :
       p = AfterAdjust(f) + j /\ PassInstr(f, d, k, Slot("sp", 0), j, i)
  \/ p = CallAt(f, k) /\ i = Call(k)
  \/ f.pic /\ p = CallAt(f, k) + 1 /\ i = Ld("gp", GPSlot(f))
  \/ ~HasReservedCallFrame(f) /\ p = CallAt(f, k) + One(f.pic) + 1 /\ i = AddSP(CallFrame(f, k))

CallPlaces(f, k) ==
  /\ AfterAdjust(f) \in Nat /\ AfterAdjust(f) = IF HasReservedCallFrame(f) THEN 0 ELSE 1
  /\ Turns(f, k) \in Nat /\ CallAt(f, k) \in Nat
  /\ CallAt(f, k) = AfterAdjust(f) + Turns(f, k) + 1

LEMMA CallPlacesOf ==
  ASSUME NEW f \in Program, NEW k \in DOMAIN f.calls
  PROVE  CallPlaces(f, k)
<1>1. Turns(f, k) \in Nat
  BY TurnOf
<1>2. CASE HasReservedCallFrame(f)
  BY <1>1, <1>2 DEF CallPlaces, AfterAdjust, CallAt, Turns, One
<1>3. CASE ~HasReservedCallFrame(f)
  BY <1>1, <1>3 DEF CallPlaces, AfterAdjust, CallAt, Turns, One
<1>. QED
  BY <1>2, <1>3

LEMMA AdjustIs ==
  ASSUME NEW f, NEW n \in Int
  PROVE  /\ AdjustForCall(f, n) \in Seq(InstrType)
         /\ Len(AdjustForCall(f, n)) = AfterAdjust(f)
         /\ \A k \in 1 .. Len(AdjustForCall(f, n)) :
              ~HasReservedCallFrame(f) /\ k = 1 /\ AdjustForCall(f, n)[k] = AddSP(n)
<1>1. AddSP(n) \in InstrType
  BY DEF AddSP, InstrType
<1>2. <<AddSP(n)>> \in Seq(InstrType) /\ Len(<<AddSP(n)>>) = 1 /\ <<AddSP(n)>>[1] = AddSP(n)
  BY <1>1
<1>3. <<>> \in Seq(InstrType) /\ Len(<<>>) = 0
  OBVIOUS
<1>4. CASE HasReservedCallFrame(f)
  BY <1>3, <1>4 DEF AdjustForCall, AfterAdjust, If, One
<1>5. CASE ~HasReservedCallFrame(f)
  BY <1>2, <1>5 DEF AdjustForCall, AfterAdjust, If, One
<1>. QED
  BY <1>4, <1>5

LEMMA CallIs ==
  ASSUME NEW f \in Program, NEW d \in Nat, NEW k \in DOMAIN f.calls
  PROVE  /\ CallCode(f, d, k) \in Seq(InstrType)
         /\ Len(CallCode(f, d, k)) = CallAt(f, k) + One(f.pic) + AfterAdjust(f)
         /\ \A p \in 1 .. Len(CallCode(f, d, k)) :
              CallInstr(f, d, k, p, CallCode(f, d, k)[p])
<1>1. PICK down \in Seq(InstrType) :
        /\ down = AdjustForCall(f, -CallFrame(f, k))
        /\ Len(down) = AfterAdjust(f)
        /\ \A q \in 1 .. Len(down) :
             ~HasReservedCallFrame(f) /\ q = 1 /\ down[q] = AddSP(-CallFrame(f, k))
  <2>1. -CallFrame(f, k) \in Int
    BY CallFrameOf
  <2>. QED
    BY <2>1, AdjustIs
<1>2. PICK up \in Seq(InstrType) :
        /\ up = AdjustForCall(f, CallFrame(f, k))
        /\ Len(up) = AfterAdjust(f)
        /\ \A q \in 1 .. Len(up) :
             ~HasReservedCallFrame(f) /\ q = 1 /\ up[q] = AddSP(CallFrame(f, k))
  <2>1. CallFrame(f, k) \in Int
    BY CallFrameOf
  <2>. QED
    BY <2>1, AdjustIs
<1>3. PICK s \in Seq(InstrType) :
        /\ s = PassArgs(f, d, k, Slot("sp", 0)) /\ Len(s) = Turns(f, k)
        /\ \A p \in 1 .. Turns(f, k) : PassInstr(f, d, k, Slot("sp", 0), p, s[p])
  <2>1. Slot("sp", 0) \in SlotType
    BY SlotsTyped
  <2>. QED
    BY <2>1, PassArgsAre
<1>4. k \in Nat /\ f.calls # <<>>
  <2>1. f.calls \in Seq(CallType)
    BY InProgram DEF FuncType
  <2>. QED
    BY <2>1
<1>5. PICK j \in Seq(InstrType) : j = <<Call(k)>> /\ Len(j) = 1 /\ j[1] = Call(k)
  <2>1. Call(k) \in InstrType
    BY <1>4 DEF Call, InstrType
  <2>2. <<Call(k)>> \in Seq(InstrType) /\ Len(<<Call(k)>>) = 1 /\ <<Call(k)>>[1] = Call(k)
    BY <2>1
  <2>. QED
    BY <2>2
<1>6. PICK g \in Seq(InstrType) :
        g = RestoreGP(f) /\ Optional(g, f.pic, Ld("gp", GPSlot(f)))
  <2>1. Ld("gp", GPSlot(f)) \in InstrType
    <3>1. GPSlot(f) \in SlotType
      BY <1>4, SlotsTyped
    <3>. QED
      BY <3>1 DEF Ld, InstrType, RegNames
  <2>. QED
    BY <2>1, IfOne DEF RestoreGP, Optional
<1>7. PICK c1 : c1 = down \o s
  OBVIOUS
<1>8. c1 \in Seq(InstrType) /\ Joined(c1, down, s)
  BY <1>7, JoinAt
<1>9. PICK c2 : c2 = c1 \o j
  OBVIOUS
<1>10. c2 \in Seq(InstrType) /\ Joined(c2, c1, j)
  BY <1>8, <1>9, JoinAt
<1>11. PICK c3 : c3 = c2 \o g
  OBVIOUS
<1>12. c3 \in Seq(InstrType) /\ Joined(c3, c2, g)
  BY <1>10, <1>11, JoinAt
<1>13. PICK c4 : c4 = c3 \o up
  OBVIOUS
<1>14. c4 \in Seq(InstrType) /\ Joined(c4, c3, up)
  BY <1>12, <1>13, JoinAt
<1>15. CallPlaces(f, k)
  BY CallPlacesOf
<1>16. Len(c1) = AfterAdjust(f) + Turns(f, k) /\ \A p \in 1 .. Len(c1) : CallInstr(f, d, k, p, c1[p])
  <2>1. \A p \in 1 .. Len(down) : CallInstr(f, d, k, p, down[p])
    BY <1>1 DEF CallInstr
  <2>2. \A p \in 1 .. Len(s) : CallInstr(f, d, k, Len(down) + p, s[p])
    BY <1>1, <1>3 DEF CallInstr
  <2>. QED
    BY <1>1, <1>3, <1>8, <2>1, <2>2 DEF Joined
<1>17. Len(c2) = CallAt(f, k) /\ \A p \in 1 .. Len(c2) : CallInstr(f, d, k, p, c2[p])
  <2>1. \A p \in 1 .. Len(j) : CallInstr(f, d, k, Len(c1) + p, j[p])
    BY <1>5, <1>15, <1>16 DEF CallPlaces, CallInstr
  <2>. QED
    BY <1>5, <1>10, <1>15, <1>16, <2>1 DEF Joined, CallPlaces
<1>18. Len(c3) = CallAt(f, k) + One(f.pic) /\ \A p \in 1 .. Len(c3) : CallInstr(f, d, k, p, c3[p])
  <2>1. \A p \in 1 .. Len(g) : CallInstr(f, d, k, Len(c2) + p, g[p])
    BY <1>6, <1>17 DEF Optional, CallInstr
  <2>. QED
    BY <1>6, <1>12, <1>17, <2>1 DEF Joined, Optional
<1>19. Len(c4) = CallAt(f, k) + One(f.pic) + AfterAdjust(f)
       /\ \A p \in 1 .. Len(c4) : CallInstr(f, d, k, p, c4[p])
  <2>1. \A p \in 1 .. Len(up) : CallInstr(f, d, k, Len(c3) + p, up[p])
    BY <1>2, <1>18 DEF CallInstr
  <2>. QED
    BY ZenonT(60), <1>2, <1>14, <1>18, <2>1 DEF Joined
<1>20. CallCode(f, d, k) = c4
  BY <1>1, <1>2, <1>3, <1>5, <1>6, <1>7, <1>9, <1>11, <1>13 DEF CallCode
<1>. QED
  BY <1>14, <1>19, <1>20

-----------------------------------------------------------------------------
(***************************************************************************)
(* Registers, memory and the effect of one instruction on them.            *)
(***************************************************************************)
RegFile == [RegNames -> Int]
Memory  == [Addresses -> Int]

Sets(r, r2, x, v) ==
  r2 \in RegFile /\ r2[x] = v /\ \A y \in RegNames : y # x => r2[y] = r[y]
Puts(m, m2, b, v) ==
  m2 \in Memory /\ \A c \in Addresses : m2[c] = IF c = b THEN v ELSE m[c]
Gets(r, r2, x, m, b) ==
  \E v \in Int : Sets(r, r2, x, v) /\ (b \in Addresses => v = m[b])
Place1(r, slot) == r[slot.base] + slot.off

Effect(i, r, m, r2, m2) ==
  \/ i.op = "addsp"   /\ m2 = m /\ Sets(r, r2, "sp", r.sp + i.imm)
  \/ i.op = "addspv1" /\ m2 = m /\ Sets(r, r2, "sp", r.sp + r.v1)
  \/ i.op = "li"      /\ m2 = m /\ Sets(r, r2, i.reg, i.val)
  \/ i.op = "copy"    /\ m2 = m /\ Sets(r, r2, i.reg, r[i.from])
  \/ i.op = "ld"      /\ m2 = m /\ Gets(r, r2, i.reg, m, Place1(r, i.slot))
  \/ i.op = "st"      /\ r2 = r /\ Puts(m, m2, Place1(r, i.slot), r[i.reg])
  \/ i.op = "stv"     /\ r2 = r /\ Puts(m, m2, Place1(r, i.slot), i.val)

LEMMA EffectIs ==
  ASSUME NEW i, NEW r, NEW m, NEW r2, NEW m2, Effect(i, r, m, r2, m2)
  PROVE  /\ \A n : i = AddSP(n) => m2 = m /\ Sets(r, r2, "sp", r.sp + n)
         /\ i = AddSPV1 => m2 = m /\ Sets(r, r2, "sp", r.sp + r.v1)
         /\ \A x, v : i = Li(x, v) => m2 = m /\ Sets(r, r2, x, v)
         /\ \A x, y : i = Copy(x, y) => m2 = m /\ Sets(r, r2, x, r[y])
         /\ \A x, s : i = Ld(x, s) => m2 = m /\ Gets(r, r2, x, m, Place1(r, s))
         /\ \A x, s : i = St(x, s) => r2 = r /\ Puts(m, m2, Place1(r, s), r[x])
         /\ \A v, s : i = StV(v, s) => r2 = r /\ Puts(m, m2, Place1(r, s), v)
         /\ i # Ret /\ \A k : i # Call(k) /\ i # Jump(k)
<1>1. \A n : i = AddSP(n) => m2 = m /\ Sets(r, r2, "sp", r.sp + n)
  BY DEF Effect, AddSP
<1>2. i = AddSPV1 => m2 = m /\ Sets(r, r2, "sp", r.sp + r.v1)
  BY DEF Effect, AddSPV1
<1>3. \A x, v : i = Li(x, v) => m2 = m /\ Sets(r, r2, x, v)
  BY DEF Effect, Li
<1>4. \A x, y : i = Copy(x, y) => m2 = m /\ Sets(r, r2, x, r[y])
  BY DEF Effect, Copy
<1>5. \A x, s : i = Ld(x, s) => m2 = m /\ Gets(r, r2, x, m, Place1(r, s))
  BY DEF Effect, Ld
<1>6. \A x, s : i = St(x, s) => r2 = r /\ Puts(m, m2, Place1(r, s), r[x])
  BY DEF Effect, St
<1>7. \A v, s : i = StV(v, s) => r2 = r /\ Puts(m, m2, Place1(r, s), v)
  BY DEF Effect, StV
<1>8. i # Ret /\ \A k : i # Call(k) /\ i # Jump(k)
  BY DEF Effect, Ret, Call, Jump
<1>. QED
  BY <1>1, <1>2, <1>3, <1>4, <1>5, <1>6, <1>7, <1>8

Agree(m, m2, L) == \A b \in Addresses : b >= L => m2[b] = m[b]

LEMMA PutsAgree ==
  ASSUME NEW m, NEW m2, NEW b \in Int, NEW v, Puts(m, m2, b, v)
  PROVE  /\ \A L \in Int : b < L => Agree(m, m2, L)
         /\ b \in Addresses => Holds(m2, b, v)
         /\ \A c, w : (c # b \/ w = v) /\ Holds(m, c, w) => Holds(m2, c, w)
<1>1. Addresses \subseteq Int
  BY DEF Addresses
<1>2. \A L \in Int : b < L => Agree(m, m2, L)
  BY <1>1 DEF Puts, Agree
<1>3. b \in Addresses => Holds(m2, b, v)
  BY DEF Puts, Holds
<1>4. ASSUME NEW c, NEW w, c # b \/ w = v, Holds(m, c, w) PROVE Holds(m2, c, w)
  BY <1>4 DEF Puts, Holds
<1>. QED
  BY <1>2, <1>3, <1>4

-----------------------------------------------------------------------------
(***************************************************************************)
(* An activation and its part of the stack.                                *)
(***************************************************************************)
LEMMA ActOf ==
  ASSUME NEW a \in ActType
  PROVE  /\ Func(a) \in Program /\ a.fn \in DOMAIN Funcs /\ a.id \in Nat
         /\ a.entry \in RegFile /\ a.at \in Nat /\ a.next \in Nat
         /\ a.code \in Seq(InstrType) /\ Len(a.code) \in Nat
         /\ a.passed \in Seq(Int) /\ a.extra \in Seq(Extras) /\ a.locals \in Seq(Int)
         /\ a.alloca \in Int
<1>1. /\ a.fn \in DOMAIN Funcs /\ a.id \in Nat
      /\ a.entry \in [RegNames -> Int] /\ a.at \in Nat /\ a.next \in Nat
      /\ a.code \in Seq(InstrType) /\ a.passed \in Seq(Int) /\ a.extra \in Seq({I32, I64})
      /\ a.locals \in Seq(Int) /\ a.alloca \in Int
  BY DEF ActType
<1>2. Func(a) \in Program
  BY <1>1 DEF Func, Program
<1>. QED
  BY <1>1, <1>2, SameExtras DEF RegFile

LEMMA RegInt ==
  ASSUME NEW r \in RegFile
  PROVE  /\ \A x \in RegNames : r[x] \in Int
         /\ r.sp \in Int /\ r.fp \in Int /\ r.v1 \in Int
BY DEF RegFile, RegNames

LEMMA HandledFunc ==
  ASSUME NEW f \in Program, Handled
  PROVE  GPSlotApart(f) /\ EhDataApart(f)
BY DEF Handled, Program

\* Where the stack pointer of an activation is, from above to below.
Shape(a) ==
  LET f == Func(a)
  IN  /\ a.entry.sp \in Nat /\ a.entry.sp % 8 = 0
      /\ Bottom(a) \in Int /\ Bottom(a) % 8 = 0 /\ Bottom(a) = a.entry.sp - StackSize(f)
      /\ Objects(f) \in Nat /\ Bottom(a) + 4 * Objects(f) <= a.entry.sp
      /\ BodySP(a) \in Int /\ BodySP(a) % 8 = 0 /\ BodySP(a) <= Bottom(a)
      /\ ~f.dyn => BodySP(a) = Bottom(a)
      /\ a.alloca # NoSpace => BodySP(a) = a.alloca
      /\ End(a) \in Int /\ End(a) <= MemTop /\ End(a) = a.entry.sp + IncomingArgSize(f)
      /\ IncomingArgSize(f) \in Nat

LEMMA ShapeOf ==
  ASSUME NEW a \in ActType, Made(a)
  PROVE  Shape(a)
<1>1. PICK e \in Int, s \in Nat, o \in Nat, n \in Nat :
        /\ e = a.entry.sp /\ s = StackSize(Func(a)) /\ o = Objects(Func(a))
        /\ n = IncomingArgSize(Func(a)) /\ s % 8 = 0 /\ 4 * o <= s
  <2>1. a.entry.sp \in Int
    BY ActOf, RegInt
  <2>2. StackSize(Func(a)) \in Nat /\ Objects(Func(a)) \in Nat
        /\ StackSize(Func(a)) % 8 = 0 /\ 4 * Objects(Func(a)) <= StackSize(Func(a))
    BY ActOf, SizeOf DEF Sized
  <2>3. IncomingArgSize(Func(a)) \in Nat
    BY ActOf, Incoming
  <2>. QED
    BY <2>1, <2>2, <2>3
<1>2. e >= 0 /\ e % 8 = 0 /\ End(a) <= MemTop /\ End(a) = e + n
  BY <1>1 DEF Made, End
<1>3. Bottom(a) = e - s
  BY <1>1 DEF Bottom
<1>4. a.alloca # NoSpace => Func(a).dyn /\ a.alloca = e - s - 8
  BY <1>3 DEF Made
<1>5. BodySP(a) = IF a.alloca = NoSpace THEN e - s ELSE e - s - 8
  BY <1>3 DEF BodySP
<1>6. (e - s) % 8 = 0 /\ (e - s - 8) % 8 = 0
  BY <1>1, <1>2
<1>7. /\ BodySP(a) \in Int /\ BodySP(a) % 8 = 0 /\ BodySP(a) <= e - s
      /\ ~Func(a).dyn => BodySP(a) = e - s
      /\ a.alloca # NoSpace => BodySP(a) = a.alloca
  BY <1>4, <1>5, <1>6
<1>8. e \in Nat /\ e - s \in Int /\ e - s + 4 * o <= e /\ e + n \in Int
  BY <1>1, <1>2
<1>9. /\ a.entry.sp \in Nat /\ a.entry.sp % 8 = 0
      /\ Bottom(a) \in Int /\ Bottom(a) % 8 = 0 /\ Bottom(a) = a.entry.sp - StackSize(Func(a))
      /\ Objects(Func(a)) \in Nat /\ Bottom(a) + 4 * Objects(Func(a)) <= a.entry.sp
  BY <1>1, <1>2, <1>3, <1>6, <1>8
<1>10. /\ BodySP(a) \in Int /\ BodySP(a) % 8 = 0 /\ BodySP(a) <= Bottom(a)
       /\ ~Func(a).dyn => BodySP(a) = Bottom(a)
       /\ a.alloca # NoSpace => BodySP(a) = a.alloca
  BY <1>3, <1>7
<1>11. /\ End(a) \in Int /\ End(a) <= MemTop /\ End(a) = a.entry.sp + IncomingArgSize(Func(a))
       /\ IncomingArgSize(Func(a)) \in Nat
  BY <1>1, <1>2, <1>8
<1>. QED
  BY <1>9, <1>10, <1>11 DEF Shape

\* An activation during its call.
CallShape(a) ==
  LET f == Func(a)
      k == CallSite(a)
  IN  /\ k \in DOMAIN f.calls
      /\ CallFrame(f, k) \in Nat /\ NextStackOffset(f, k) \in Nat
      /\ CallSP(a) \in Int /\ CallSP(a) % 8 = 0 /\ CallSP(a) <= BodySP(a)
      /\ CallSP(a) = BodySP(a) - IF HasReservedCallFrame(f) THEN 0 ELSE CallFrame(f, k)
      /\ Guard(a) \in Int /\ Guard(a) = CallSP(a) + NextStackOffset(f, k)
      /\ Guard(a) + 4 * Objects(f) <= a.entry.sp
      /\ HasReservedCallFrame(f) => BodySP(a) = Bottom(a)
      /\ ~HasReservedCallFrame(f) => Guard(a) <= BodySP(a)

LEMMA CallShapeOf ==
  ASSUME NEW a \in ActType, Made(a), CallSite(a) \in RealCalls(Func(a))
  PROVE  CallShape(a)
<1> DEFINE f == Func(a)
           k == CallSite(a)
<1>1. Shape(a) /\ f \in Program /\ Sized(f)
  BY ShapeOf, ActOf, SizeOf
<1>2. k \in DOMAIN f.calls
  BY DEF RealCalls
<1>3. PICK c \in Nat, n \in Nat :
        c = CallFrame(f, k) /\ n = NextStackOffset(f, k) /\ c % 8 = 0 /\ n <= c
  <2>1. CallFrame(f, k) \in Nat /\ CallFrame(f, k) % 8 = 0 /\ NextStackOffset(f, k) <= CallFrame(f, k)
    BY <1>1, <1>2, CallFrameOf
  <2>2. NextStackOffset(f, k) \in Nat
    BY <1>1, <1>2, SoundCalls DEF SoundCall
  <2>. QED
    BY <2>1, <2>2
<1>4. PICK b \in Int, y \in Int, e \in Int, s \in Nat, o \in Nat :
        /\ b = Bottom(a) /\ y = BodySP(a) /\ e = a.entry.sp /\ s = StackSize(f) /\ o = Objects(f)
        /\ b = e - s /\ y <= b /\ y % 8 = 0 /\ b + 4 * o <= e
  <2>1. /\ Bottom(a) \in Int /\ BodySP(a) \in Int /\ a.entry.sp \in Int /\ Objects(f) \in Nat
        /\ Bottom(a) = a.entry.sp - StackSize(f) /\ BodySP(a) <= Bottom(a) /\ BodySP(a) % 8 = 0
        /\ Bottom(a) + 4 * Objects(f) <= a.entry.sp
    BY <1>1 DEF Shape
  <2>2. StackSize(f) \in Nat
    BY <1>1 DEF Sized
  <2>. QED
    BY <2>1, <2>2
<1>5. CASE HasReservedCallFrame(f)
  <2>1. ~f.dyn
    BY <1>5 DEF HasReservedCallFrame
  <2>2. y = b
    BY <1>1, <1>4, <2>1 DEF Shape
  <2>3. c + 4 * o <= s
    BY <1>1, <1>3, <1>4, <1>5 DEF Sized
  <2>4. CallSP(a) = y
    BY <1>4, <1>5 DEF CallSP
  <2>5. Guard(a) = y + n
    BY <1>3, <2>4 DEF Guard
  <2>6. y + n + 4 * o <= e /\ y + n \in Int /\ y = y - 0
    <3>1. y = e - s /\ n <= c
      BY <1>3, <1>4, <2>2
    <3>. QED
      BY <2>3, <3>1
  <2>. QED
    BY <1>2, <1>3, <1>4, <1>5, <2>2, <2>4, <2>5, <2>6 DEF CallShape
<1>6. CASE ~HasReservedCallFrame(f)
  <2>1. CallSP(a) = y - c
    BY <1>3, <1>4, <1>6 DEF CallSP
  <2>2. Guard(a) = y - c + n
    BY <1>3, <2>1 DEF Guard
  <2>3. y - c + n <= y /\ y - c + n + 4 * o <= e /\ y - c \in Int /\ (y - c) % 8 = 0 /\ y - c <= y
        /\ y - c + n \in Int
    BY <1>3, <1>4
  <2>. QED
    BY <1>2, <1>3, <1>4, <1>6, <2>1, <2>2, <2>3 DEF CallShape
<1>. QED
  BY <1>5, <1>6

(***************************************************************************)
(* Below L, memory may change without the activation noticing.             *)
(***************************************************************************)
Below(a, L) ==
  LET f == Func(a)
  IN  /\ L \in Int /\ L + 4 * Objects(f) <= a.entry.sp
      /\ HasFrame(f) /\ NeedsGPSlot(f) => L <= Bottom(a) + GPSlot(f).off
      /\ a.alloca # NoSpace => L <= a.alloca

LEMMA BelowBody ==
  ASSUME NEW a \in ActType, Made(a), NEW L \in Int, L <= BodySP(a)
  PROVE  Below(a, L)
<1>1. Shape(a)
  BY ShapeOf
<1>2. ASSUME NeedsGPSlot(Func(a)) PROVE GPSlot(Func(a)).off \in Nat
  BY <1>2, ActOf, SlotsTyped DEF NeedsGPSlot
<1>3. L + 4 * Objects(Func(a)) <= a.entry.sp /\ (a.alloca # NoSpace => L <= a.alloca)
      /\ L <= Bottom(a) /\ Bottom(a) \in Int
  BY <1>1 DEF Shape
<1>4. NeedsGPSlot(Func(a)) => L <= Bottom(a) + GPSlot(Func(a)).off
  BY <1>2, <1>3
<1>. QED
  BY <1>3, <1>4 DEF Below

LEMMA BelowGuard ==
  ASSUME NEW a \in ActType, Made(a), CallSite(a) \in RealCalls(Func(a)), Handled
  PROVE  Below(a, Guard(a))
<1>1. CallShape(a) /\ Shape(a)
  BY CallShapeOf, ShapeOf
<1>2. CASE ~HasReservedCallFrame(Func(a))
  BY <1>1, <1>2, BelowBody DEF CallShape
<1>3. CASE HasReservedCallFrame(Func(a))
  <2>1. ~Func(a).dyn
    BY <1>3 DEF HasReservedCallFrame
  <2>2. a.alloca = NoSpace
    BY <2>1 DEF Made
  <2>3. Guard(a) \in Int /\ Guard(a) + 4 * Objects(Func(a)) <= a.entry.sp
    BY <1>1 DEF CallShape
  <2>4. ASSUME HasFrame(Func(a)) /\ NeedsGPSlot(Func(a))
        PROVE  Guard(a) <= Bottom(a) + GPSlot(Func(a)).off
    <3>1. NextStackOffset(Func(a), CallSite(a)) <= GPSlot(Func(a)).off
      BY <1>3, <2>4, ActOf, HandledFunc DEF GPSlotApart
    <3>2. GPSlot(Func(a)).off \in Nat
      BY <2>4, ActOf, SlotsTyped DEF NeedsGPSlot
    <3>3. Guard(a) = Bottom(a) + NextStackOffset(Func(a), CallSite(a)) /\ Bottom(a) \in Int
          /\ NextStackOffset(Func(a), CallSite(a)) \in Nat
      <4>1. CallSP(a) = BodySP(a) - 0 /\ BodySP(a) = Bottom(a)
        BY <1>1, <1>3 DEF CallShape
      <4>2. /\ Guard(a) = CallSP(a) + NextStackOffset(Func(a), CallSite(a))
            /\ NextStackOffset(Func(a), CallSite(a)) \in Nat
        BY <1>1 DEF CallShape
      <4>3. Bottom(a) \in Int
        BY <1>1 DEF Shape
      <4>. QED
        BY <4>1, <4>2, <4>3
    <3>. QED
      BY <3>1, <3>2, <3>3
  <2>. QED
    BY <2>2, <2>3, <2>4 DEF Below
<1>. QED
  BY <1>2, <1>3

(***************************************************************************)
(* Activations that differ only in what they are executing, or in what     *)
(* their bodies have done.                                                 *)
(***************************************************************************)
SameEntry(a, b) ==
  /\ b.id = a.id /\ b.fn = a.fn /\ b.entry = a.entry
  /\ b.passed = a.passed /\ b.extra = a.extra
SameFrame(a, b) == SameEntry(a, b) /\ b.locals = a.locals /\ b.alloca = a.alloca
SameBody(a, b)  == SameFrame(a, b) /\ b.next = a.next

LEMMA SameEntryIs ==
  ASSUME NEW a, NEW b, SameEntry(a, b)
  PROVE  /\ Func(b) = Func(a) /\ Bottom(b) = Bottom(a) /\ End(b) = End(a)
         /\ GotWords(b) = GotWords(a) /\ (Passes(a) => Passes(b))
         /\ \A m, n : SavedHeld(a, m, n) => SavedHeld(b, m, n)
         /\ \A m, n : EhHeld(a, m, n) => EhHeld(b, m, n)
         /\ \A m, n : HomesHeld(a, m, n) => HomesHeld(b, m, n)
         /\ \A m : GPHeld(a, m) => GPHeld(b, m)
         /\ \A m : ArgsHeld(a, m) => ArgsHeld(b, m)
         /\ \A r : OwnGP(a, r) => OwnGP(b, r)
         /\ \A r : OwnFP(a, r) => OwnFP(b, r)
         /\ \A r, X : Unsaved(a, r, X) => Unsaved(b, r, X)
<1>1. Func(b) = Func(a) /\ b.entry = a.entry /\ b.id = a.id /\ b.passed = a.passed /\ b.extra = a.extra
  BY DEF SameEntry, Func
<1>2. Bottom(b) = Bottom(a) /\ End(b) = End(a) /\ GotWords(b) = GotWords(a)
  BY <1>1 DEF Bottom, End, GotWords
<1>3. Passes(a) => Passes(b)
  BY <1>1, <1>2 DEF Passes
<1>4. ASSUME NEW m, NEW n
      PROVE  /\ SavedHeld(a, m, n) => SavedHeld(b, m, n)
             /\ EhHeld(a, m, n) => EhHeld(b, m, n)
             /\ HomesHeld(a, m, n) => HomesHeld(b, m, n)
  BY <1>1 DEF SavedHeld, EhHeld, HomesHeld
<1>5. ASSUME NEW m PROVE (GPHeld(a, m) => GPHeld(b, m)) /\ (ArgsHeld(a, m) => ArgsHeld(b, m))
  BY <1>1, <1>2 DEF GPHeld, ArgsHeld
<1>6. ASSUME NEW r PROVE (OwnGP(a, r) => OwnGP(b, r)) /\ (OwnFP(a, r) => OwnFP(b, r))
  BY <1>1, <1>2 DEF OwnGP, OwnFP
<1>7. \A r, X : Unsaved(a, r, X) => Unsaved(b, r, X)
  BY <1>1 DEF Unsaved
<1>. QED
  BY <1>1, <1>2, <1>3, <1>4, <1>5, <1>6, <1>7

LEMMA SameFrameIs ==
  ASSUME NEW a, NEW b, SameFrame(a, b)
  PROVE  /\ BodySP(b) = BodySP(a)
         /\ \A m : LocalsHeld(a, m) => LocalsHeld(b, m)
         /\ \A m : SpaceHeld(a, m) => SpaceHeld(b, m)
         /\ \A m : FrameHeld(a, m) => FrameHeld(b, m)
         /\ \A q, r, m, X : Leaving(a, q, r, m, X) => Leaving(b, q, r, m, X)
<1>1. SameEntry(a, b) /\ b.locals = a.locals /\ b.alloca = a.alloca
  BY DEF SameFrame
<1>2. Func(b) = Func(a) /\ Bottom(b) = Bottom(a) /\ b.entry = a.entry /\ b.id = a.id
  BY <1>1, SameEntryIs DEF SameEntry
<1>3. BodySP(b) = BodySP(a)
  BY <1>1, <1>2 DEF BodySP
<1>4. ASSUME NEW m PROVE (LocalsHeld(a, m) => LocalsHeld(b, m)) /\ (SpaceHeld(a, m) => SpaceHeld(b, m))
  BY <1>1, <1>2 DEF LocalsHeld, SpaceHeld
<1>5. ASSUME NEW m, FrameHeld(a, m) PROVE FrameHeld(b, m)
  BY <1>1, <1>2, <1>4, <1>5, SameEntryIs DEF FrameHeld
<1>6. ASSUME NEW q, NEW r, NEW m, NEW X, Leaving(a, q, r, m, X) PROVE Leaving(b, q, r, m, X)
  <2>1. /\ OwnFP(a, r) => OwnFP(b, r)
        /\ Unsaved(a, r, X) => Unsaved(b, r, X)
        /\ \A n : SavedHeld(a, m, n) => SavedHeld(b, m, n)
    BY <1>1, SameEntryIs
  <2>. QED
    BY <1>2, <1>3, <1>6, <2>1 DEF Leaving
<1>. QED
  BY <1>3, <1>4, <1>5, <1>6

LEMMA SameBodyIs ==
  ASSUME NEW a, NEW b, SameBody(a, b)
  PROVE  /\ CallSite(b) = CallSite(a) /\ CallSP(b) = CallSP(a) /\ Guard(b) = Guard(a)
         /\ \A r, m, base, n : WordsPlaced(a, r, m, base, n) => WordsPlaced(b, r, m, base, n)
         /\ \A p, r, m : Entering(a, p, r, m) => Entering(b, p, r, m)
         /\ \A r, m : InItsBody(a, r, m) => InItsBody(b, r, m)
         /\ \A p, r, m : TailCalling(a, p, r, m) => TailCalling(b, p, r, m)
         /\ \A p, r, m : Throwing(a, p, r, m) => Throwing(b, p, r, m)
         /\ b.code = a.code => \A p, r, m : Calling(a, p, r, m) => Calling(b, p, r, m)
<1>1. /\ SameFrame(a, b) /\ SameEntry(a, b) /\ b.next = a.next /\ b.entry = a.entry /\ b.id = a.id
      /\ b.locals = a.locals /\ b.alloca = a.alloca
  BY DEF SameBody, SameFrame, SameEntry
<1>2. Func(b) = Func(a) /\ Bottom(b) = Bottom(a) /\ BodySP(b) = BodySP(a)
  BY <1>1, SameEntryIs, SameFrameIs
<1>3. CallSite(b) = CallSite(a)
  BY <1>1 DEF CallSite
<1>4. CallSP(b) = CallSP(a)
  BY <1>2, <1>3 DEF CallSP
<1>5. Guard(b) = Guard(a)
  BY <1>2, <1>3, <1>4 DEF Guard
<1>6. \A r, m, base, n : WordsPlaced(a, r, m, base, n) => WordsPlaced(b, r, m, base, n)
  BY <1>1, <1>2, <1>3 DEF WordsPlaced
<1>7. ASSUME NEW p, NEW r, NEW m, Entering(a, p, r, m) PROVE Entering(b, p, r, m)
  <2>1. EnteringRegs(a, p, r) /\ EnteringStack(a, p, m) /\ Unused(a)
    BY <1>7 DEF Entering
  <2>2. OwnGP(a, r) => OwnGP(b, r)
    BY <1>1, SameEntryIs
  <2>3. EnteringRegs(b, p, r)
    BY <1>1, <1>2, <2>1, <2>2 DEF EnteringRegs
  <2>4. /\ \A n : SavedHeld(a, m, n) => SavedHeld(b, m, n)
        /\ \A n : EhHeld(a, m, n) => EhHeld(b, m, n)
        /\ \A n : HomesHeld(a, m, n) => HomesHeld(b, m, n)
        /\ GPHeld(a, m) => GPHeld(b, m)
        /\ ArgsHeld(a, m) => ArgsHeld(b, m)
    BY <1>1, SameEntryIs
  <2>5. EnteringStack(b, p, m)
    BY <1>2, <2>1, <2>4 DEF EnteringStack
  <2>6. Unused(b)
    BY <1>1, <2>1 DEF Unused
  <2>. QED
    BY <2>3, <2>5, <2>6 DEF Entering
<1>8. ASSUME NEW r, NEW m
      PROVE  /\ OwnGP(a, r) => OwnGP(b, r)
             /\ OwnFP(a, r) => OwnFP(b, r)
             /\ Unsaved(a, r, SavedSet) => Unsaved(b, r, SavedSet)
             /\ FrameHeld(a, m) => FrameHeld(b, m)
             /\ \A q, X : Leaving(a, q, r, m, X) => Leaving(b, q, r, m, X)
  BY <1>1, SameEntryIs, SameFrameIs
<1>9. ASSUME NEW r, NEW m, InItsBody(a, r, m) PROVE InItsBody(b, r, m)
  BY <1>1, <1>2, <1>8, <1>9 DEF InItsBody
<1>10. ASSUME NEW p, NEW r, NEW m, TailCalling(a, p, r, m) PROVE TailCalling(b, p, r, m)
  BY <1>1, <1>2, <1>3, <1>6, <1>8, <1>10 DEF TailCalling
<1>11. ASSUME NEW p, NEW r, NEW m, Throwing(a, p, r, m) PROVE Throwing(b, p, r, m)
  BY <1>1, <1>2, <1>8, <1>11 DEF Throwing
<1>12. ASSUME b.code = a.code, NEW p, NEW r, NEW m, Calling(a, p, r, m) PROVE Calling(b, p, r, m)
  BY <1>2, <1>3, <1>4, <1>6, <1>8, <1>12 DEF Calling
<1>. QED
  BY <1>3, <1>4, <1>5, <1>6, <1>7, <1>9, <1>10, <1>11, <1>12

LEMMA InStack ==
  ASSUME NEW b \in Int, b >= 0, b <= MemTop, b % 4 = 0
  PROVE  b \in Addresses
BY BoundsAssumption DEF Addresses

LEMMA AddressIs ==
  ASSUME NEW b \in Addresses
  PROVE  b \in Nat /\ b <= MemTop /\ b % 4 = 0
BY DEF Addresses

LEMMA HoldsStays ==
  ASSUME NEW m, NEW m2, NEW L, Agree(m, m2, L), NEW b, b >= L, NEW v, Holds(m, b, v)
  PROVE  Holds(m2, b, v)
BY DEF Agree, Holds

LEMMA AgreeAbove ==
  ASSUME NEW m, NEW m2, NEW L \in Int, Agree(m, m2, L), NEW K \in Int, L <= K
  PROVE  Agree(m, m2, K)
<1>1. ASSUME NEW b \in Addresses, b >= K PROVE b >= L
  BY <1>1, AddressIs
<1>. QED
  BY <1>1 DEF Agree

\* The words that an activation was passed.
LEMMA GotWordsOf ==
  ASSUME NEW a \in ActType, Passes(a)
  PROVE  /\ GotWords(a) \in Seq(WordType)
         /\ FoundInv(Cc(Func(a)), Func(a).vararg, Func(a).args, a.extra)
         /\ \A i \in DOMAIN GotWords(a) :
              \/ GotWords(a)[i].reg \in {0, 1}
              \/ /\ GotWords(a)[i].reg = -1
                 /\ GotWords(a)[i].off \in Nat /\ GotWords(a)[i].off % 4 = 0
                 /\ ReservedArgArea(Cc(Func(a))) <= GotWords(a)[i].off
<1> DEFINE f == Func(a)
           c == Cc(f)
<1>1. f \in Program /\ a.extra \in Seq(Extras)
  BY ActOf
<1>2. c \in ConvType /\ f.vararg \in BOOLEAN /\ f.args \in Seq(ArgType)
      /\ (f.vararg => c.conv # "fast")
  BY <1>1, ConvOf
<1>3. ~f.vararg => a.extra = <<>>
  BY DEF Passes
<1>4. /\ CallWords(c, CallerWords(c, f.args \o a.extra), Analyze(c, f.args \o a.extra).stack)
      /\ FoundInv(c, f.vararg, f.args, a.extra)
  BY <1>1, <1>2, <1>3, WordsOfCall
<1>5. GotWords(a) = CallerWords(c, f.args \o a.extra)
  BY DEF GotWords
<1>. QED
  BY <1>4, <1>5 DEF CallWords, InArea

(***************************************************************************)
(* Where what the stack holds of an activation is.                         *)
(***************************************************************************)
LEMMA ObjectsAt ==
  ASSUME NEW a \in ActType, Made(a)
  PROVE  /\ \A k \in DOMAIN SavedRegs(Func(a)) :
              k \in Nat /\ 1 <= k /\ k <= Objects(Func(a)) /\ k <= Len(SavedRegs(Func(a)))
         /\ \A k \in DOMAIN EhRegs(Func(a)) :
              /\ EhOffset(Func(a), k) = -4 * (Len(SavedRegs(Func(a))) + Func(a).locals + k)
              /\ k \in Nat /\ 1 <= k /\ k <= Len(EhRegs(Func(a)))
              /\ Len(SavedRegs(Func(a))) + Func(a).locals + k <= Objects(Func(a))
         /\ \A k \in DOMAIN a.locals :
              /\ LocalOffset(Func(a), k) = -4 * (Len(SavedRegs(Func(a))) + k)
              /\ k \in Nat /\ 1 <= k /\ k <= Func(a).locals
              /\ Len(SavedRegs(Func(a))) + k <= Objects(Func(a))
         /\ Len(SavedRegs(Func(a))) \in Nat /\ Func(a).locals \in Nat /\ Objects(Func(a)) \in Nat
<1>1. PICK s \in Nat, l \in Nat, h \in Nat, o \in Nat :
        /\ s = Len(SavedRegs(Func(a))) /\ l = Func(a).locals /\ h = Len(EhRegs(Func(a)))
        /\ o = Objects(Func(a)) /\ s + l + h <= o
  BY ActOf, SizeOf DEF Sized
<1>2. DOMAIN SavedRegs(Func(a)) = 1 .. s /\ DOMAIN EhRegs(Func(a)) = 1 .. h
  BY <1>1, ActOf, RegsTyped
<1>3. DOMAIN a.locals = 1 .. l
  BY <1>1 DEF Made
<1>4. ASSUME NEW k \in DOMAIN SavedRegs(Func(a)) PROVE k \in Nat /\ 1 <= k /\ k <= o /\ k <= s
  BY <1>1, <1>2
<1>5. ASSUME NEW k \in DOMAIN EhRegs(Func(a))
      PROVE  /\ EhOffset(Func(a), k) = -4 * (s + l + k)
             /\ k \in Nat /\ 1 <= k /\ k <= h /\ s + l + k <= o
  <2>1. EhOffset(Func(a), k) = -4 * (s + l + k)
    BY <1>1 DEF EhOffset
  <2>. QED
    BY SMTT(60), <1>1, <1>2, <2>1
<1>6. ASSUME NEW k \in DOMAIN a.locals
      PROVE  /\ LocalOffset(Func(a), k) = -4 * (s + k)
             /\ k \in Nat /\ 1 <= k /\ k <= l /\ s + k <= o
  <2>1. LocalOffset(Func(a), k) = -4 * (s + k)
    BY <1>1 DEF LocalOffset
  <2>. QED
    BY <1>1, <1>3, <2>1
<1>. QED
  BY <1>1, <1>4, <1>5, <1>6

LEMMA HomesAt ==
  ASSUME NEW a \in ActType, Made(a), NEW k \in DOMAIN Homed(Func(a))
  PROVE  \E x \in {0, 1} :
           /\ Homed(Func(a))[k] = [reg |-> x, off |-> 4 * x]
           /\ Homed(Func(a))[k].off = 4 * x /\ Homed(Func(a))[k].reg = x
           /\ ReservedArgArea(Cc(Func(a))) = 8 /\ a.entry.sp + 8 <= End(a)
<1>1. PICK x \in {0, 1} : /\ Homed(Func(a))[k] = [reg |-> x, off |-> 4 * x]
                          /\ ReservedArgArea(Cc(Func(a))) = 8
  BY ActOf, HomesOf
<1>2. 8 <= IncomingArgSize(Func(a)) /\ IncomingArgSize(Func(a)) \in Nat
  BY <1>1, ActOf, Incoming
<1>3. a.entry.sp + 8 <= End(a)
  BY <1>2, ShapeOf DEF Shape
<1>. QED
  BY <1>1, <1>3

LEMMA FrameStays ==
  ASSUME NEW a \in ActType, Made(a), NEW m, NEW m2, NEW L, Below(a, L), Agree(m, m2, L)
  PROVE  /\ \A n : SavedHeld(a, m, n) => SavedHeld(a, m2, n)
         /\ \A n : EhHeld(a, m, n) => EhHeld(a, m2, n)
         /\ \A n : HomesHeld(a, m, n) => HomesHeld(a, m2, n)
         /\ GPHeld(a, m) => GPHeld(a, m2)
         /\ ArgsHeld(a, m) => ArgsHeld(a, m2)
         /\ LocalsHeld(a, m) => LocalsHeld(a, m2)
         /\ SpaceHeld(a, m) => SpaceHeld(a, m2)
         /\ FrameHeld(a, m) => FrameHeld(a, m2)
<1>1. PICK e \in Int, o \in Nat, K \in Int :
        e = a.entry.sp /\ o = Objects(Func(a)) /\ K = L /\ K + 4 * o <= e
  BY ShapeOf DEF Shape, Below
<1>2. PICK s \in Nat, l \in Nat : s = Len(SavedRegs(Func(a))) /\ l = Func(a).locals
  BY ObjectsAt
<1>3. ASSUME NEW n, SavedHeld(a, m, n) PROVE SavedHeld(a, m2, n)
  <2>1. ASSUME NEW k \in DOMAIN SavedRegs(Func(a)) PROVE e - 4 * k >= K
    <3>1. k \in Nat /\ k <= o
      BY <1>1, ObjectsAt
    <3>. QED
      BY <1>1, <3>1
  <2>. QED
    BY <1>1, <1>3, <2>1, HoldsStays DEF SavedHeld
<1>4. ASSUME NEW n, EhHeld(a, m, n) PROVE EhHeld(a, m2, n)
  <2>1. ASSUME NEW k \in DOMAIN EhRegs(Func(a)) PROVE e + EhOffset(Func(a), k) >= K
    <3>1. k \in Nat /\ EhOffset(Func(a), k) = -4 * (s + l + k) /\ s + l + k <= o
      BY <1>1, <1>2, ObjectsAt
    <3>. QED
      BY <1>1, <3>1
  <2>. QED
    BY <1>1, <1>4, <2>1, HoldsStays DEF EhHeld
<1>5. ASSUME NEW n, HomesHeld(a, m, n) PROVE HomesHeld(a, m2, n)
  <2>1. ASSUME NEW k \in DOMAIN Homed(Func(a)) PROVE e + Homed(Func(a))[k].off >= K
    <3>1. PICK x \in {0, 1} : Homed(Func(a))[k].off = 4 * x
      BY HomesAt
    <3>. QED
      BY <1>1, <3>1
  <2>. QED
    BY <1>1, <1>5, <2>1, HoldsStays DEF HomesHeld
<1>6. ASSUME GPHeld(a, m) PROVE GPHeld(a, m2)
  BY <1>6, HoldsStays DEF GPHeld, Below
<1>7. ASSUME ArgsHeld(a, m) PROVE ArgsHeld(a, m2)
  <2>1. ASSUME NEW i \in DOMAIN GotWords(a), GotWords(a)[i].reg = -1
        PROVE  e + GotWords(a)[i].off >= K
    <3>1. GotWords(a)[i].off \in Nat
      BY <2>1, GotWordsOf DEF Made
    <3>. QED
      BY <1>1, <3>1
  <2>. QED
    BY <1>1, <1>7, <2>1, HoldsStays DEF ArgsHeld
<1>8. ASSUME LocalsHeld(a, m) PROVE LocalsHeld(a, m2)
  <2>1. ASSUME NEW k \in DOMAIN a.locals PROVE e + LocalOffset(Func(a), k) >= K
    <3>1. k \in Nat /\ LocalOffset(Func(a), k) = -4 * (s + k) /\ s + k <= o
      BY <1>1, <1>2, ObjectsAt
    <3>. QED
      BY <1>1, <3>1
  <2>. QED
    BY <1>1, <1>8, <2>1, HoldsStays DEF LocalsHeld
<1>9. ASSUME SpaceHeld(a, m) PROVE SpaceHeld(a, m2)
  <2>1. ASSUME a.alloca # NoSpace PROVE a.alloca >= L /\ a.alloca + 4 >= L
    <3>1. a.alloca \in Int /\ L \in Int /\ a.alloca >= L
      BY <2>1, ActOf DEF Below
    <3>. QED
      BY <3>1
  <2>. QED
    BY <1>9, <2>1, HoldsStays DEF SpaceHeld
<1>10. FrameHeld(a, m) => FrameHeld(a, m2)
  BY <1>3, <1>4, <1>5, <1>6, <1>7, <1>8, <1>9 DEF FrameHeld
<1>. QED
  BY <1>3, <1>4, <1>5, <1>6, <1>7, <1>8, <1>9, <1>10

\* How many registers are stored.
LEMMA HeldRange ==
  ASSUME NEW a \in ActType, Made(a), NEW m, NEW n \in Int
  PROVE  /\ n <= 0 => SavedHeld(a, m, n) /\ EhHeld(a, m, n) /\ HomesHeld(a, m, n)
         /\ n >= Len(SavedRegs(Func(a))) /\ SavedHeld(a, m, n) => \A n2 : SavedHeld(a, m, n2)
         /\ n >= Len(EhRegs(Func(a))) /\ EhHeld(a, m, n) => \A n2 : EhHeld(a, m, n2)
         /\ n >= Len(Homed(Func(a))) /\ HomesHeld(a, m, n) => \A n2 : HomesHeld(a, m, n2)
<1>1. /\ Len(SavedRegs(Func(a))) \in Nat /\ DOMAIN SavedRegs(Func(a)) = 1 .. Len(SavedRegs(Func(a)))
      /\ Len(EhRegs(Func(a))) \in Nat /\ DOMAIN EhRegs(Func(a)) = 1 .. Len(EhRegs(Func(a)))
      /\ Len(Homed(Func(a))) \in Nat /\ DOMAIN Homed(Func(a)) = 1 .. Len(Homed(Func(a)))
  BY ActOf, RegsTyped, HomeArgsAre
<1>2. n <= 0 => SavedHeld(a, m, n) /\ EhHeld(a, m, n) /\ HomesHeld(a, m, n)
  BY <1>1 DEF SavedHeld, EhHeld, HomesHeld
<1>3. n >= Len(SavedRegs(Func(a))) => \A k \in DOMAIN SavedRegs(Func(a)) : k <= n
  BY <1>1
<1>4. n >= Len(EhRegs(Func(a))) => \A k \in DOMAIN EhRegs(Func(a)) : k <= n
  BY <1>1
<1>5. n >= Len(Homed(Func(a))) => \A k \in DOMAIN Homed(Func(a)) : k <= n
  BY <1>1
<1>6. n >= Len(SavedRegs(Func(a))) /\ SavedHeld(a, m, n) => \A n2 : SavedHeld(a, m, n2)
  BY <1>3 DEF SavedHeld
<1>7. n >= Len(EhRegs(Func(a))) /\ EhHeld(a, m, n) => \A n2 : EhHeld(a, m, n2)
  BY <1>4 DEF EhHeld
<1>8. n >= Len(Homed(Func(a))) /\ HomesHeld(a, m, n) => \A n2 : HomesHeld(a, m, n2)
  BY <1>5 DEF HomesHeld
<1>. QED
  BY <1>2, <1>6, <1>7, <1>8

LEMMA HeldNext ==
  ASSUME NEW a \in ActType, NEW m, NEW k \in Nat
  PROVE  /\ SavedHeld(a, m, k - 1) /\ Holds(m, a.entry.sp - 4 * k, a.entry[SavedRegs(Func(a))[k]])
              => SavedHeld(a, m, k)
         /\ (EhHeld(a, m, k - 1)
               /\ Holds(m, a.entry.sp + EhOffset(Func(a), k), a.entry[EhRegs(Func(a))[k]]))
              => EhHeld(a, m, k)
         /\ (HomesHeld(a, m, k - 1)
               /\ Holds(m, a.entry.sp + Homed(Func(a))[k].off,
                        a.entry[ArgReg(Homed(Func(a))[k].reg)]))
              => HomesHeld(a, m, k)
<1>0. /\ Len(SavedRegs(Func(a))) \in Nat /\ DOMAIN SavedRegs(Func(a)) = 1 .. Len(SavedRegs(Func(a)))
      /\ Len(EhRegs(Func(a))) \in Nat /\ DOMAIN EhRegs(Func(a)) = 1 .. Len(EhRegs(Func(a)))
      /\ Len(Homed(Func(a))) \in Nat /\ DOMAIN Homed(Func(a)) = 1 .. Len(Homed(Func(a)))
  BY ActOf, RegsTyped, HomeArgsAre
<1>1. /\ DOMAIN SavedRegs(Func(a)) \subseteq Nat /\ DOMAIN EhRegs(Func(a)) \subseteq Nat
      /\ DOMAIN Homed(Func(a)) \subseteq Nat
  BY <1>0
<1>2. \A j \in Nat : j <= k => j = k \/ j <= k - 1
  OBVIOUS
<1>3. ASSUME SavedHeld(a, m, k - 1), Holds(m, a.entry.sp - 4 * k, a.entry[SavedRegs(Func(a))[k]])
      PROVE  SavedHeld(a, m, k)
  BY <1>1, <1>2, <1>3 DEF SavedHeld
<1>4. ASSUME EhHeld(a, m, k - 1),
             Holds(m, a.entry.sp + EhOffset(Func(a), k), a.entry[EhRegs(Func(a))[k]])
      PROVE  EhHeld(a, m, k)
  BY <1>1, <1>2, <1>4 DEF EhHeld
<1>5. ASSUME HomesHeld(a, m, k - 1),
             Holds(m, a.entry.sp + Homed(Func(a))[k].off, a.entry[ArgReg(Homed(Func(a))[k].reg)])
      PROVE  HomesHeld(a, m, k)
  BY <1>1, <1>2, <1>5 DEF HomesHeld
<1>. QED
  BY <1>3, <1>4, <1>5

\* A store elsewhere.
LEMMA PutKeeps ==
  ASSUME NEW a \in ActType, NEW m, NEW m2, NEW b \in Int, NEW v, Puts(m, m2, b, v)
  PROVE  /\ (\A k \in DOMAIN SavedRegs(Func(a)) : b # a.entry.sp - 4 * k)
              => \A n : SavedHeld(a, m, n) => SavedHeld(a, m2, n)
         /\ (\A k \in DOMAIN EhRegs(Func(a)) : b # a.entry.sp + EhOffset(Func(a), k))
              => \A n : EhHeld(a, m, n) => EhHeld(a, m2, n)
         /\ (\A k \in DOMAIN Homed(Func(a)) : b # a.entry.sp + Homed(Func(a))[k].off)
              => \A n : HomesHeld(a, m, n) => HomesHeld(a, m2, n)
         /\ (HasFrame(Func(a)) /\ NeedsGPSlot(Func(a)) => b # Bottom(a) + GPSlot(Func(a)).off)
              => (GPHeld(a, m) => GPHeld(a, m2))
         /\ (\A i \in DOMAIN GotWords(a) : GotWords(a)[i].reg = -1 =>
               b # a.entry.sp + GotWords(a)[i].off)
              => (ArgsHeld(a, m) => ArgsHeld(a, m2))
         /\ (a.alloca # NoSpace => b # a.alloca /\ b # a.alloca + 4)
              => (SpaceHeld(a, m) => SpaceHeld(a, m2))
<1>1. \A c, w : c # b /\ Holds(m, c, w) => Holds(m2, c, w)
  BY PutsAgree
<1>2. (\A k \in DOMAIN SavedRegs(Func(a)) : b # a.entry.sp - 4 * k)
              => \A n : SavedHeld(a, m, n) => SavedHeld(a, m2, n)
  BY <1>1 DEF SavedHeld
<1>3. (\A k \in DOMAIN EhRegs(Func(a)) : b # a.entry.sp + EhOffset(Func(a), k))
              => \A n : EhHeld(a, m, n) => EhHeld(a, m2, n)
  BY <1>1 DEF EhHeld
<1>4. (\A k \in DOMAIN Homed(Func(a)) : b # a.entry.sp + Homed(Func(a))[k].off)
              => \A n : HomesHeld(a, m, n) => HomesHeld(a, m2, n)
  BY <1>1 DEF HomesHeld
<1>5. (HasFrame(Func(a)) /\ NeedsGPSlot(Func(a)) => b # Bottom(a) + GPSlot(Func(a)).off)
              => (GPHeld(a, m) => GPHeld(a, m2))
  BY <1>1 DEF GPHeld
<1>6. (\A i \in DOMAIN GotWords(a) : GotWords(a)[i].reg = -1 =>
               b # a.entry.sp + GotWords(a)[i].off)
              => (ArgsHeld(a, m) => ArgsHeld(a, m2))
  BY <1>1 DEF ArgsHeld
<1>7. (a.alloca # NoSpace => b # a.alloca /\ b # a.alloca + 4)
              => (SpaceHeld(a, m) => SpaceHeld(a, m2))
  BY <1>1 DEF SpaceHeld
<1>. QED
  BY <1>2, <1>3, <1>4, <1>5, <1>6, <1>7

\* A store below the stack pointer on entry.
LEMMA PutBelow ==
  ASSUME NEW a \in ActType, Made(a), NEW m, NEW m2, NEW b \in Int, NEW v, Puts(m, m2, b, v),
         b < a.entry.sp
  PROVE  /\ ArgsHeld(a, m) => ArgsHeld(a, m2)
         /\ \A n : HomesHeld(a, m, n) => HomesHeld(a, m2, n)
         /\ Agree(m, m2, End(a))
<1>1. PICK e \in Int : e = a.entry.sp /\ b < e
  BY ActOf, RegInt
<1>2. ASSUME NEW i \in DOMAIN GotWords(a), GotWords(a)[i].reg = -1
      PROVE  b # e + GotWords(a)[i].off
  <2>1. GotWords(a)[i].off \in Nat
    BY <1>2, GotWordsOf DEF Made
  <2>. QED
    BY <1>1, <2>1
<1>3. ASSUME NEW k \in DOMAIN Homed(Func(a)) PROVE b # e + Homed(Func(a))[k].off
  <2>1. PICK x \in {0, 1} : Homed(Func(a))[k].off = 4 * x
    BY HomesAt
  <2>. QED
    BY <1>1, <2>1
<1>4. Agree(m, m2, End(a))
  <2>1. End(a) \in Int /\ b < End(a)
    <3>1. End(a) = e + IncomingArgSize(Func(a)) /\ IncomingArgSize(Func(a)) \in Nat
      BY <1>1, ShapeOf DEF Shape
    <3>. QED
      BY <1>1, <3>1
  <2>. QED
    BY <2>1, PutsAgree
<1>5. ArgsHeld(a, m) => ArgsHeld(a, m2)
  BY <1>1, <1>2, PutKeeps
<1>6. \A n : HomesHeld(a, m, n) => HomesHeld(a, m2, n)
  BY <1>1, <1>3, PutKeeps
<1>. QED
  BY <1>4, <1>5, <1>6

-----------------------------------------------------------------------------
(***************************************************************************)
(* The prologue.                                                           *)
(***************************************************************************)
LEMMA FrameNeeded ==
  ASSUME NEW f \in Program
  PROVE  /\ Len(SavedRegs(f)) >= 1 => StackSize(f) # 0 /\ HasFrame(f)
         /\ Len(EhRegs(f)) >= 1 => StackSize(f) # 0 /\ HasFrame(f)
         /\ HasFP(f) => Len(SavedRegs(f)) >= 1
         /\ ~HasFrame(f) => StackSize(f) = 0
         /\ RealCalls(f) # {} => HasFrame(f) /\ "lr" \in ToSet(SavedRegs(f))
         /\ f.dyn => HasFP(f)
<1>1. PICK s \in Nat, l \in Nat, h \in Nat, o \in Nat, z \in Nat :
        /\ s = Len(SavedRegs(f)) /\ l = f.locals /\ h = Len(EhRegs(f)) /\ o = Objects(f)
        /\ z = StackSize(f) /\ s + l + h <= o /\ 4 * o <= z
  BY SizeOf DEF Sized
<1>2. (s >= 1 => z # 0) /\ (h >= 1 => z # 0)
  <2>1. s >= 1 \/ h >= 1 => o >= 1
    BY <1>1
  <2>2. o >= 1 => z # 0
    BY <1>1
  <2>. QED
    BY <2>1, <2>2
<1>3. HasFP(f) => s >= 1
  <2>1. SUFFICES ASSUME HasFP(f) PROVE s >= 1
    OBVIOUS
  <2>2. "fp" \in ToSet(SavedRegs(f)) /\ SavedRegs(f) \in Seq(SavedSet)
    BY <2>1, SavedOf DEF SavedFacts
  <2>3. PICK i \in DOMAIN SavedRegs(f) : SavedRegs(f)[i] = "fp"
    BY <2>2, ToSetIs
  <2>4. DOMAIN SavedRegs(f) = 1 .. s
    BY <1>1, RegsTyped
  <2>. QED
    BY <2>3, <2>4
<1>4. RealCalls(f) # {} => HasFrame(f) /\ "lr" \in ToSet(SavedRegs(f))
  BY SavedOf DEF SavedFacts, HasFrame, AdjustsStack
<1>. QED
  BY <1>1, <1>2, <1>3, <1>4 DEF HasFrame, HasFP

LEMMA EnteringRegsStep ==
  ASSUME NEW a \in ActType, NEW r, NEW r2, NEW p \in Int, EnteringRegs(a, p, r),
         \A x \in {"lr", "s0", "s1", "a0", "a1"} : r2[x] = r[x],
         \/ r2.sp = r.sp /\ (p = AfterAllocate(Func(a)) => ~HasFrame(Func(a)))
         \/ r2.sp = Bottom(a) /\ p = AfterAllocate(Func(a)),
         \/ r2.fp = r.fp /\ (p = AfterFP(Func(a)) => ~HasFP(Func(a)))
         \/ r2.fp = Bottom(a) /\ p = AfterFP(Func(a)) /\ HasFP(Func(a)),
         p >= AfterCpload(Func(a)) => OwnGP(a, r2)
  PROVE  EnteringRegs(a, p + 1, r2)
<1> DEFINE f == Func(a)
<1>1. PICK c \in Nat, x \in Nat, q \in Nat :
        c = AfterCpload(f) /\ x = AfterAllocate(f) /\ q = AfterFP(f)
  BY ActOf, PlacesOf DEF Places
<1>2. ~HasFrame(f) => Bottom(a) = a.entry.sp
  <2>1. SUFFICES ASSUME ~HasFrame(f) PROVE Bottom(a) = a.entry.sp
    OBVIOUS
  <2>2. StackSize(f) = 0 /\ a.entry.sp \in Int
    BY <2>1, ActOf, FrameNeeded, RegInt
  <2>. QED
    BY <2>2 DEF Bottom
<1>3. r.sp = IF p <= x THEN a.entry.sp ELSE Bottom(a)
  BY <1>1 DEF EnteringRegs
<1>4. r2.sp = IF p + 1 <= x THEN a.entry.sp ELSE Bottom(a)
  BY <1>1, <1>2, <1>3
<1>5. r.fp = IF HasFP(f) /\ p > q THEN Bottom(a) ELSE a.entry.fp
  BY <1>1 DEF EnteringRegs
<1>6. r2.fp = IF HasFP(f) /\ p + 1 > q THEN Bottom(a) ELSE a.entry.fp
  BY <1>1, <1>5
<1>7. \A y \in {"lr", "s0", "s1", "a0", "a1"} : r2[y] = a.entry[y]
  BY DEF EnteringRegs
<1>8. p + 1 > c => OwnGP(a, r2)
  BY <1>1
<1>. QED
  BY <1>1, <1>4, <1>6, <1>7, <1>8 DEF EnteringRegs

\* An instruction of the prologue that stores nothing.
LEMMA EnteringStackStep ==
  ASSUME NEW a \in ActType, Made(a), NEW m, NEW p \in Int, EnteringStack(a, p, m),
         p <= AfterAllocate(Func(a)) \/ p > AfterSaves(Func(a)),
         p <= AfterSaves(Func(a)) \/ p > AfterEh(Func(a)),
         p <= AfterGP(Func(a)),
         p = AfterGP(Func(a)) => ~(HasFrame(Func(a)) /\ NeedsGPSlot(Func(a)))
  PROVE  EnteringStack(a, p + 1, m)
<1> DEFINE f == Func(a)
<1>0. PICK q \in Int : q = p + 1
  OBVIOUS
<1>1. PICK x \in Nat, s \in Nat, h \in Nat, g \in Nat, n \in Nat, t \in Nat :
        /\ x = AfterAllocate(f) /\ s = AfterSaves(f) /\ h = AfterEh(f) /\ g = AfterGP(f)
        /\ n = Len(SavedRegs(f)) /\ t = Len(EhRegs(f)) /\ s = x + n /\ h = s + t
  <2>1. Places(f) /\ Len(SavedRegs(f)) \in Nat /\ Len(EhRegs(f)) \in Nat
    BY ActOf, PlacesOf, RegsTyped
  <2>. QED
    BY <2>1 DEF Places
<1>t. /\ p \in Int /\ q \in Int /\ q = p + 1 /\ p <= g
      /\ x \in Int /\ s \in Int /\ h \in Int /\ g \in Int /\ n \in Int /\ t \in Int
      /\ s = x + n /\ h = s + t
  BY <1>0, <1>1
<1>2. /\ SavedHeld(a, m, p - 1 - x) /\ EhHeld(a, m, p - 1 - s)
      /\ HomesHeld(a, m, p - 1 - g) /\ ArgsHeld(a, m) /\ (p > g => GPHeld(a, m))
  BY <1>1 DEF EnteringStack
<1>3. SavedHeld(a, m, q - 1 - x)
  <2>1. CASE p <= x
    <3>1. q - 1 - x \in Int /\ q - 1 - x <= 0
      BY <1>0, <2>1
    <3>. QED
      BY <3>1, HeldRange
  <2>2. CASE p > s
    <3>1. p - 1 - x \in Int /\ p - 1 - x >= n
      BY ONLY <1>t, <2>2
    <3>. QED
      BY <1>1, <1>2, <3>1, HeldRange
  <2>. QED
    BY <1>1, <2>1, <2>2
<1>4. EhHeld(a, m, q - 1 - s)
  <2>1. CASE p <= s
    <3>1. q - 1 - s \in Int /\ q - 1 - s <= 0
      BY <1>0, <2>1
    <3>. QED
      BY <3>1, HeldRange
  <2>2. CASE p > h
    <3>1. p - 1 - s \in Int /\ p - 1 - s >= t
      BY ONLY <1>t, <2>2
    <3>. QED
      BY <1>1, <1>2, <3>1, HeldRange
  <2>. QED
    BY <1>1, <2>1, <2>2
<1>5. HomesHeld(a, m, q - 1 - g)
  <2>1. q - 1 - g \in Int /\ q - 1 - g <= 0
    BY ONLY <1>t
  <2>. QED
    BY <2>1, HeldRange
<1>6. q > g => GPHeld(a, m)
  <2>1. q > g => p = g
    BY ONLY <1>t
  <2>. QED
    BY <1>1, <2>1 DEF GPHeld
<1>7. /\ SavedHeld(a, m, q - 1 - AfterAllocate(f)) /\ EhHeld(a, m, q - 1 - AfterSaves(f))
      /\ HomesHeld(a, m, q - 1 - AfterGP(f)) /\ ArgsHeld(a, m)
      /\ (q > AfterGP(f) => GPHeld(a, m))
  BY <1>1, <1>2, <1>3, <1>4, <1>5, <1>6
<1>8. EnteringStack(a, q, m)
  BY <1>7 DEF EnteringStack
<1>. QED
  BY <1>0, <1>8

\* The instructions of the prologue that store.
Saves(a, p, k, b) ==
  /\ k \in DOMAIN SavedRegs(Func(a)) /\ p = AfterAllocate(Func(a)) + k
  /\ b \in Addresses /\ b = a.entry.sp - 4 * k

LEMMA SaveStep ==
  ASSUME NEW a \in ActType, Made(a), NEW m, NEW m2, NEW p \in Int, EnteringStack(a, p, m),
         NEW k \in Nat, NEW b \in Int, Saves(a, p, k, b),
         Puts(m, m2, b, a.entry[SavedRegs(Func(a))[k]])
  PROVE  EnteringStack(a, p + 1, m2) /\ Agree(m, m2, End(a))
<1> DEFINE f == Func(a)
<1>0. PICK q \in Int : q = p + 1
  OBVIOUS
<1>1. PICK x \in Nat, s \in Nat, g \in Nat, n \in Nat, e \in Int :
        /\ x = AfterAllocate(f) /\ s = AfterSaves(f) /\ g = AfterGP(f)
        /\ n = Len(SavedRegs(f)) /\ s = x + n /\ s <= g
        /\ g = s => ~(HasFrame(f) /\ NeedsGPSlot(f))
        /\ e = a.entry.sp
  <2>1. Places(f) /\ Len(SavedRegs(f)) \in Nat /\ Len(EhRegs(f)) \in Nat /\ a.entry.sp \in Int
    BY ActOf, PlacesOf, RegsTyped, RegInt
  <2>2. AfterSaves(f) <= AfterGP(f)
        /\ (AfterGP(f) = AfterSaves(f) => ~(HasFrame(f) /\ NeedsGPSlot(f)))
    BY <2>1 DEF Places
  <2>. QED
    BY <2>1, <2>2 DEF Places
<1>2. s = x + n /\ s <= g
  BY <1>1
<1>3. 1 <= k /\ k <= n /\ p = x + k /\ b = e - 4 * k /\ b \in Addresses /\ k \in DOMAIN SavedRegs(f)
  <2>1. DOMAIN SavedRegs(f) = 1 .. n
    BY <1>1, ActOf, RegsTyped
  <2>. QED
    BY <1>1, <2>1 DEF Saves
<1>4. SavedHeld(a, m, k - 1) /\ ArgsHeld(a, m)
  <2>1. SavedHeld(a, m, p - 1 - x) /\ ArgsHeld(a, m)
    BY <1>1 DEF EnteringStack
  <2>2. p - 1 - x = k - 1
    BY <1>3
  <2>. QED
    BY <2>1, <2>2
<1>5. b < e
  BY <1>3
<1>6. ArgsHeld(a, m2) /\ Agree(m, m2, End(a))
  BY <1>1, <1>4, <1>5, PutBelow
<1>7. SavedHeld(a, m2, k - 1)
  <2>1. ASSUME NEW j \in DOMAIN SavedRegs(f), j <= k - 1
        PROVE  Holds(m2, e - 4 * j, a.entry[SavedRegs(f)[j]])
    <3>1. j \in Nat
      BY ObjectsAt
    <3>2. e - 4 * j # b
      BY <1>3, <2>1, <3>1
    <3>3. Holds(m, e - 4 * j, a.entry[SavedRegs(f)[j]])
      BY <1>1, <1>4, <2>1 DEF SavedHeld
    <3>. QED
      BY <3>2, <3>3, PutsAgree
  <2>. QED
    BY <1>1, <2>1 DEF SavedHeld
<1>8. SavedHeld(a, m2, k)
  <2>1. Holds(m2, e - 4 * k, a.entry[SavedRegs(f)[k]])
    BY <1>3, PutsAgree
  <2>. QED
    BY <1>1, <1>7, <2>1, HeldNext
<1>9. /\ SavedHeld(a, m2, q - 1 - x) /\ EhHeld(a, m2, q - 1 - s) /\ HomesHeld(a, m2, q - 1 - g)
      /\ (q > g => ~(HasFrame(f) /\ NeedsGPSlot(f)))
  <2>1. q - 1 - x = k /\ q - 1 - s \in Int /\ q - 1 - s <= 0 /\ q - 1 - g \in Int /\ q - 1 - g <= 0
        /\ (q > g => g = s)
    BY <1>0, <1>2, <1>3
  <2>2. EhHeld(a, m2, q - 1 - s) /\ HomesHeld(a, m2, q - 1 - g)
    BY <2>1, HeldRange
  <2>. QED
    BY <1>1, <1>8, <2>1, <2>2
<1>10. /\ SavedHeld(a, m2, q - 1 - AfterAllocate(f)) /\ EhHeld(a, m2, q - 1 - AfterSaves(f))
       /\ HomesHeld(a, m2, q - 1 - AfterGP(f)) /\ (q > AfterGP(f) => GPHeld(a, m2))
  BY <1>1, <1>9 DEF GPHeld
<1>11. EnteringStack(a, q, m2)
  BY <1>6, <1>10 DEF EnteringStack
<1>. QED
  BY <1>0, <1>6, <1>11

SavesEh(a, p, k, b) ==
  /\ k \in DOMAIN EhRegs(Func(a)) /\ p = AfterSaves(Func(a)) + k
  /\ b \in Addresses /\ b = a.entry.sp + EhOffset(Func(a), k)

LEMMA EhStep ==
  ASSUME NEW a \in ActType, Made(a), NEW m, NEW m2, NEW p \in Int, EnteringStack(a, p, m),
         NEW k \in Nat, NEW b \in Int, SavesEh(a, p, k, b),
         Puts(m, m2, b, a.entry[EhRegs(Func(a))[k]])
  PROVE  EnteringStack(a, p + 1, m2) /\ Agree(m, m2, End(a))
<1> DEFINE f == Func(a)
<1>0. PICK q \in Int : q = p + 1
  OBVIOUS
<1>1. PICK x \in Nat, s \in Nat, g \in Nat, n \in Nat, t \in Nat, l \in Nat, e \in Int :
        /\ x = AfterAllocate(f) /\ s = AfterSaves(f) /\ g = AfterGP(f)
        /\ n = Len(SavedRegs(f)) /\ t = Len(EhRegs(f)) /\ s = x + n /\ s + t <= g
        /\ g = s + t => ~(HasFrame(f) /\ NeedsGPSlot(f))
        /\ e = a.entry.sp /\ l = f.locals
  <2>1. Places(f) /\ Len(SavedRegs(f)) \in Nat /\ Len(EhRegs(f)) \in Nat /\ a.entry.sp \in Int
        /\ f.locals \in Nat
    BY ActOf, PlacesOf, RegsTyped, RegInt
  <2>2. AfterSaves(f) + Len(EhRegs(f)) <= AfterGP(f)
        /\ (AfterGP(f) = AfterSaves(f) + Len(EhRegs(f)) => ~(HasFrame(f) /\ NeedsGPSlot(f)))
    BY <2>1 DEF Places
  <2>. QED
    BY <2>1, <2>2 DEF Places
<1>2. s = x + n /\ s + t <= g
  BY <1>1
<1>3. 1 <= k /\ k <= t /\ p = s + k /\ b = e - 4 * (n + l + k) /\ b \in Addresses
      /\ k \in DOMAIN EhRegs(f) /\ b = e + EhOffset(f, k)
  <2>1. DOMAIN EhRegs(f) = 1 .. t
    BY <1>1, ActOf, RegsTyped
  <2>2. k \in DOMAIN EhRegs(f) /\ p = s + k /\ b \in Addresses /\ b = e + EhOffset(f, k)
    BY <1>1 DEF SavesEh
  <2>3. EhOffset(f, k) = -4 * (n + l + k)
    BY <1>1, <2>2, ObjectsAt
  <2>4. b = e - 4 * (n + l + k)
    BY <2>2, <2>3
  <2>. QED
    BY <2>1, <2>2, <2>4
<1>4. EhHeld(a, m, k - 1) /\ ArgsHeld(a, m) /\ \A i : SavedHeld(a, m, i)
  <2>1. SavedHeld(a, m, p - 1 - x) /\ EhHeld(a, m, p - 1 - s) /\ ArgsHeld(a, m)
    BY <1>1 DEF EnteringStack
  <2>2. p - 1 - s = k - 1 /\ p - 1 - x \in Int /\ p - 1 - x >= n
    BY <1>2, <1>3
  <2>. QED
    BY <1>1, <2>1, <2>2, HeldRange
<1>5. b < e
  BY <1>3
<1>6. ArgsHeld(a, m2) /\ Agree(m, m2, End(a))
  BY <1>1, <1>4, <1>5, PutBelow
<1>7. \A i : SavedHeld(a, m2, i)
  <2>1. ASSUME NEW j \in DOMAIN SavedRegs(f) PROVE b # a.entry.sp - 4 * j
    <3>1. j \in Nat /\ j <= n
      BY <1>1, ObjectsAt
    <3>2. b # e - 4 * j
      BY <1>3, <3>1
    <3>. QED
      BY <1>1, <3>2
  <2>2. \A i : SavedHeld(a, m, i) => SavedHeld(a, m2, i)
    BY <2>1, PutKeeps
  <2>. QED
    BY <1>4, <2>2
<1>8. EhHeld(a, m2, k)
  <2>1. ASSUME NEW j \in DOMAIN EhRegs(f), j <= k - 1
        PROVE  Holds(m2, e + EhOffset(f, j), a.entry[EhRegs(f)[j]])
    <3>1. j \in Nat /\ EhOffset(f, j) = -4 * (n + l + j)
      BY <1>1, ObjectsAt
    <3>2. e + EhOffset(f, j) # b
      BY <1>3, <2>1, <3>1
    <3>3. Holds(m, e + EhOffset(f, j), a.entry[EhRegs(f)[j]])
      BY <1>1, <1>4, <2>1 DEF EhHeld
    <3>. QED
      BY <3>2, <3>3, PutsAgree
  <2>2. EhHeld(a, m2, k - 1)
    BY <1>1, <2>1 DEF EhHeld
  <2>3. Holds(m2, e + EhOffset(f, k), a.entry[EhRegs(f)[k]])
    BY <1>3, PutsAgree
  <2>. QED
    BY <1>1, <2>2, <2>3, HeldNext
<1>9. EhHeld(a, m2, q - 1 - s) /\ HomesHeld(a, m2, q - 1 - g)
      /\ (q > g => ~(HasFrame(f) /\ NeedsGPSlot(f)))
  <2>1. q - 1 - s = k /\ q - 1 - g \in Int /\ q - 1 - g <= 0 /\ (q > g => g = s + t)
    BY <1>0, <1>2, <1>3
  <2>2. HomesHeld(a, m2, q - 1 - g)
    BY <2>1, HeldRange
  <2>. QED
    BY <1>1, <1>8, <2>1, <2>2
<1>10. /\ SavedHeld(a, m2, q - 1 - AfterAllocate(f)) /\ EhHeld(a, m2, q - 1 - AfterSaves(f))
       /\ HomesHeld(a, m2, q - 1 - AfterGP(f)) /\ (q > AfterGP(f) => GPHeld(a, m2))
  BY <1>1, <1>7, <1>9 DEF GPHeld
<1>11. EnteringStack(a, q, m2)
  BY <1>6, <1>10 DEF EnteringStack
<1>. QED
  BY <1>0, <1>6, <1>11

SavesGP(a, p, b) ==
  /\ HasFrame(Func(a)) /\ NeedsGPSlot(Func(a)) /\ p = AfterFP(Func(a)) + 1
  /\ b \in Addresses /\ b = Bottom(a) + GPSlot(Func(a)).off

\* The slot for gp lies below the other objects of the frame.
LEMMA GPSlotBelow ==
  ASSUME NEW a \in ActType, Made(a), Handled, HasFrame(Func(a)), NeedsGPSlot(Func(a))
  PROVE  /\ GPSlot(Func(a)).off \in Nat /\ GPSlot(Func(a)).off % 4 = 0
         /\ Bottom(a) + GPSlot(Func(a)).off \in Int
         /\ Bottom(a) + GPSlot(Func(a)).off + 4 + 4 * Objects(Func(a)) <= a.entry.sp
<1>1. PICK g \in Nat, e \in Int, z \in Nat, o \in Nat :
        /\ g = GPSlot(Func(a)).off /\ e = a.entry.sp /\ z = StackSize(Func(a)) /\ o = Objects(Func(a))
        /\ GPSlot(Func(a)).off % 4 = 0
  <2>1. GPSlot(Func(a)).off \in Nat /\ GPSlot(Func(a)).off % 4 = 0
    BY ActOf, SlotsTyped DEF NeedsGPSlot
  <2>2. StackSize(Func(a)) \in Nat /\ Objects(Func(a)) \in Nat
    BY ActOf, SizeOf DEF Sized
  <2>3. a.entry.sp \in Int
    BY ActOf, RegInt
  <2>. QED
    BY <2>1, <2>2, <2>3
<1>2. g + 4 + 4 * o <= z
  BY <1>1, ActOf, HandledFunc DEF GPSlotApart
<1>3. Bottom(a) = e - z
  BY <1>1 DEF Bottom
<1>4. e - z + g \in Int /\ e - z + g + 4 + 4 * o <= e
  BY <1>2
<1>. QED
  BY <1>1, <1>3, <1>4

LEMMA GPStep ==
  ASSUME NEW a \in ActType, Made(a), Handled, NEW m, NEW m2, NEW p \in Int,
         EnteringStack(a, p, m), NEW b \in Int, SavesGP(a, p, b), Puts(m, m2, b, GPVal(a.id))
  PROVE  EnteringStack(a, p + 1, m2) /\ Agree(m, m2, End(a))
<1> DEFINE f == Func(a)
<1>0. PICK q \in Int : q = p + 1
  OBVIOUS
<1>1. PICK x \in Nat, s \in Nat, u \in Nat, g \in Nat, n \in Nat, t \in Nat, l \in Nat,
           e \in Int, o \in Nat :
        /\ x = AfterAllocate(f) /\ s = AfterSaves(f) /\ g = AfterGP(f) /\ u = AfterFP(f)
        /\ n = Len(SavedRegs(f)) /\ t = Len(EhRegs(f)) /\ s = x + n /\ s + t <= u /\ g = u + 1
        /\ e = a.entry.sp /\ l = f.locals /\ o = Objects(f)
  <2>1. Places(f) /\ Len(SavedRegs(f)) \in Nat /\ Len(EhRegs(f)) \in Nat /\ a.entry.sp \in Int
        /\ f.locals \in Nat /\ Objects(f) \in Nat
    BY ActOf, PlacesOf, RegsTyped, RegInt, SizeOf DEF Sized
  <2>2. AfterSaves(f) + Len(EhRegs(f)) <= AfterFP(f)
    BY <2>1 DEF Places
  <2>3. HasFrame(f) /\ NeedsGPSlot(f)
    BY DEF SavesGP
  <2>4. AfterGP(f) = AfterFP(f) + 1
    BY <2>1, <2>3 DEF Places
  <2>. QED
    BY <2>1, <2>2, <2>4 DEF Places
<1>2. s = x + n /\ s + t <= u /\ g = u + 1
  BY <1>1
<1>3. p = u + 1 /\ b \in Addresses /\ b = Bottom(a) + GPSlot(f).off /\ b + 4 + 4 * o <= e
  BY <1>1, GPSlotBelow DEF SavesGP
<1>4. /\ \A i : SavedHeld(a, m, i)
      /\ \A i : EhHeld(a, m, i)
      /\ ArgsHeld(a, m)
  <2>1. SavedHeld(a, m, p - 1 - x) /\ EhHeld(a, m, p - 1 - s) /\ ArgsHeld(a, m)
    BY <1>1 DEF EnteringStack
  <2>2. p - 1 - s \in Int /\ p - 1 - s >= t /\ p - 1 - x \in Int /\ p - 1 - x >= n
    BY <1>2, <1>3
  <2>. QED
    BY <1>1, <2>1, <2>2, HeldRange
<1>5. b < e
  BY <1>3
<1>6. ArgsHeld(a, m2) /\ Agree(m, m2, End(a))
  BY <1>1, <1>4, <1>5, PutBelow
<1>7. \A i : SavedHeld(a, m2, i)
  <2>1. ASSUME NEW j \in DOMAIN SavedRegs(f) PROVE b # a.entry.sp - 4 * j
    <3>1. j \in Nat /\ j <= o
      BY <1>1, ObjectsAt
    <3>2. b # e - 4 * j
      BY <1>3, <3>1
    <3>. QED
      BY <1>1, <3>2
  <2>2. \A i : SavedHeld(a, m, i) => SavedHeld(a, m2, i)
    BY <2>1, PutKeeps
  <2>. QED
    BY <1>4, <2>2
<1>8. \A i : EhHeld(a, m2, i)
  <2>1. ASSUME NEW j \in DOMAIN EhRegs(f) PROVE b # a.entry.sp + EhOffset(f, j)
    <3>1. j \in Nat /\ EhOffset(f, j) = -4 * (n + l + j) /\ n + l + j <= o
      BY <1>1, ObjectsAt
    <3>2. b # e + EhOffset(f, j)
      BY <1>3, <3>1
    <3>. QED
      BY <1>1, <3>2
  <2>2. \A i : EhHeld(a, m, i) => EhHeld(a, m2, i)
    BY <2>1, PutKeeps
  <2>. QED
    BY <1>4, <2>2
<1>9. HomesHeld(a, m2, q - 1 - g)
  <2>1. q - 1 - g \in Int /\ q - 1 - g <= 0
    BY <1>0, <1>2, <1>3
  <2>. QED
    BY <2>1, HeldRange
<1>10. GPHeld(a, m2)
  BY <1>3, PutsAgree DEF GPHeld
<1>11. /\ SavedHeld(a, m2, q - 1 - AfterAllocate(f)) /\ EhHeld(a, m2, q - 1 - AfterSaves(f))
       /\ HomesHeld(a, m2, q - 1 - AfterGP(f))
  BY <1>1, <1>7, <1>8, <1>9
<1>12. EnteringStack(a, q, m2)
  BY <1>6, <1>10, <1>11 DEF EnteringStack
<1>. QED
  BY <1>0, <1>6, <1>12

SavesHome(a, p, k, b) ==
  /\ k \in DOMAIN Homed(Func(a)) /\ p = AfterGP(Func(a)) + k
  /\ b \in Addresses /\ b = a.entry.sp + Homed(Func(a))[k].off

LEMMA HomeStep ==
  ASSUME NEW a \in ActType, Made(a), Handled, NEW m, NEW m2, NEW p \in Int,
         EnteringStack(a, p, m), NEW k \in Nat, NEW b \in Int, SavesHome(a, p, k, b),
         Puts(m, m2, b, a.entry[ArgReg(Homed(Func(a))[k].reg)])
  PROVE  EnteringStack(a, p + 1, m2) /\ Agree(m, m2, End(a))
<1> DEFINE f == Func(a)
<1>0. PICK q \in Int : q = p + 1
  OBVIOUS
<1>1. PICK x \in Nat, s \in Nat, g \in Nat, n \in Nat, t \in Nat, l \in Nat, e \in Int, o \in Nat :
        /\ x = AfterAllocate(f) /\ s = AfterSaves(f) /\ g = AfterGP(f)
        /\ n = Len(SavedRegs(f)) /\ t = Len(EhRegs(f)) /\ s = x + n /\ s + t <= g
        /\ e = a.entry.sp /\ l = f.locals /\ o = Objects(f)
  <2>1. Places(f) /\ Len(SavedRegs(f)) \in Nat /\ Len(EhRegs(f)) \in Nat /\ a.entry.sp \in Int
        /\ f.locals \in Nat /\ Objects(f) \in Nat
    BY ActOf, PlacesOf, RegsTyped, RegInt, SizeOf DEF Sized
  <2>2. AfterSaves(f) + Len(EhRegs(f)) <= AfterGP(f)
    BY <2>1 DEF Places
  <2>. QED
    BY <2>1, <2>2 DEF Places
<1>2. s = x + n /\ s + t <= g
  BY <1>1
<1>3. PICK y \in {0, 1} : /\ Homed(f)[k] = [reg |-> y, off |-> 4 * y]
                          /\ Homed(f)[k].off = 4 * y /\ Homed(f)[k].reg = y
                          /\ ReservedArgArea(Cc(f)) = 8 /\ a.entry.sp + 8 <= End(a)
  BY HomesAt DEF SavesHome
<1>4. p = g + k /\ b \in Addresses /\ b = e + 4 * y /\ k \in DOMAIN Homed(f) /\ k >= 1
  <2>1. k \in DOMAIN Homed(f) /\ p = g + k /\ b \in Addresses /\ b = e + 4 * y
    BY <1>1, <1>3 DEF SavesHome
  <2>2. k >= 1
    BY <2>1, ActOf, HomeArgsAre
  <2>. QED
    BY <2>1, <2>2
<1>5. /\ \A i : SavedHeld(a, m, i)
      /\ \A i : EhHeld(a, m, i)
      /\ HomesHeld(a, m, k - 1) /\ GPHeld(a, m) /\ ArgsHeld(a, m)
  <2>1. /\ SavedHeld(a, m, p - 1 - x) /\ EhHeld(a, m, p - 1 - s) /\ ArgsHeld(a, m)
        /\ HomesHeld(a, m, p - 1 - g) /\ (p > g => GPHeld(a, m))
    BY <1>1 DEF EnteringStack
  <2>2. /\ p - 1 - s \in Int /\ p - 1 - s >= t /\ p - 1 - x \in Int /\ p - 1 - x >= n
        /\ p - 1 - g = k - 1 /\ p > g
    BY <1>2, <1>4
  <2>3. (\A i : SavedHeld(a, m, i)) /\ (\A i : EhHeld(a, m, i))
    BY <1>1, <2>1, <2>2, HeldRange
  <2>. QED
    BY <2>1, <2>2, <2>3
<1>6. ArgsHeld(a, m2)
  <2>1. ASSUME NEW i \in DOMAIN GotWords(a), GotWords(a)[i].reg = -1
        PROVE  Holds(m2, a.entry.sp + GotWords(a)[i].off, a.passed[i])
    <3>1. GotWords(a)[i].off \in Nat /\ 8 <= GotWords(a)[i].off
      BY SMTT(60), <1>3, <2>1, GotWordsOf DEF Made
    <3>2. b # e + GotWords(a)[i].off
      BY <1>4, <3>1
    <3>3. Holds(m, e + GotWords(a)[i].off, a.passed[i])
      BY <1>1, <1>5, <2>1 DEF ArgsHeld
    <3>4. Holds(m2, e + GotWords(a)[i].off, a.passed[i])
      BY <3>2, <3>3, PutsAgree
    <3>. QED
      BY <1>1, <3>4
  <2>. QED
    BY <2>1 DEF ArgsHeld
<1>7. \A i : SavedHeld(a, m2, i)
  <2>1. ASSUME NEW j \in DOMAIN SavedRegs(f) PROVE b # a.entry.sp - 4 * j
    <3>1. j \in Nat /\ 1 <= j
      BY ObjectsAt
    <3>2. b # e - 4 * j
      BY <1>4, <3>1
    <3>. QED
      BY <1>1, <3>2
  <2>2. \A i : SavedHeld(a, m, i) => SavedHeld(a, m2, i)
    BY <2>1, PutKeeps
  <2>. QED
    BY <1>5, <2>2
<1>8. \A i : EhHeld(a, m2, i)
  <2>1. ASSUME NEW j \in DOMAIN EhRegs(f) PROVE b # a.entry.sp + EhOffset(f, j)
    <3>1. j \in Nat /\ EhOffset(f, j) = -4 * (n + l + j) /\ 1 <= j
      BY <1>1, ObjectsAt
    <3>2. b # e + EhOffset(f, j)
      BY <1>4, <3>1
    <3>. QED
      BY <1>1, <3>2
  <2>2. \A i : EhHeld(a, m, i) => EhHeld(a, m2, i)
    BY <2>1, PutKeeps
  <2>. QED
    BY <1>5, <2>2
<1>9. GPHeld(a, m2)
  <2>1. ASSUME HasFrame(f), NeedsGPSlot(f) PROVE b # Bottom(a) + GPSlot(f).off
    <3>1. PICK h \in Int : h = Bottom(a) + GPSlot(f).off /\ h + 4 + 4 * o <= e
      BY <1>1, <2>1, GPSlotBelow
    <3>2. b # h
      BY <1>4, <3>1
    <3>. QED
      BY <3>1, <3>2
  <2>2. GPHeld(a, m) => GPHeld(a, m2)
    BY <2>1, PutKeeps
  <2>. QED
    BY <1>5, <2>2
<1>10. HomesHeld(a, m2, k)
  <2>1. ASSUME NEW j \in DOMAIN Homed(f), j <= k - 1
        PROVE  Holds(m2, e + Homed(f)[j].off, a.entry[ArgReg(Homed(f)[j].reg)])
    <3>1. PICK z \in {0, 1} : Homed(f)[j].off = 4 * z /\ Homed(f)[j].reg = z
      BY HomesAt
    <3>2. e + 4 * z # b \/ z = y
      BY <1>4
    <3>3. Holds(m, e + 4 * z, a.entry[ArgReg(z)])
      BY <1>1, <1>5, <2>1, <3>1 DEF HomesHeld
    <3>4. Holds(m2, e + 4 * z, a.entry[ArgReg(z)])
      BY <1>3, <3>2, <3>3, PutsAgree
    <3>. QED
      BY <3>1, <3>4
  <2>2. HomesHeld(a, m2, k - 1)
    BY <1>1, <2>1 DEF HomesHeld
  <2>3. Holds(m2, e + Homed(f)[k].off, a.entry[ArgReg(Homed(f)[k].reg)])
    BY <1>3, <1>4, PutsAgree
  <2>. QED
    BY <1>1, <2>2, <2>3, HeldNext
<1>11. HomesHeld(a, m2, q - 1 - g)
  <2>1. q - 1 - g = k
    BY <1>0, <1>4
  <2>. QED
    BY <1>10, <2>1
<1>12. /\ SavedHeld(a, m2, q - 1 - AfterAllocate(f)) /\ EhHeld(a, m2, q - 1 - AfterSaves(f))
       /\ HomesHeld(a, m2, q - 1 - AfterGP(f))
  BY <1>1, <1>7, <1>8, <1>11
<1>13. EnteringStack(a, q, m2)
  BY <1>6, <1>9, <1>12 DEF EnteringStack
<1>14. Agree(m, m2, End(a))
  <2>1. b < e + 8
    BY <1>4
  <2>2. b < End(a) /\ End(a) \in Int
    <3>1. End(a) \in Int /\ e + 8 <= End(a)
      BY <1>1, <1>3, ShapeOf DEF Shape
    <3>. QED
      BY <2>1, <3>1
  <2>. QED
    BY <2>2, PutsAgree
<1>. QED
  BY <1>0, <1>13, <1>14

\* Where an object of the frame is, behind the allocation of the frame.
LEMMA ObjectPlace ==
  ASSUME NEW a \in ActType, NEW r, NEW off \in Int
  PROVE  /\ r.sp = Bottom(a) => \A k \in Nat : Place1(r, SavedSlot(Func(a), k)) = a.entry.sp - 4 * k
         /\ r[FrameReg(Func(a))] = Bottom(a) => Place1(r, ObjSlot(Func(a), off)) = a.entry.sp + off
         /\ Place1(r, Slot("sp", off)) = r.sp + off
         /\ HasFP(Func(a)) => Place1(r, Slot(FrameReg(Func(a)), off)) = r.fp + off
         /\ HasFP(Func(a)) => FrameReg(Func(a)) = "fp"
         /\ ~HasFP(Func(a)) => FrameReg(Func(a)) = "sp"
<1>1. PICK e \in Int, z \in Nat : e = a.entry.sp /\ z = StackSize(Func(a))
  <2>1. a.entry.sp \in Int /\ StackSize(Func(a)) \in Nat
    BY ActOf, RegInt, SizeOf DEF Sized
  <2>. QED
    BY <2>1
<1>2. Bottom(a) = e - z
  BY <1>1 DEF Bottom
<1>3. ASSUME r.sp = Bottom(a), NEW k \in Nat PROVE Place1(r, SavedSlot(Func(a), k)) = e - 4 * k
  <2>1. Place1(r, SavedSlot(Func(a), k)) = r.sp + (z - 4 * k)
    BY <1>1 DEF Place1, SavedSlot, Slot
  <2>. QED
    BY <1>2, <1>3, <2>1
<1>4. ASSUME r[FrameReg(Func(a))] = Bottom(a) PROVE Place1(r, ObjSlot(Func(a), off)) = e + off
  <2>1. Place1(r, ObjSlot(Func(a), off)) = r[FrameReg(Func(a))] + (z + off)
    BY <1>1 DEF Place1, ObjSlot, Slot
  <2>. QED
    BY <1>2, <1>4, <2>1
<1>5. Place1(r, Slot("sp", off)) = r.sp + off
      /\ (HasFP(Func(a)) => Place1(r, Slot(FrameReg(Func(a)), off)) = r.fp + off)
  BY DEF Place1, Slot, FrameReg
<1>. QED
  BY <1>1, <1>3, <1>4, <1>5 DEF FrameReg

\* What changes a register, and what stores.
LEMMA SetsOthers ==
  ASSUME NEW r, NEW r2, NEW x, NEW v, Sets(r, r2, x, v)
  PROVE  r2 \in RegFile /\ r2[x] = v /\ \A y \in RegNames : y # x => r2[y] = r[y]
BY DEF Sets

\* An instruction of the prologue, about to be executed.
EnterAt(a, p, r, m) ==
  a \in ActType /\ Made(a) /\ Handled /\ r \in RegFile /\ m \in Memory /\ p \in Nat
    /\ Entering(a, p, r, m) /\ r.sp >= 0
Entered1(a, p, m, r2, m2) ==
  Entering(a, p + 1, r2, m2) /\ Agree(m, m2, End(a)) /\ r2 \in RegFile /\ m2 \in Memory

LEMMA EnterRegs ==
  ASSUME NEW a, NEW p, NEW r, NEW m, EnterAt(a, p, r, m)
  PROVE  /\ a \in ActType /\ Made(a) /\ Handled /\ p \in Int /\ p \in Nat /\ Func(a) \in Program
         /\ EnteringRegs(a, p, r) /\ EnteringStack(a, p, m) /\ Unused(a)
         /\ p > AfterAllocate(Func(a)) => r.sp = Bottom(a)
         /\ p <= AfterAllocate(Func(a)) => r.sp = a.entry.sp
         /\ p <= AfterFP(Func(a)) => r.fp = a.entry.fp
         /\ HasFP(Func(a)) /\ p > AfterFP(Func(a)) => r.fp = Bottom(a)
         /\ p > AfterCpload(Func(a)) => OwnGP(a, r)
         /\ \A x \in {"lr", "s0", "s1", "a0", "a1"} : r[x] = a.entry[x]
         /\ Places(Func(a)) /\ Len(SavedRegs(Func(a))) \in Nat /\ Len(EhRegs(Func(a))) \in Nat
         /\ Len(Homed(Func(a))) \in Nat
<1>1. /\ a \in ActType /\ Made(a) /\ Handled /\ p \in Nat
      /\ EnteringRegs(a, p, r) /\ EnteringStack(a, p, m) /\ Unused(a)
  BY DEF EnterAt, Entering
<1>2. Func(a) \in Program
  BY <1>1, ActOf
<1>3. Places(Func(a)) /\ Len(SavedRegs(Func(a))) \in Nat /\ Len(EhRegs(Func(a))) \in Nat
      /\ Len(Homed(Func(a))) \in Nat
  BY <1>2, PlacesOf, RegsTyped, HomeArgsAre
<1>4. AfterAllocate(Func(a)) \in Nat /\ AfterFP(Func(a)) \in Nat
  BY <1>3 DEF Places
<1>5. r.sp = IF p <= AfterAllocate(Func(a)) THEN a.entry.sp ELSE Bottom(a)
  BY <1>1 DEF EnteringRegs
<1>6. r.fp = IF HasFP(Func(a)) /\ p > AfterFP(Func(a)) THEN Bottom(a) ELSE a.entry.fp
  BY <1>1 DEF EnteringRegs
<1>7. (p > AfterAllocate(Func(a)) => r.sp = Bottom(a)) /\ (p <= AfterFP(Func(a)) => r.fp = a.entry.fp)
  BY <1>1, <1>4, <1>5, <1>6
<1>8. /\ p > AfterCpload(Func(a)) => OwnGP(a, r)
      /\ \A x \in {"lr", "s0", "s1", "a0", "a1"} : r[x] = a.entry[x]
  BY <1>1 DEF EnteringRegs
<1>. QED
  BY <1>1, <1>2, <1>3, <1>5, <1>6, <1>7, <1>8

\* The parts of a prologue follow one another.
BeforeSaves(f, p) ==
  /\ p <= AfterSaves(f) /\ p <= AfterGP(f) /\ p <= AfterAllocate(f)
  /\ p = AfterFP(f) => ~HasFP(f)
  /\ p = AfterGP(f) => ~(HasFrame(f) /\ NeedsGPSlot(f))
AfterStart(f, p) ==
  /\ p > AfterCpload(f) /\ p >= AfterCpload(f) /\ p > AfterAllocate(f) /\ p # AfterAllocate(f)

LEMMA EnterOrder ==
  ASSUME NEW f \in Program, NEW p \in Nat
  PROVE  /\ f.pic /\ p = 1 =>
              BeforeSaves(f, p) /\ (p = AfterAllocate(f) => ~HasFrame(f))
         /\ HasFrame(f) /\ p = AfterCpload(f) + 1 =>
              /\ BeforeSaves(f, p) /\ p = AfterAllocate(f)
              /\ p > AfterCpload(f) /\ p >= AfterCpload(f)
         /\ p > AfterAllocate(f) /\ p <= AfterSaves(f) =>
              AfterStart(f, p) /\ p <= AfterFP(f) /\ (p = AfterFP(f) => ~HasFP(f))
         /\ p > AfterSaves(f) /\ p <= AfterEh(f) =>
              AfterStart(f, p) /\ p <= AfterFP(f) /\ (p = AfterFP(f) => ~HasFP(f))
         /\ HasFP(f) /\ p = AfterEh(f) + 1 =>
              /\ AfterStart(f, p) /\ p = AfterFP(f) /\ p > AfterSaves(f) /\ p > AfterEh(f)
              /\ p <= AfterGP(f) /\ (p = AfterGP(f) => ~(HasFrame(f) /\ NeedsGPSlot(f)))
         /\ p > AfterFP(f) => AfterStart(f, p) /\ p # AfterFP(f)
         /\ p > AfterGP(f) => AfterStart(f, p) /\ p > AfterFP(f) /\ p # AfterFP(f)
<1>1. PICK c \in Nat, x \in Nat, s \in Nat, h \in Nat, u \in Nat, g \in Nat :
        /\ c = AfterCpload(f) /\ x = AfterAllocate(f) /\ s = AfterSaves(f) /\ h = AfterEh(f)
        /\ u = AfterFP(f) /\ g = AfterGP(f)
        /\ c <= x /\ x <= s /\ s <= h /\ h <= u /\ u <= g
        /\ f.pic => c = 1
        /\ HasFrame(f) => x = c + 1
        /\ HasFP(f) => u = h + 1
        /\ HasFrame(f) /\ NeedsGPSlot(f) => g = u + 1
  <2>1. Places(f) /\ Len(SavedRegs(f)) \in Nat /\ Len(EhRegs(f)) \in Nat
    BY PlacesOf, RegsTyped
  <2>2. /\ AfterCpload(f) \in Nat /\ AfterAllocate(f) \in Nat /\ AfterSaves(f) \in Nat
        /\ AfterEh(f) \in Nat /\ AfterFP(f) \in Nat /\ AfterGP(f) \in Nat
    BY <2>1 DEF Places
  <2>3. AfterCpload(f) <= AfterAllocate(f) /\ AfterAllocate(f) <= AfterSaves(f)
        /\ AfterSaves(f) <= AfterEh(f)
    BY <2>1 DEF Places
  <2>4. AfterEh(f) <= AfterFP(f) /\ AfterFP(f) <= AfterGP(f)
    BY <2>1 DEF Places
  <2>5. /\ f.pic => AfterCpload(f) = 1
        /\ HasFrame(f) => AfterAllocate(f) = AfterCpload(f) + 1
        /\ HasFP(f) => AfterFP(f) = AfterEh(f) + 1
        /\ HasFrame(f) /\ NeedsGPSlot(f) => AfterGP(f) = AfterFP(f) + 1
    BY <2>1 DEF Places
  <2>. QED
    BY <2>2, <2>3, <2>4, <2>5
<1>2. ASSUME f.pic, p = 1
      PROVE  BeforeSaves(f, p) /\ (p = AfterAllocate(f) => ~HasFrame(f))
  <2>1. /\ p <= x /\ p <= s /\ p <= g /\ (p = u => ~HasFP(f)) /\ (p = x => ~HasFrame(f))
        /\ p = g => ~(HasFrame(f) /\ NeedsGPSlot(f))
    BY <1>1, <1>2
  <2>. QED
    BY <1>1, <2>1 DEF BeforeSaves
<1>3. ASSUME HasFrame(f), p = AfterCpload(f) + 1
      PROVE  /\ BeforeSaves(f, p) /\ p = AfterAllocate(f)
             /\ p > AfterCpload(f) /\ p >= AfterCpload(f)
  <2>1. /\ p = x /\ p > c /\ p >= c /\ p <= x /\ p <= s /\ p <= g /\ (p = u => ~HasFP(f))
        /\ p = g => ~(HasFrame(f) /\ NeedsGPSlot(f))
    BY <1>1, <1>3
  <2>. QED
    BY <1>1, <2>1 DEF BeforeSaves
<1>4. ASSUME p > AfterAllocate(f) PROVE AfterStart(f, p)
  <2>1. p > x
    BY <1>1, <1>4
  <2>2. p > c /\ p >= c /\ p # x
    BY <1>1, <2>1
  <2>. QED
    BY <1>1, <2>1, <2>2 DEF AfterStart
<1>5. /\ p > AfterAllocate(f) /\ p <= AfterSaves(f) => p <= AfterFP(f) /\ (p = AfterFP(f) => ~HasFP(f))
      /\ p > AfterSaves(f) /\ p <= AfterEh(f) =>
           p > AfterAllocate(f) /\ p <= AfterFP(f) /\ (p = AfterFP(f) => ~HasFP(f))
  BY <1>1
<1>6. HasFP(f) /\ p = AfterEh(f) + 1 =>
        /\ p > AfterAllocate(f) /\ p = AfterFP(f) /\ p > AfterSaves(f) /\ p > AfterEh(f)
        /\ p <= AfterGP(f) /\ (p = AfterGP(f) => ~(HasFrame(f) /\ NeedsGPSlot(f)))
  BY <1>1
<1>7. /\ p > AfterFP(f) => p > AfterAllocate(f) /\ p # AfterFP(f)
      /\ p > AfterGP(f) => p > AfterAllocate(f) /\ p > AfterFP(f) /\ p # AfterFP(f)
  BY <1>1
<1>. QED
  BY <1>2, <1>3, <1>4, <1>5, <1>6, <1>7

LEMMA EnterSets ==
  ASSUME NEW a, NEW p, NEW r, NEW m, EnterAt(a, p, r, m), NEW r2 \in RegFile,
         EnteringRegs(a, p + 1, r2),
         p <= AfterAllocate(Func(a)) \/ p > AfterSaves(Func(a)),
         p <= AfterSaves(Func(a)) \/ p > AfterEh(Func(a)),
         p <= AfterGP(Func(a)),
         p = AfterGP(Func(a)) => ~(HasFrame(Func(a)) /\ NeedsGPSlot(Func(a)))
  PROVE  Entered1(a, p, m, r2, m)
<1>1. a \in ActType /\ Made(a) /\ p \in Int /\ EnteringStack(a, p, m) /\ Unused(a)
  BY EnterRegs
<1>2. EnteringStack(a, p + 1, m)
  BY <1>1, EnteringStackStep
<1>3. Agree(m, m, End(a)) /\ m \in Memory
  BY DEF Agree, EnterAt
<1>. QED
  BY <1>1, <1>2, <1>3 DEF Entered1, Entering

LEMMA EnterGP ==
  ASSUME NEW a, NEW p, NEW r, NEW m, EnterAt(a, p, r, m), NEW r2,
         Func(a).pic, p = 1, Sets(r, r2, "gp", GPVal(a.id))
  PROVE  Entered1(a, p, m, r2, m)
<1> DEFINE f == Func(a)
<1>1. f \in Program /\ a \in ActType /\ p \in Int /\ p \in Nat /\ EnteringRegs(a, p, r)
  BY EnterRegs
<1>2. BeforeSaves(f, p) /\ (p = AfterAllocate(f) => ~HasFrame(f))
  BY <1>1, EnterOrder
<1>3. r2 \in RegFile /\ r2.gp = GPVal(a.id) /\ \A y \in RegNames : y # "gp" => r2[y] = r[y]
  BY SetsOthers
<1>4. /\ \A x \in {"lr", "s0", "s1", "a0", "a1"} : r2[x] = r[x]
      /\ r2.sp = r.sp /\ r2.fp = r.fp /\ OwnGP(a, r2)
  BY <1>3 DEF RegNames, OwnGP
<1>5. EnteringRegs(a, p + 1, r2)
  BY <1>1, <1>2, <1>4, EnteringRegsStep DEF BeforeSaves
<1>. QED
  BY <1>2, <1>3, <1>5, EnterSets DEF BeforeSaves

LEMMA EnterAllocate ==
  ASSUME NEW a, NEW p, NEW r, NEW m, EnterAt(a, p, r, m), NEW r2,
         HasFrame(Func(a)), p = AfterCpload(Func(a)) + 1,
         Sets(r, r2, "sp", r.sp + (-StackSize(Func(a))))
  PROVE  Entered1(a, p, m, r2, m)
<1> DEFINE f == Func(a)
<1>1. f \in Program /\ a \in ActType /\ p \in Int /\ p \in Nat /\ EnteringRegs(a, p, r)
      /\ (p <= AfterAllocate(f) => r.sp = a.entry.sp) /\ (p > AfterCpload(f) => OwnGP(a, r))
  BY EnterRegs
<1>2. BeforeSaves(f, p) /\ p = AfterAllocate(f) /\ p > AfterCpload(f) /\ p >= AfterCpload(f)
  BY <1>1, EnterOrder
<1>3. r2 \in RegFile /\ \A y \in RegNames : y # "sp" => r2[y] = r[y]
  BY SetsOthers
<1>4. r2.sp = Bottom(a)
  <2>1. r2.sp = r.sp + (-StackSize(f)) /\ r.sp = a.entry.sp
    BY <1>1, <1>2, SetsOthers DEF BeforeSaves
  <2>2. a.entry.sp \in Int /\ StackSize(f) \in Nat
    BY <1>1, ActOf, RegInt, SizeOf DEF Sized
  <2>. QED
    BY <2>1, <2>2 DEF Bottom
<1>5. /\ \A x \in {"lr", "s0", "s1", "a0", "a1"} : r2[x] = r[x]
      /\ r2.fp = r.fp /\ OwnGP(a, r2)
  BY <1>1, <1>2, <1>3 DEF RegNames, OwnGP
<1>6. EnteringRegs(a, p + 1, r2)
  BY <1>1, <1>2, <1>4, <1>5, EnteringRegsStep DEF BeforeSaves
<1>. QED
  BY <1>2, <1>3, <1>6, EnterSets DEF BeforeSaves

LEMMA EnterFP ==
  ASSUME NEW a, NEW p, NEW r, NEW m, EnterAt(a, p, r, m), NEW r2,
         HasFP(Func(a)), p = AfterEh(Func(a)) + 1, Sets(r, r2, "fp", r.sp)
  PROVE  Entered1(a, p, m, r2, m)
<1> DEFINE f == Func(a)
<1>1. f \in Program /\ a \in ActType /\ p \in Int /\ p \in Nat /\ EnteringRegs(a, p, r)
      /\ (p > AfterAllocate(f) => r.sp = Bottom(a)) /\ (p > AfterCpload(f) => OwnGP(a, r))
  BY EnterRegs
<1>2. /\ AfterStart(f, p) /\ p = AfterFP(f) /\ p > AfterSaves(f) /\ p > AfterEh(f)
      /\ p <= AfterGP(f) /\ (p = AfterGP(f) => ~(HasFrame(f) /\ NeedsGPSlot(f)))
  BY <1>1, EnterOrder
<1>3. r2 \in RegFile /\ r2.fp = r.sp /\ \A y \in RegNames : y # "fp" => r2[y] = r[y]
  BY SetsOthers
<1>4. /\ \A x \in {"lr", "s0", "s1", "a0", "a1"} : r2[x] = r[x]
      /\ r2.sp = r.sp /\ r2.fp = Bottom(a) /\ OwnGP(a, r2)
  BY <1>1, <1>2, <1>3 DEF RegNames, OwnGP, AfterStart
<1>5. EnteringRegs(a, p + 1, r2)
  BY <1>1, <1>2, <1>4, EnteringRegsStep DEF AfterStart
<1>. QED
  BY <1>2, <1>3, <1>5, EnterSets DEF BeforeSaves

\* The instructions that store.
LEMMA EnterPuts ==
  ASSUME NEW a, NEW p, NEW r, NEW m, EnterAt(a, p, r, m), NEW m2 \in Memory,
         EnteringStack(a, p + 1, m2), Agree(m, m2, End(a)),
         AfterStart(Func(a), p), p = AfterFP(Func(a)) => ~HasFP(Func(a))
  PROVE  Entered1(a, p, m, r, m2)
<1>1. a \in ActType /\ p \in Int /\ EnteringRegs(a, p, r) /\ Unused(a)
      /\ (p > AfterCpload(Func(a)) => OwnGP(a, r))
  BY EnterRegs
<1>2. EnteringRegs(a, p + 1, r)
  BY <1>1, EnteringRegsStep DEF AfterStart
<1>. QED
  BY <1>1, <1>2 DEF Entered1, Entering, EnterAt

LEMMA ObjectInStack ==
  ASSUME NEW a \in ActType, Made(a)
  PROVE  /\ Bottom(a) >= 0 =>
              \A j \in Nat : j <= Objects(Func(a)) => a.entry.sp - 4 * j \in Addresses
         /\ \A o \in Nat : o % 4 = 0 /\ a.entry.sp + o <= End(a) =>
              a.entry.sp + o \in Addresses
         /\ \A k \in DOMAIN Homed(Func(a)) : a.entry.sp + Homed(Func(a))[k].off \in Addresses
         /\ /\ Handled /\ Bottom(a) >= 0 /\ HasFrame(Func(a)) /\ NeedsGPSlot(Func(a))
            => Bottom(a) + GPSlot(Func(a)).off \in Addresses
<1>1. PICK e \in Nat, b \in Int, n \in Nat, o \in Nat, d \in Int, t \in Nat :
        /\ e = a.entry.sp /\ b = Bottom(a) /\ o = Objects(Func(a)) /\ d = End(a) /\ t = MemTop
        /\ e % 8 = 0 /\ b % 8 = 0 /\ b + 4 * o <= e /\ d = e + n /\ d <= t
  <2>1. Shape(a) /\ MemTop \in Nat
    BY ShapeOf, BoundsAssumption
  <2>2. /\ a.entry.sp \in Nat /\ Bottom(a) \in Int /\ Objects(Func(a)) \in Nat
        /\ End(a) \in Int /\ IncomingArgSize(Func(a)) \in Nat
        /\ a.entry.sp % 8 = 0 /\ Bottom(a) % 8 = 0
        /\ Bottom(a) + 4 * Objects(Func(a)) <= a.entry.sp
        /\ End(a) = a.entry.sp + IncomingArgSize(Func(a)) /\ End(a) <= MemTop
    BY <2>1 DEF Shape
  <2>. QED
    BY <2>1, <2>2
<1>2. ASSUME b >= 0, NEW j \in Nat, j <= o PROVE e - 4 * j \in Addresses
  <2>1. e - 4 * j \in Int /\ e - 4 * j >= 0 /\ e - 4 * j <= t /\ (e - 4 * j) % 4 = 0
    BY <1>1, <1>2
  <2>. QED
    BY <1>1, <2>1, InStack
<1>3. ASSUME NEW i \in Nat, i % 4 = 0, e + i <= d PROVE e + i \in Addresses
  <2>1. e % 4 = 0 /\ d <= t
    BY <1>1
  <2>2. e + i \in Int /\ e + i >= 0 /\ e + i <= t
    BY <1>3, <2>1
  <2>3. (e + i) % 4 = 0
    BY <1>3, <2>1
  <2>. QED
    BY <1>1, <2>2, <2>3, InStack
<1>4. ASSUME NEW k \in DOMAIN Homed(Func(a)) PROVE e + Homed(Func(a))[k].off \in Addresses
  <2>1. PICK y \in {0, 1} : Homed(Func(a))[k].off = 4 * y /\ e + 8 <= d
    BY <1>1, HomesAt
  <2>2. 4 * y \in Nat /\ (4 * y) % 4 = 0 /\ e + 4 * y <= d
    BY <1>1, <2>1
  <2>. QED
    BY <1>3, <2>1, <2>2
<1>5. ASSUME Handled, b >= 0, HasFrame(Func(a)), NeedsGPSlot(Func(a))
      PROVE  b + GPSlot(Func(a)).off \in Addresses
  <2>1. PICK g \in Nat : g = GPSlot(Func(a)).off /\ g % 4 = 0 /\ b + g + 4 + 4 * o <= e
    BY <1>1, <1>5, GPSlotBelow
  <2>2. b + g \in Int /\ b + g >= 0 /\ b + g <= t /\ (b + g) % 4 = 0
    BY <1>1, <1>5, <2>1
  <2>. QED
    BY <1>1, <2>1, <2>2, InStack
<1>. QED
  BY <1>1, <1>2, <1>3, <1>4, <1>5

LEMMA EnterSave ==
  ASSUME NEW a, NEW p, NEW r, NEW m, EnterAt(a, p, r, m), NEW m2,
         NEW k \in 1 .. Len(SavedRegs(Func(a))), p = AfterAllocate(Func(a)) + k,
         Puts(m, m2, Place1(r, SavedSlot(Func(a), k)), r[SavedRegs(Func(a))[k]])
  PROVE  Entered1(a, p, m, r, m2)
<1> DEFINE f == Func(a)
<1>1. /\ f \in Program /\ a \in ActType /\ Made(a) /\ p \in Int /\ p \in Nat /\ EnteringStack(a, p, m)
      /\ (p > AfterAllocate(f) => r.sp = Bottom(a)) /\ (p <= AfterFP(f) => r.fp = a.entry.fp)
      /\ \A x \in {"lr", "s0", "s1"} : r[x] = a.entry[x]
  BY EnterRegs
<1>2. k \in DOMAIN SavedRegs(f) /\ k \in Nat /\ k <= Objects(f) /\ SavedRegs(f)[k] \in SavedSet
  BY <1>1, RegsTyped, ObjectsAt
<1>3. p > AfterAllocate(f) /\ p <= AfterSaves(f)
  <2>1. /\ AfterAllocate(f) \in Nat /\ Len(SavedRegs(f)) \in Nat
        /\ AfterSaves(f) = AfterAllocate(f) + Len(SavedRegs(f))
    BY <1>1, PlacesOf, RegsTyped DEF Places
  <2>. QED
    BY <2>1
<1>4. AfterStart(f, p) /\ p <= AfterFP(f) /\ (p = AfterFP(f) => ~HasFP(f))
  BY <1>1, <1>3, EnterOrder
<1>5. r[SavedRegs(f)[k]] = a.entry[SavedRegs(f)[k]]
  BY <1>1, <1>2, <1>4 DEF SavedSet, KeptRegs
<1>6. Place1(r, SavedSlot(f, k)) = a.entry.sp - 4 * k
  BY <1>1, <1>2, <1>3, ObjectPlace
<1>7. Bottom(a) >= 0
  BY <1>1, <1>3 DEF EnterAt
<1>8. PICK b \in Int : b = a.entry.sp - 4 * k /\ b \in Addresses
  <2>1. a.entry.sp - 4 * k \in Addresses
    BY <1>1, <1>2, <1>7, ObjectInStack
  <2>. QED
    BY <2>1, AddressIs
<1>9. Puts(m, m2, b, a.entry[SavedRegs(f)[k]]) /\ Saves(a, p, k, b)
  BY <1>2, <1>5, <1>6, <1>8 DEF Saves
<1>10. EnteringStack(a, p + 1, m2) /\ Agree(m, m2, End(a))
  BY <1>1, <1>2, <1>9, SaveStep
<1>11. m2 \in Memory
  BY <1>9 DEF Puts
<1>. QED
  BY <1>4, <1>10, <1>11, EnterPuts

LEMMA EnterSaveEh ==
  ASSUME NEW a, NEW p, NEW r, NEW m, EnterAt(a, p, r, m), NEW m2,
         NEW k \in 1 .. Len(EhRegs(Func(a))), p = AfterSaves(Func(a)) + k,
         Puts(m, m2, Place1(r, ObjSlot(Func(a), EhOffset(Func(a), k))), r[EhRegs(Func(a))[k]])
  PROVE  Entered1(a, p, m, r, m2)
<1> DEFINE f == Func(a)
<1>1. /\ f \in Program /\ a \in ActType /\ Made(a) /\ Handled /\ p \in Int /\ p \in Nat
      /\ EnteringStack(a, p, m) /\ (p > AfterAllocate(f) => r.sp = Bottom(a))
      /\ \A x \in {"a0", "a1"} : r[x] = a.entry[x]
  BY EnterRegs
<1>2. k \in DOMAIN EhRegs(f) /\ k \in Nat /\ EhRegs(f)[k] \in {"a0", "a1"} /\ EhOffset(f, k) \in Int
  BY SMTT(60), <1>1, RegsTyped
<1>3. p > AfterSaves(f) /\ p <= AfterEh(f)
  <2>1. /\ AfterSaves(f) \in Nat /\ Len(EhRegs(f)) \in Nat
        /\ AfterEh(f) = AfterSaves(f) + Len(EhRegs(f))
    BY <1>1, PlacesOf, RegsTyped DEF Places
  <2>. QED
    BY <2>1
<1>4. AfterStart(f, p) /\ (p = AfterFP(f) => ~HasFP(f))
  BY <1>1, <1>3, EnterOrder
<1>5. ~HasFP(f)
  <2>1. EhRegs(f) # <<>>
    BY <1>2
  <2>. QED
    BY <1>1, <2>1, HandledFunc DEF EhDataApart
<1>6. r[EhRegs(f)[k]] = a.entry[EhRegs(f)[k]]
  BY <1>1, <1>2
<1>7. r.sp = Bottom(a) /\ Bottom(a) >= 0
  BY <1>1, <1>4 DEF EnterAt, AfterStart
<1>8. Place1(r, ObjSlot(f, EhOffset(f, k))) = a.entry.sp + EhOffset(f, k)
  <2>1. r[FrameReg(f)] = Bottom(a)
    BY <1>5, <1>7 DEF FrameReg
  <2>. QED
    BY <1>1, <1>2, <2>1, ObjectPlace
<1>9. PICK b \in Int : b = a.entry.sp + EhOffset(f, k) /\ b \in Addresses
  <2>1. PICK j \in Nat : j <= Objects(f) /\ EhOffset(f, k) = -4 * j
    <3>1. /\ EhOffset(f, k) = -4 * (Len(SavedRegs(f)) + f.locals + k)
          /\ Len(SavedRegs(f)) + f.locals + k <= Objects(f)
          /\ Len(SavedRegs(f)) \in Nat /\ f.locals \in Nat
      BY <1>1, <1>2, ObjectsAt
    <3>2. Len(SavedRegs(f)) + f.locals + k \in Nat
      BY <1>2, <3>1
    <3>. QED
      BY <3>1, <3>2
  <2>2. a.entry.sp - 4 * j \in Addresses
    BY <1>1, <1>7, <2>1, ObjectInStack
  <2>3. a.entry.sp + EhOffset(f, k) = a.entry.sp - 4 * j
    <3>1. a.entry.sp \in Int
      BY <1>1, ActOf, RegInt
    <3>. QED
      BY <2>1, <3>1
  <2>. QED
    BY <2>2, <2>3, AddressIs
<1>10. Puts(m, m2, b, a.entry[EhRegs(f)[k]]) /\ SavesEh(a, p, k, b)
  BY <1>2, <1>6, <1>8, <1>9 DEF SavesEh
<1>11. EnteringStack(a, p + 1, m2) /\ Agree(m, m2, End(a))
  BY <1>1, <1>2, <1>10, EhStep
<1>12. m2 \in Memory
  BY <1>10 DEF Puts
<1>. QED
  BY <1>4, <1>11, <1>12, EnterPuts

LEMMA EnterSaveGP ==
  ASSUME NEW a, NEW p, NEW r, NEW m, EnterAt(a, p, r, m), NEW m2,
         HasFrame(Func(a)), NeedsGPSlot(Func(a)), p = AfterFP(Func(a)) + 1,
         Puts(m, m2, Place1(r, Slot("sp", GPSlot(Func(a)).off)), r.gp)
  PROVE  Entered1(a, p, m, r, m2)
<1> DEFINE f == Func(a)
<1>1. /\ f \in Program /\ a \in ActType /\ Made(a) /\ Handled /\ p \in Int /\ p \in Nat
      /\ EnteringStack(a, p, m) /\ (p > AfterAllocate(f) => r.sp = Bottom(a))
      /\ (p > AfterCpload(f) => OwnGP(a, r))
  BY EnterRegs
<1>2. p > AfterFP(f)
  <2>1. AfterFP(f) \in Nat
    BY <1>1, PlacesOf DEF Places
  <2>. QED
    BY <2>1
<1>3. AfterStart(f, p) /\ p # AfterFP(f)
  BY <1>1, <1>2, EnterOrder
<1>4. r.gp = GPVal(a.id)
  BY <1>1, <1>3 DEF AfterStart, OwnGP, NeedsGPSlot
<1>5. r.sp = Bottom(a) /\ Bottom(a) >= 0
  BY <1>1, <1>3 DEF EnterAt, AfterStart
<1>6. GPSlot(f).off \in Int
  BY <1>1, GPSlotBelow
<1>7. Place1(r, Slot("sp", GPSlot(f).off)) = Bottom(a) + GPSlot(f).off
  BY <1>1, <1>5, <1>6, ObjectPlace
<1>8. PICK b \in Int : b = Bottom(a) + GPSlot(f).off /\ b \in Addresses
  <2>1. Bottom(a) + GPSlot(f).off \in Addresses
    BY <1>1, <1>5, ObjectInStack
  <2>. QED
    BY <2>1, AddressIs
<1>9. Puts(m, m2, b, GPVal(a.id)) /\ SavesGP(a, p, b)
  BY <1>4, <1>7, <1>8 DEF SavesGP
<1>10. EnteringStack(a, p + 1, m2) /\ Agree(m, m2, End(a))
  BY <1>1, <1>9, GPStep
<1>11. m2 \in Memory
  BY <1>9 DEF Puts
<1>. QED
  BY <1>3, <1>10, <1>11, EnterPuts

LEMMA EnterHome ==
  ASSUME NEW a, NEW p, NEW r, NEW m, EnterAt(a, p, r, m), NEW m2,
         NEW k \in 1 .. Len(Homed(Func(a))), p = AfterGP(Func(a)) + k,
         Puts(m, m2, Place1(r, ObjSlot(Func(a), Homed(Func(a))[k].off)),
              r[ArgReg(Homed(Func(a))[k].reg)])
  PROVE  Entered1(a, p, m, r, m2)
<1> DEFINE f == Func(a)
<1>1. /\ f \in Program /\ a \in ActType /\ Made(a) /\ Handled /\ p \in Int /\ p \in Nat
      /\ EnteringStack(a, p, m) /\ (p > AfterAllocate(f) => r.sp = Bottom(a))
      /\ (HasFP(f) /\ p > AfterFP(f) => r.fp = Bottom(a))
      /\ \A x \in {"a0", "a1"} : r[x] = a.entry[x]
  BY EnterRegs
<1>2. k \in DOMAIN Homed(f) /\ k \in Nat
  BY <1>1, HomeArgsAre
<1>3. p > AfterGP(f)
  <2>1. AfterGP(f) \in Nat
    BY <1>1, PlacesOf DEF Places
  <2>. QED
    BY <1>2, <2>1
<1>4. AfterStart(f, p) /\ p > AfterFP(f) /\ p # AfterFP(f)
  BY <1>1, <1>3, EnterOrder
<1>5. PICK y \in {0, 1} : Homed(f)[k].off = 4 * y /\ Homed(f)[k].reg = y
  BY <1>1, <1>2, HomesAt
<1>6. r[ArgReg(Homed(f)[k].reg)] = a.entry[ArgReg(Homed(f)[k].reg)]
  BY <1>1, <1>5 DEF ArgReg
<1>7. r[FrameReg(f)] = Bottom(a)
  BY <1>1, <1>4 DEF AfterStart, FrameReg
<1>8. Place1(r, ObjSlot(f, Homed(f)[k].off)) = a.entry.sp + Homed(f)[k].off
  <2>1. Homed(f)[k].off \in Int
    BY <1>5
  <2>. QED
    BY ZenonT(60), <1>1, <1>7, <2>1, ObjectPlace
<1>9. PICK b \in Int : b = a.entry.sp + Homed(f)[k].off /\ b \in Addresses
  <2>1. a.entry.sp + Homed(f)[k].off \in Addresses
    BY <1>1, <1>2, ObjectInStack
  <2>. QED
    BY <2>1, AddressIs
<1>10. Puts(m, m2, b, a.entry[ArgReg(Homed(f)[k].reg)]) /\ SavesHome(a, p, k, b)
  BY <1>2, <1>6, <1>8, <1>9 DEF SavesHome
<1>11. EnteringStack(a, p + 1, m2) /\ Agree(m, m2, End(a))
  BY <1>1, <1>2, <1>10, HomeStep
<1>12. m2 \in Memory
  BY <1>10 DEF Puts
<1>. QED
  BY <1>4, <1>11, <1>12, EnterPuts

\* Each instruction of the prologue.
LEMMA EnteringStep ==
  ASSUME NEW a, NEW p, NEW r, NEW m, EnterAt(a, p, r, m), NEW i, NEW r2, NEW m2,
         EnterInstr(Func(a), a.id, p, i), Effect(i, r, m, r2, m2)
  PROVE  Entered1(a, p, m, r2, m2)
<1> DEFINE f == Func(a)
<1>1. CASE f.pic /\ p = 1 /\ i = Li("gp", GPVal(a.id))
  <2>1. m2 = m /\ Sets(r, r2, "gp", GPVal(a.id))
    BY <1>1, EffectIs
  <2>. QED
    BY <1>1, <2>1, EnterGP
<1>2. CASE HasFrame(f) /\ p = AfterCpload(f) + 1 /\ i = AddSP(-StackSize(f))
  <2>1. m2 = m /\ Sets(r, r2, "sp", r.sp + (-StackSize(f)))
    BY <1>2, EffectIs
  <2>. QED
    BY <1>2, <2>1, EnterAllocate
<1>3. ASSUME NEW k \in 1 .. Len(SavedRegs(f)),
             p = AfterAllocate(f) + k, i = St(SavedRegs(f)[k], SavedSlot(f, k))
      PROVE  Entered1(a, p, m, r2, m2)
  <2>1. r2 = r /\ Puts(m, m2, Place1(r, SavedSlot(f, k)), r[SavedRegs(f)[k]])
    BY <1>3, EffectIs
  <2>. QED
    BY <1>3, <2>1, EnterSave
<1>4. ASSUME NEW k \in 1 .. Len(EhRegs(f)),
             p = AfterSaves(f) + k, i = St(EhRegs(f)[k], ObjSlot(f, EhOffset(f, k)))
      PROVE  Entered1(a, p, m, r2, m2)
  <2>1. r2 = r /\ Puts(m, m2, Place1(r, ObjSlot(f, EhOffset(f, k))), r[EhRegs(f)[k]])
    BY <1>4, EffectIs
  <2>. QED
    BY <1>4, <2>1, EnterSaveEh
<1>5. CASE HasFP(f) /\ p = AfterEh(f) + 1 /\ i = Copy("fp", "sp")
  <2>1. m2 = m /\ Sets(r, r2, "fp", r.sp)
    BY <1>5, EffectIs
  <2>. QED
    BY <1>5, <2>1, EnterFP
<1>6. CASE /\ HasFrame(f) /\ NeedsGPSlot(f)
           /\ p = AfterFP(f) + 1 /\ i = St("gp", Slot("sp", GPSlot(f).off))
  <2>1. r2 = r /\ Puts(m, m2, Place1(r, Slot("sp", GPSlot(f).off)), r.gp)
    BY <1>6, EffectIs
  <2>. QED
    BY <1>6, <2>1, EnterSaveGP
<1>7. ASSUME NEW k \in 1 .. Len(Homed(f)),
             p = AfterGP(f) + k, i = St(ArgReg(Homed(f)[k].reg), ObjSlot(f, Homed(f)[k].off))
      PROVE  Entered1(a, p, m, r2, m2)
  <2>1. r2 = r /\ Puts(m, m2, Place1(r, ObjSlot(f, Homed(f)[k].off)), r[ArgReg(Homed(f)[k].reg)])
    BY <1>7, EffectIs
  <2>. QED
    BY <1>7, <2>1, EnterHome
<1>. QED
  BY <1>1, <1>2, <1>3, <1>4, <1>5, <1>6, <1>7 DEF EnterInstr

\* Behind the prologue.
LEMMA EnteringDone ==
  ASSUME NEW a \in ActType, Made(a), NEW r, NEW m, NEW p \in Nat, Entering(a, p, r, m),
         p > AfterGP(Func(a)) + Len(Homed(Func(a)))
  PROVE  InItsBody(a, r, m)
<1> DEFINE f == Func(a)
<1>1. PICK c \in Nat, x \in Nat, s \in Nat, g \in Nat, n \in Nat, t \in Nat, h \in Nat :
        /\ c = AfterCpload(f) /\ x = AfterAllocate(f) /\ s = AfterSaves(f) /\ g = AfterGP(f)
        /\ n = Len(SavedRegs(f)) /\ t = Len(EhRegs(f)) /\ h = Len(Homed(f))
        /\ c <= x /\ x + n = s /\ s + t <= g /\ AfterFP(f) <= g /\ AfterFP(f) \in Nat
  <2>1. Places(f) /\ Len(SavedRegs(f)) \in Nat /\ Len(EhRegs(f)) \in Nat /\ Len(Homed(f)) \in Nat
    BY ActOf, PlacesOf, RegsTyped, HomeArgsAre
  <2>2. /\ AfterCpload(f) \in Nat /\ AfterAllocate(f) \in Nat /\ AfterSaves(f) \in Nat
        /\ AfterEh(f) \in Nat /\ AfterFP(f) \in Nat /\ AfterGP(f) \in Nat
        /\ AfterSaves(f) = AfterAllocate(f) + Len(SavedRegs(f))
        /\ AfterEh(f) = AfterSaves(f) + Len(EhRegs(f))
    BY <2>1 DEF Places
  <2>3. AfterCpload(f) <= AfterAllocate(f) /\ AfterEh(f) <= AfterFP(f) /\ AfterFP(f) <= AfterGP(f)
    BY <2>1 DEF Places
  <2>4. AfterSaves(f) + Len(EhRegs(f)) <= AfterGP(f)
    BY <2>1, <2>2, <2>3
  <2>. QED
    BY <2>1, <2>2, <2>3, <2>4
<1>2. /\ p > x /\ p > g /\ p > AfterFP(f) /\ p > c
      /\ p - 1 - x \in Int /\ p - 1 - x >= n /\ p - 1 - s \in Int /\ p - 1 - s >= t
      /\ p - 1 - g \in Int /\ p - 1 - g >= h
  <2>1. p > g + h
    BY <1>1
  <2>2. c <= x /\ x + n = s /\ s + t <= g /\ AfterFP(f) <= g /\ AfterFP(f) \in Nat
    BY <1>1
  <2>. QED
    BY <2>1, <2>2
<1>3. EnteringRegs(a, p, r) /\ EnteringStack(a, p, m) /\ Unused(a)
  BY DEF Entering
<1>4. /\ r.sp = Bottom(a) /\ (HasFP(f) => r.fp = Bottom(a)) /\ (~HasFP(f) => r.fp = a.entry.fp)
      /\ \A y \in {"lr", "s0", "s1", "a0", "a1"} : r[y] = a.entry[y]
      /\ OwnGP(a, r)
  BY SMTT(60), <1>1, <1>2, <1>3 DEF EnteringRegs
<1>5. r.sp = BodySP(a)
  BY <1>3, <1>4 DEF BodySP, Unused
<1>6. Unsaved(a, r, SavedSet)
  <2>1. HasFP(f) => "fp" \in ToSet(SavedRegs(f))
    BY ActOf, SavedOf DEF SavedFacts
  <2>. QED
    BY <1>4, <2>1 DEF Unsaved, SavedSet, KeptRegs
<1>7. SavedHeld(a, m, n) /\ EhHeld(a, m, t) /\ HomesHeld(a, m, h) /\ GPHeld(a, m) /\ ArgsHeld(a, m)
  <2>1. /\ SavedHeld(a, m, p - 1 - x) /\ EhHeld(a, m, p - 1 - s) /\ HomesHeld(a, m, p - 1 - g)
        /\ GPHeld(a, m) /\ ArgsHeld(a, m)
    BY <1>1, <1>2, <1>3 DEF EnteringStack
  <2>2. SavedHeld(a, m, n)
    BY <1>1, <1>2, <2>1, HeldRange
  <2>3. EhHeld(a, m, t)
    BY <1>1, <1>2, <2>1, HeldRange
  <2>4. HomesHeld(a, m, h)
    BY <1>1, <1>2, <2>1, HeldRange
  <2>. QED
    BY <2>1, <2>2, <2>3, <2>4
<1>8. LocalsHeld(a, m) /\ SpaceHeld(a, m)
  BY <1>3 DEF Unused, LocalsHeld, SpaceHeld
<1>9. FrameHeld(a, m)
  BY <1>1, <1>7, <1>8 DEF FrameHeld
<1>10. OwnFP(a, r)
  BY <1>4 DEF OwnFP
<1>. QED
  BY <1>4, <1>5, <1>6, <1>9, <1>10 DEF InItsBody

\* Before the prologue.
LEMMA EnteringStarts ==
  ASSUME NEW a \in ActType, Made(a), NEW m, ArgsHeld(a, m), Unused(a)
  PROVE  Entering(a, 1, a.entry, m)
<1> DEFINE f == Func(a)
<1>1. PICK c \in Nat, x \in Nat, s \in Nat, u \in Nat, g \in Nat :
        /\ c = AfterCpload(f) /\ x = AfterAllocate(f) /\ s = AfterSaves(f) /\ g = AfterGP(f)
        /\ u = AfterFP(f)
        /\ f.pic => c >= 1
        /\ HasFrame(f) => x >= 1
        /\ HasFP(f) => u >= 1
        /\ HasFrame(f) /\ NeedsGPSlot(f) => g >= 1
  <2>1. Places(f) /\ Len(SavedRegs(f)) \in Nat /\ Len(EhRegs(f)) \in Nat
    BY ActOf, PlacesOf, RegsTyped
  <2>2. /\ AfterCpload(f) \in Nat /\ AfterAllocate(f) \in Nat /\ AfterSaves(f) \in Nat
        /\ AfterEh(f) \in Nat /\ AfterFP(f) \in Nat /\ AfterGP(f) \in Nat
    BY <2>1 DEF Places
  <2>3. /\ f.pic => AfterCpload(f) >= 1
        /\ HasFrame(f) => AfterAllocate(f) >= 1
        /\ HasFP(f) => AfterFP(f) >= 1
        /\ HasFrame(f) /\ NeedsGPSlot(f) => AfterGP(f) >= 1
    BY <2>1, <2>2 DEF Places
  <2>. QED
    BY <2>2, <2>3
<1>2. a.entry.sp = IF 1 <= x THEN a.entry.sp ELSE Bottom(a)
  <2>1. SUFFICES ASSUME ~HasFrame(f) PROVE a.entry.sp = Bottom(a)
    BY <1>1
  <2>2. StackSize(f) = 0 /\ a.entry.sp \in Int
    BY <2>1, ActOf, FrameNeeded, RegInt
  <2>. QED
    BY <2>2 DEF Bottom
<1>3. a.entry.fp = IF HasFP(f) /\ 1 > u THEN Bottom(a) ELSE a.entry.fp
  BY <1>1
<1>4. 1 > c => OwnGP(a, a.entry)
  BY <1>1 DEF OwnGP
<1>5. EnteringRegs(a, 1, a.entry)
  BY <1>1, <1>2, <1>3, <1>4 DEF EnteringRegs
<1>6. /\ SavedHeld(a, m, 1 - 1 - x) /\ EhHeld(a, m, 1 - 1 - s) /\ HomesHeld(a, m, 1 - 1 - g)
      /\ 1 > g => GPHeld(a, m)
  <2>1. /\ 1 - 1 - x \in Int /\ 1 - 1 - x <= 0 /\ 1 - 1 - s \in Int /\ 1 - 1 - s <= 0
        /\ 1 - 1 - g \in Int /\ 1 - 1 - g <= 0
    OBVIOUS
  <2>2. 1 > g => GPHeld(a, m)
    BY <1>1 DEF GPHeld
  <2>. QED
    BY <2>1, <2>2, HeldRange
<1>7. EnteringStack(a, 1, m)
  BY <1>1, <1>6 DEF EnteringStack
<1>. QED
  BY <1>5, <1>7 DEF Entering

-----------------------------------------------------------------------------
(***************************************************************************)
(* The words of a call.                                                    *)
(***************************************************************************)
TurnPlaced(a, r, m, base, j) ==
  LET f == Func(a)
      k == CallSite(a)
  IN  WordPlaced(SentWords(f, k)[Turn(f, k, j)], ArgVal(a.id, k, Turn(f, k, j)), r, m, base)

LEMMA WordsPlacedIs ==
  ASSUME NEW a \in ActType, CallSite(a) \in DOMAIN Func(a).calls, NEW r, NEW m, NEW base
  PROVE  /\ \A n : WordsPlaced(a, r, m, base, n)
                     <=> \A j \in 1 .. Turns(Func(a), CallSite(a)) : j <= n => TurnPlaced(a, r, m, base, j)
         /\ \A n \in Int : n <= 0 => WordsPlaced(a, r, m, base, n)
         /\ \A n, n2 \in Int : n >= Turns(Func(a), CallSite(a)) /\ WordsPlaced(a, r, m, base, n)
              => WordsPlaced(a, r, m, base, n2)
<1>1. /\ DOMAIN Order(SentWords(Func(a), CallSite(a))) = 1 .. Turns(Func(a), CallSite(a))
      /\ Turns(Func(a), CallSite(a)) \in Nat
  BY ActOf, TurnOf
<1>2. \A n : WordsPlaced(a, r, m, base, n)
               <=> \A j \in 1 .. Turns(Func(a), CallSite(a)) : j <= n => TurnPlaced(a, r, m, base, j)
  BY <1>1 DEF WordsPlaced, TurnPlaced, Turn
<1>3. \A n \in Int : n <= 0 => WordsPlaced(a, r, m, base, n)
  BY <1>1, <1>2
<1>4. ASSUME NEW n \in Int, NEW n2 \in Int, n >= Turns(Func(a), CallSite(a)),
             WordsPlaced(a, r, m, base, n)
      PROVE  WordsPlaced(a, r, m, base, n2)
  <2>1. \A j \in 1 .. Turns(Func(a), CallSite(a)) : j <= n
    BY <1>1, <1>4
  <2>. QED
    BY <1>2, <1>4, <2>1
<1>. QED
  BY <1>2, <1>3, <1>4

\* The area that the words of a call go to.
PassesAt(a, r, base, area) ==
  /\ CallSite(a) \in DOMAIN Func(a).calls /\ r \in RegFile /\ area \in SlotType
  /\ r[area.base] + area.off = base
  /\ base >= 0 /\ base % 4 = 0 /\ base + NextStackOffset(Func(a), CallSite(a)) <= MemTop

Passed1(a, r, m, base, j, r2, m2) ==
  /\ WordsPlaced(a, r2, m2, base, j) /\ r2 \in RegFile /\ m2 \in Memory
  /\ \A x \in RegNames : x \notin {"a0", "a1"} => r2[x] = r[x]
  /\ \A c \in Addresses :
       c < base \/ c >= base + NextStackOffset(Func(a), CallSite(a)) => m2[c] = m[c]

\* Each word has a register or a place in the area.
LEMMA TurnWord ==
  ASSUME NEW f \in Program, NEW k \in DOMAIN f.calls, NEW j \in 1 .. Turns(f, k)
  PROVE  \/ SentWords(f, k)[Turn(f, k, j)].reg \in {0, 1}
         \/ /\ SentWords(f, k)[Turn(f, k, j)].reg = -1
            /\ SentWords(f, k)[Turn(f, k, j)].off \in Nat
            /\ SentWords(f, k)[Turn(f, k, j)].off % 4 = 0
            /\ SentWords(f, k)[Turn(f, k, j)].off + 4 <= NextStackOffset(f, k)
<1>1. Turn(f, k, j) \in DOMAIN SentWords(f, k)
  BY TurnOf
<1>2. \A i \in DOMAIN SentWords(f, k) :
        \/ SentWords(f, k)[i].reg \in {0, 1}
        \/ /\ SentWords(f, k)[i].reg = -1
           /\ SentWords(f, k)[i].off \in Nat /\ SentWords(f, k)[i].off % 4 = 0
           /\ SentWords(f, k)[i].off + 4 <= NextStackOffset(f, k)
  BY CallOrdered
<1>. QED
  BY <1>1, <1>2, Zenon

LEMMA PassOnStack ==
  ASSUME NEW a \in ActType, CallSite(a) \in DOMAIN Func(a).calls, NEW r, NEW m, NEW m2,
         NEW base \in Int, base >= 0, base % 4 = 0,
         base + NextStackOffset(Func(a), CallSite(a)) <= MemTop,
         NEW j \in Nat, j \in 1 .. Turns(Func(a), CallSite(a)),
         WordsPlaced(a, r, m, base, j - 1), r \in RegFile,
         SentWords(Func(a), CallSite(a))[Turn(Func(a), CallSite(a), j)].reg = -1,
         Puts(m, m2, base + SentWords(Func(a), CallSite(a))[Turn(Func(a), CallSite(a), j)].off,
              ArgVal(a.id, CallSite(a), Turn(Func(a), CallSite(a), j)))
  PROVE  Passed1(a, r, m, base, j, r, m2)
<1> DEFINE f == Func(a)
           k == CallSite(a)
           W(i) == SentWords(f, k)[Turn(f, k, i)]
<1>1. /\ f \in Program /\ SoundCall(f, k) /\ MemTop \in Nat
      /\ \A i \in 1 .. Turns(f, k) : Turn(f, k, i) \in DOMAIN SentWords(f, k)
  BY ActOf, SoundCalls, TurnOf, BoundsAssumption
<1>2. \A i \in 1 .. Turns(f, k) : W(i).reg = -1 =>
        W(i).off \in Nat /\ W(i).off % 4 = 0 /\ W(i).off + 4 <= NextStackOffset(f, k)
  <2>1. TAKE i \in 1 .. Turns(f, k)
  <2>2. HAVE W(i).reg = -1
  <2>3. W(i).reg \notin {0, 1}
    BY <2>2
  <2>. QED
    BY <1>1, <2>3, TurnWord
<1>3. PICK o \in Nat, z \in Nat, b \in Int :
        /\ o = W(j).off /\ z = NextStackOffset(f, k) /\ b = base + o /\ o % 4 = 0 /\ o + 4 <= z
        /\ base + z <= MemTop
  BY <1>1, <1>2 DEF SoundCall
<1>4. b \in Addresses
  <2>1. b >= 0 /\ b <= MemTop
    BY <1>1, <1>3
  <2>2. b % 4 = 0
    BY <1>3
  <2>. QED
    BY <2>1, <2>2, InStack
<1>5. Puts(m, m2, b, ArgVal(a.id, k, Turn(f, k, j)))
  BY <1>3
<1>6. ASSUME NEW i \in 1 .. Turns(f, k), i <= j PROVE TurnPlaced(a, r, m2, base, i)
  <2>1. CASE i = j
    <3>1. Holds(m2, base + W(j).off, ArgVal(a.id, k, Turn(f, k, j)))
      BY <1>3, <1>4, <1>5, PutsAgree
    <3>. QED
      BY <2>1, <3>1 DEF TurnPlaced, WordPlaced
  <2>2. CASE i # j
    <3>1. i <= j - 1
      BY <1>6, <2>2
    <3>2. TurnPlaced(a, r, m, base, i)
      BY <3>1, WordsPlacedIs
    <3>3. CASE W(i).reg # -1
      BY <3>2, <3>3 DEF TurnPlaced, WordPlaced
    <3>4. CASE W(i).reg = -1
      <4>1. Holds(m, base + W(i).off, ArgVal(a.id, k, Turn(f, k, i)))
        BY <3>2, <3>4 DEF TurnPlaced, WordPlaced
      <4>2. W(i).off = W(j).off => Turn(f, k, i) = Turn(f, k, j)
        BY <1>1, <3>4 DEF SoundCall, CallWords, Apart
      <4>3. W(i).off \in Nat
        BY <1>2, <3>4
      <4>4. base + W(i).off # b \/ Turn(f, k, i) = Turn(f, k, j)
        BY <1>3, <4>2, <4>3
      <4>5. Holds(m2, base + W(i).off, ArgVal(a.id, k, Turn(f, k, i)))
        BY <1>5, <4>1, <4>4, PutsAgree
      <4>. QED
        BY <3>4, <4>5 DEF TurnPlaced, WordPlaced
    <3>. QED
      BY <3>3, <3>4
  <2>. QED
    BY <2>1, <2>2
<1>7. WordsPlaced(a, r, m2, base, j)
  BY <1>6, WordsPlacedIs
<1>8. m2 \in Memory /\ \A c \in Addresses : c # b => m2[c] = m[c]
  BY <1>5 DEF Puts
<1>9. ASSUME NEW c \in Addresses, c < base \/ c >= base + z PROVE m2[c] = m[c]
  <2>1. c \in Int
    BY AddressIs
  <2>2. c # b
    BY <1>3, <1>9, <2>1
  <2>. QED
    BY <1>8, <2>2
<1>. QED
  BY <1>3, <1>7, <1>8, <1>9 DEF Passed1

LEMMA PassInReg ==
  ASSUME NEW a \in ActType, CallSite(a) \in DOMAIN Func(a).calls, NEW r, NEW m \in Memory, NEW r2,
         NEW base, NEW j \in Nat, j \in 1 .. Turns(Func(a), CallSite(a)),
         WordsPlaced(a, r, m, base, j - 1),
         SentWords(Func(a), CallSite(a))[Turn(Func(a), CallSite(a), j)].reg \in {0, 1},
         Sets(r, r2, ArgReg(SentWords(Func(a), CallSite(a))[Turn(Func(a), CallSite(a), j)].reg),
              ArgVal(a.id, CallSite(a), Turn(Func(a), CallSite(a), j)))
  PROVE  Passed1(a, r, m, base, j, r2, m)
<1> DEFINE f == Func(a)
           k == CallSite(a)
           W(i) == SentWords(f, k)[Turn(f, k, i)]
<1>1. /\ f \in Program /\ SoundCall(f, k)
      /\ \A i \in 1 .. Turns(f, k) : Turn(f, k, i) \in DOMAIN SentWords(f, k)
  BY ActOf, SoundCalls, TurnOf
<1>2. \A i \in 1 .. Turns(f, k) : W(i).reg \in {0, 1} \/ W(i).reg = -1
  BY <1>1, CallOrdered
<1>3. /\ r2 \in RegFile /\ r2[ArgReg(W(j).reg)] = ArgVal(a.id, k, Turn(f, k, j))
      /\ \A y \in RegNames : y # ArgReg(W(j).reg) => r2[y] = r[y]
  BY SetsOthers
<1>4. ASSUME NEW i \in 1 .. Turns(f, k), i <= j PROVE TurnPlaced(a, r2, m, base, i)
  <2>1. CASE i = j
    BY <1>3, <2>1 DEF TurnPlaced, WordPlaced
  <2>2. CASE i # j
    <3>1. i <= j - 1
      BY <1>4, <2>2
    <3>2. TurnPlaced(a, r, m, base, i)
      BY <3>1, WordsPlacedIs
    <3>3. CASE W(i).reg = -1
      BY <3>2, <3>3 DEF TurnPlaced, WordPlaced
    <3>4. CASE W(i).reg \in {0, 1}
      <4>1. r[ArgReg(W(i).reg)] = ArgVal(a.id, k, Turn(f, k, i))
        BY <3>2, <3>4 DEF TurnPlaced, WordPlaced
      <4>2. W(i).reg = W(j).reg => Turn(f, k, i) = Turn(f, k, j)
        BY <1>1, <3>4 DEF SoundCall, CallWords, Apart
      <4>3. W(i).reg # W(j).reg => ArgReg(W(i).reg) # ArgReg(W(j).reg)
        BY <3>4 DEF ArgReg
      <4>4. ArgReg(W(i).reg) \in RegNames
        BY DEF ArgReg, RegNames
      <4>5. r2[ArgReg(W(i).reg)] = ArgVal(a.id, k, Turn(f, k, i))
        BY <1>3, <4>1, <4>2, <4>3, <4>4
      <4>. QED
        BY <3>4, <4>5 DEF TurnPlaced, WordPlaced
    <3>. QED
      BY <1>2, <3>3, <3>4
  <2>. QED
    BY <2>1, <2>2
<1>5. WordsPlaced(a, r2, m, base, j)
  BY <1>4, WordsPlacedIs
<1>6. \A x \in RegNames : x \notin {"a0", "a1"} => r2[x] = r[x]
  BY <1>3 DEF ArgReg
<1>. QED
  BY <1>3, <1>5, <1>6 DEF Passed1

LEMMA PassStep ==
  ASSUME NEW a \in ActType, NEW r, NEW m \in Memory, NEW base \in Int, NEW area,
         PassesAt(a, r, base, area), NEW j \in Nat, j \in 1 .. Turns(Func(a), CallSite(a)),
         WordsPlaced(a, r, m, base, j - 1), NEW i, NEW r2, NEW m2,
         PassInstr(Func(a), a.id, CallSite(a), area, j, i), Effect(i, r, m, r2, m2)
  PROVE  Passed1(a, r, m, base, j, r2, m2)
<1> DEFINE f == Func(a)
           k == CallSite(a)
           w == SentWords(f, k)[Turn(f, k, j)]
           v == ArgVal(a.id, k, Turn(f, k, j))
<1>1. k \in DOMAIN f.calls /\ f \in Program
  BY ActOf DEF PassesAt
<1>2. Turn(f, k, j) \in DOMAIN SentWords(f, k)
  BY <1>1, TurnOf
<1>3. i = PassWord(w, v, area)
  BY DEF PassInstr
<1>4. CASE w.reg = -1
  <2>1. i = StV(v, Slot(area.base, area.off + w.off))
    BY <1>3, <1>4 DEF PassWord
  <2>2. r2 = r /\ Puts(m, m2, Place1(r, Slot(area.base, area.off + w.off)), v)
    BY <2>1, EffectIs
  <2>3. Place1(r, Slot(area.base, area.off + w.off)) = base + w.off
    <3>1. w.off \in Nat
      BY <1>1, <1>2, <1>4, CallOrdered
    <3>2. r[area.base] \in Int /\ area.off \in Int /\ r[area.base] + area.off = base
      BY DEF PassesAt, SlotType, RegFile, RegNames
    <3>3. Place1(r, Slot(area.base, area.off + w.off)) = r[area.base] + (area.off + w.off)
      BY DEF Place1, Slot
    <3>. QED
      BY <3>1, <3>2, <3>3
  <2>4. /\ r \in RegFile /\ base >= 0 /\ base % 4 = 0 /\ base + NextStackOffset(f, k) <= MemTop
    BY DEF PassesAt
  <2>. QED
    BY <1>1, <1>4, <2>2, <2>3, <2>4, PassOnStack
<1>5. CASE w.reg \in {0, 1}
  <2>1. i = Li(ArgReg(w.reg), v)
    BY <1>3, <1>5 DEF PassWord
  <2>2. m2 = m /\ Sets(r, r2, ArgReg(w.reg), v)
    BY <2>1, EffectIs
  <2>. QED
    BY <1>1, <1>5, <2>2, PassInReg
<1>. QED
  BY <1>1, <1>2, <1>4, <1>5, CallOrdered

-----------------------------------------------------------------------------
(***************************************************************************)
(* A call.                                                                 *)
(***************************************************************************)
CallingAt(a, p, r, m) ==
  a \in ActType /\ Made(a) /\ Handled /\ r \in RegFile /\ m \in Memory /\ p \in Nat
    /\ a.phase = "call" /\ p <= Len(a.code) /\ Calling(a, p, r, m) /\ r.sp >= 0
Called1(a, p, m, r2, m2) ==
  Calling(a, p + 1, r2, m2) /\ Agree(m, m2, Guard(a)) /\ r2 \in RegFile /\ m2 \in Memory

\* Where a call is.
CallPlaced(a, x, q, t, n) ==
  /\ x = AfterAdjust(Func(a)) /\ q = CallAt(Func(a), CallSite(a)) /\ t = Len(a.code)
  /\ n = Turns(Func(a), CallSite(a)) /\ q = x + n + 1
  /\ HasReservedCallFrame(Func(a)) => x = 0
  /\ ~HasReservedCallFrame(Func(a)) => x = 1
  /\ Func(a).pic => t = q + 1 + x
  /\ ~Func(a).pic => t = q + x

LEMMA CallPlacedOf ==
  ASSUME NEW a \in ActType, Made(a), a.phase = "call"
  PROVE  /\ CallSite(a) \in RealCalls(Func(a)) /\ CallSite(a) \in DOMAIN Func(a).calls
         /\ Func(a) \in Program
         /\ a.code = CallCode(Func(a), a.id, CallSite(a)) /\ a.next # 1
         /\ \E x \in Nat, q \in Nat, t \in Nat, n \in Nat : CallPlaced(a, x, q, t, n)
<1> DEFINE f == Func(a)
           k == CallSite(a)
<1>1. k \in RealCalls(f) /\ a.code = CallCode(f, a.id, k)
  BY DEF Made, Coded
<1>2. k \in DOMAIN f.calls /\ f \in Program /\ a.id \in Nat
  BY <1>1, ActOf DEF RealCalls
<1>3. /\ AfterAdjust(f) \in Nat /\ AfterAdjust(f) = IF HasReservedCallFrame(f) THEN 0 ELSE 1
      /\ Turns(f, k) \in Nat /\ CallAt(f, k) \in Nat
      /\ CallAt(f, k) = AfterAdjust(f) + Turns(f, k) + 1
  BY <1>2, CallPlacesOf DEF CallPlaces
<1>4. Len(a.code) \in Nat /\ Len(a.code) = CallAt(f, k) + One(f.pic) + AfterAdjust(f)
  BY <1>1, <1>2, CallIs, ActOf
<1>5. (f.pic => One(f.pic) = 1) /\ (~f.pic => One(f.pic) = 0)
  BY DEF One
<1>6. /\ f.pic => Len(a.code) = CallAt(f, k) + 1 + AfterAdjust(f)
      /\ ~f.pic => Len(a.code) = CallAt(f, k) + AfterAdjust(f)
  BY <1>3, <1>4, <1>5
<1>7. CallPlaced(a, AfterAdjust(f), CallAt(f, k), Len(a.code), Turns(f, k))
  BY <1>3, <1>6 DEF CallPlaced
<1>8. a.next # 1
  <2>1. f.calls \in Seq(CallType)
    BY <1>2, InProgram DEF FuncType
  <2>2. k \in Nat /\ k >= 1
    BY <1>2, <2>1
  <2>. QED
    BY <2>2, ActOf DEF CallSite
<1>. QED
  BY <1>1, <1>2, <1>3, <1>4, <1>7, <1>8

LEMMA CallRegs ==
  ASSUME NEW a, NEW p, NEW r, NEW m, CallingAt(a, p, r, m),
         NEW x \in Nat, NEW q \in Nat, NEW t \in Nat, NEW n \in Nat, CallPlaced(a, x, q, t, n)
  PROVE  /\ a \in ActType /\ Made(a) /\ Handled /\ Func(a) \in Program /\ p \in Nat
         /\ CallSite(a) \in RealCalls(Func(a)) /\ CallSite(a) \in DOMAIN Func(a).calls
         /\ CallShape(a) /\ p <= t /\ r \in RegFile /\ m \in Memory
         /\ OwnFP(a, r) /\ Unsaved(a, r, SavedSet) /\ FrameHeld(a, m)
         /\ p <= x => r.sp = BodySP(a)
         /\ p > x => r.sp = CallSP(a)
         /\ p <= q => WordsPlaced(a, r, m, CallSP(a), p - 1 - x)
         /\ p # q + 1 => OwnGP(a, r)
<1>1. /\ a \in ActType /\ Made(a) /\ Handled /\ p \in Nat /\ r \in RegFile /\ m \in Memory
      /\ a.phase = "call" /\ p <= Len(a.code) /\ Calling(a, p, r, m)
  BY DEF CallingAt
<1>2. Func(a) \in Program /\ CallSite(a) \in RealCalls(Func(a)) /\ CallSite(a) \in DOMAIN Func(a).calls
  BY <1>1, CallPlacedOf
<1>3. CallShape(a)
  BY <1>1, <1>2, CallShapeOf
<1>4. x = AfterAdjust(Func(a)) /\ q = CallAt(Func(a), CallSite(a)) /\ t = Len(a.code)
  BY DEF CallPlaced
<1>5. /\ r.sp = IF p <= x \/ p > t THEN BodySP(a) ELSE CallSP(a)
      /\ OwnFP(a, r) /\ Unsaved(a, r, SavedSet) /\ FrameHeld(a, m)
      /\ p <= q => WordsPlaced(a, r, m, CallSP(a), p - 1 - x)
      /\ p # q + 1 => OwnGP(a, r)
  BY <1>1, <1>4 DEF Calling
<1>6. ~(p > t)
  BY <1>1, <1>4
<1>7. (p <= x => r.sp = BodySP(a)) /\ (p > x => r.sp = CallSP(a))
  BY <1>1, <1>5, <1>6
<1>. QED
  BY <1>1, <1>2, <1>3, <1>4, <1>5, <1>7

\* What Calling says of the next instruction.
LEMMA CallingNext ==
  ASSUME NEW a \in ActType, NEW p \in Nat, NEW r2, NEW m2,
         NEW x \in Nat, NEW q \in Nat, NEW t \in Nat, NEW n \in Nat, CallPlaced(a, x, q, t, n),
         p + 1 <= x \/ p + 1 > t => r2.sp = BodySP(a),
         ~(p + 1 <= x \/ p + 1 > t) => r2.sp = CallSP(a),
         OwnFP(a, r2), Unsaved(a, r2, SavedSet), FrameHeld(a, m2),
         p + 1 <= q => WordsPlaced(a, r2, m2, CallSP(a), p + 1 - 1 - x),
         p # q => OwnGP(a, r2)
  PROVE  Calling(a, p + 1, r2, m2)
<1>1. x = AfterAdjust(Func(a)) /\ q = CallAt(Func(a), CallSite(a)) /\ t = Len(a.code)
  BY DEF CallPlaced
<1>2. p + 1 # q + 1 => p # q
  OBVIOUS
<1>3. r2.sp = IF p + 1 <= x \/ p + 1 > t THEN BodySP(a) ELSE CallSP(a)
  OBVIOUS
<1>. QED
  BY <1>1, <1>2, <1>3 DEF Calling

\* Registers other than those that the body keeps.
LEMMA OwnStays ==
  ASSUME NEW a, NEW r, NEW r2
  PROVE  /\ r2.fp = r.fp /\ OwnFP(a, r) => OwnFP(a, r2)
         /\ r2.gp = r.gp /\ OwnGP(a, r) => OwnGP(a, r2)
         /\ (\A y \in SavedSet : r2[y] = r[y]) /\ Unsaved(a, r, SavedSet) => Unsaved(a, r2, SavedSet)
BY DEF OwnFP, OwnGP, Unsaved

\* The stack is adjusted before the call, and behind it.
LEMMA CallAdjust ==
  ASSUME NEW a, NEW p, NEW r, NEW m, CallingAt(a, p, r, m), NEW r2,
         ~HasReservedCallFrame(Func(a)), p = 1,
         Sets(r, r2, "sp", r.sp + (-CallFrame(Func(a), CallSite(a))))
  PROVE  Called1(a, p, m, r2, m)
<1>1. PICK x \in Nat, q \in Nat, t \in Nat, n \in Nat : CallPlaced(a, x, q, t, n)
  BY CallPlacedOf DEF CallingAt
<1>2. /\ a \in ActType /\ CallShape(a) /\ p \in Nat /\ m \in Memory /\ r \in RegFile
      /\ OwnFP(a, r) /\ Unsaved(a, r, SavedSet) /\ FrameHeld(a, m)
      /\ CallSite(a) \in DOMAIN Func(a).calls
      /\ (p <= x => r.sp = BodySP(a)) /\ (p # q + 1 => OwnGP(a, r))
  BY <1>1, CallRegs
<1>3. x = 1 /\ q >= 2 /\ t >= 3
  BY <1>1 DEF CallPlaced
<1>4. r2 \in RegFile /\ r2.sp = r.sp + (-CallFrame(Func(a), CallSite(a)))
      /\ \A y \in RegNames : y # "sp" => r2[y] = r[y]
  BY SetsOthers
<1>5. r2.sp = CallSP(a)
  <2>1. /\ CallSP(a) = BodySP(a) - CallFrame(Func(a), CallSite(a))
        /\ BodySP(a) = r.sp /\ CallFrame(Func(a), CallSite(a)) \in Nat
    BY <1>2, <1>3 DEF CallShape
  <2>2. r.sp \in Int
    BY <1>2, RegInt
  <2>. QED
    BY <1>4, <2>1, <2>2
<1>6. OwnFP(a, r2) /\ OwnGP(a, r2) /\ Unsaved(a, r2, SavedSet)
  <2>1. r2.fp = r.fp /\ r2.gp = r.gp /\ \A y \in SavedSet : r2[y] = r[y]
    BY <1>4 DEF RegNames, SavedSet, KeptRegs
  <2>2. p # q + 1
    BY <1>3
  <2>. QED
    BY <1>2, <2>1, <2>2, OwnStays
<1>7. WordsPlaced(a, r2, m, CallSP(a), p + 1 - 1 - x)
  <2>1. p + 1 - 1 - x \in Int /\ p + 1 - 1 - x <= 0
    BY <1>3
  <2>. QED
    BY <1>2, <2>1, WordsPlacedIs
<1>8. ~(p + 1 <= x \/ p + 1 > t)
  BY <1>3
<1>9. Calling(a, p + 1, r2, m)
  BY <1>1, <1>2, <1>5, <1>6, <1>7, <1>8, CallingNext
<1>. QED
  BY <1>2, <1>4, <1>9 DEF Called1, Agree

BehindCall(a, p) ==
  /\ ~HasReservedCallFrame(Func(a))
  /\ p = CallAt(Func(a), CallSite(a)) + One(Func(a).pic) + 1

LEMMA CallAdjustBack ==
  ASSUME NEW a, NEW p, NEW r, NEW m, CallingAt(a, p, r, m), NEW r2,
         BehindCall(a, p),
         Sets(r, r2, "sp", r.sp + CallFrame(Func(a), CallSite(a)))
  PROVE  Called1(a, p, m, r2, m)
<1>1. PICK x \in Nat, q \in Nat, t \in Nat, n \in Nat : CallPlaced(a, x, q, t, n)
  BY CallPlacedOf DEF CallingAt
<1>2. /\ a \in ActType /\ CallShape(a) /\ p \in Nat /\ m \in Memory /\ r \in RegFile
      /\ OwnFP(a, r) /\ Unsaved(a, r, SavedSet) /\ FrameHeld(a, m)
      /\ (p > x => r.sp = CallSP(a)) /\ (p # q + 1 => OwnGP(a, r))
  BY <1>1, CallRegs
<1>3. x = 1 /\ q >= 2 /\ p = t /\ p > q /\ (Func(a).pic => p # q + 1)
  <2>1. CASE Func(a).pic
    <3>1. One(Func(a).pic) = 1
      BY <2>1 DEF One
    <3>2. q \in Nat /\ x = 1 /\ t = q + 1 + x /\ q = x + n + 1 /\ p = q + 1 + 1
      BY <1>1, <2>1, <3>1 DEF CallPlaced, BehindCall
    <3>. QED
      BY <3>2
  <2>2. CASE ~Func(a).pic
    <3>1. One(Func(a).pic) = 0
      BY <2>2 DEF One
    <3>2. q \in Nat /\ x = 1 /\ t = q + x /\ q = x + n + 1 /\ p = q + 0 + 1
      BY <1>1, <2>2, <3>1 DEF CallPlaced, BehindCall
    <3>. QED
      BY <2>2, <3>2
  <2>. QED
    BY <2>1, <2>2
<1>4. r2 \in RegFile /\ r2.sp = r.sp + CallFrame(Func(a), CallSite(a))
      /\ \A y \in RegNames : y # "sp" => r2[y] = r[y]
  BY SetsOthers
<1>5. r2.sp = BodySP(a)
  <2>1. p > x
    BY <1>2, <1>3
  <2>2. ~HasReservedCallFrame(Func(a))
    BY DEF BehindCall
  <2>3. CallSP(a) = BodySP(a) - CallFrame(Func(a), CallSite(a))
    BY <1>2, <2>2 DEF CallShape
  <2>4. CallFrame(Func(a), CallSite(a)) \in Nat
    BY <1>2 DEF CallShape
  <2>5. BodySP(a) \in Int /\ CallSP(a) = r.sp
    BY <1>2, <2>1, ShapeOf DEF CallingAt, Shape
  <2>. QED
    BY <1>4, <2>3, <2>4, <2>5
<1>6. OwnFP(a, r2) /\ OwnGP(a, r2) /\ Unsaved(a, r2, SavedSet)
  <2>1. r2.fp = r.fp /\ r2.gp = r.gp /\ \A y \in SavedSet : r2[y] = r[y]
    BY <1>4 DEF RegNames, SavedSet, KeptRegs
  <2>2. OwnGP(a, r)
    BY <1>2, <1>3 DEF OwnGP
  <2>. QED
    BY <1>2, <2>1, <2>2, OwnStays
<1>7. p + 1 > t /\ ~(p + 1 <= q)
  BY <1>2, <1>3
<1>8. Calling(a, p + 1, r2, m)
  BY <1>1, <1>2, <1>5, <1>6, <1>7, CallingNext
<1>. QED
  BY <1>2, <1>4, <1>8 DEF Called1, Agree

LEMMA CallPass ==
  ASSUME NEW a, NEW p, NEW r, NEW m, CallingAt(a, p, r, m), NEW i, NEW r2, NEW m2,
         NEW j \in 1 .. Turns(Func(a), CallSite(a)), p = AfterAdjust(Func(a)) + j,
         PassInstr(Func(a), a.id, CallSite(a), Slot("sp", 0), j, i), Effect(i, r, m, r2, m2)
  PROVE  Called1(a, p, m, r2, m2)
<1> DEFINE f == Func(a)
           k == CallSite(a)
<1>1. PICK x \in Nat, q \in Nat, t \in Nat, n \in Nat : CallPlaced(a, x, q, t, n)
  BY CallPlacedOf DEF CallingAt
<1>2. /\ a \in ActType /\ Made(a) /\ Handled /\ f \in Program
      /\ CallShape(a) /\ p \in Nat /\ m \in Memory /\ r \in RegFile
      /\ OwnFP(a, r) /\ Unsaved(a, r, SavedSet) /\ FrameHeld(a, m)
      /\ k \in DOMAIN f.calls /\ k \in RealCalls(f)
      /\ (p > x => r.sp = CallSP(a)) /\ (p # q + 1 => OwnGP(a, r))
      /\ (p <= q => WordsPlaced(a, r, m, CallSP(a), p - 1 - x))
  BY <1>1, CallRegs
<1>3. /\ j \in Nat /\ p = x + j /\ p > x /\ p < q /\ p <= q /\ p # q + 1 /\ p # q
      /\ p - 1 - x = j - 1 /\ p + 1 - 1 - x = j /\ p + 1 <= q /\ p + 1 > x /\ p + 1 <= t
  <2>1. /\ x = AfterAdjust(f) /\ n = Turns(f, k) /\ q = x + n + 1
    BY <1>1 DEF CallPlaced
  <2>2. q <= t
    <3>1. CASE f.pic
      BY <1>1, <3>1 DEF CallPlaced
    <3>2. CASE ~f.pic
      BY <1>1, <3>2 DEF CallPlaced
    <3>. QED
      BY <3>1, <3>2
  <2>3. p = x + j /\ j \in 1 .. n
    BY <2>1
  <2>4. j \in Nat /\ j >= 1 /\ j <= n
    BY <2>3
  <2>. QED
    BY <2>1, <2>2, <2>3, <2>4
<1>4. PICK s \in Int, z \in Nat, g \in Int :
        /\ s = CallSP(a) /\ z = NextStackOffset(f, k) /\ g = Guard(a)
        /\ s % 8 = 0 /\ g = s + z /\ g <= MemTop /\ s >= 0
  <2>1. /\ CallSP(a) \in Int /\ NextStackOffset(f, k) \in Nat /\ Guard(a) \in Int
        /\ CallSP(a) % 8 = 0 /\ Guard(a) = CallSP(a) + NextStackOffset(f, k)
        /\ Guard(a) + 4 * Objects(f) <= a.entry.sp
    BY <1>2 DEF CallShape
  <2>2. /\ Objects(f) \in Nat /\ a.entry.sp \in Nat /\ End(a) <= MemTop
        /\ End(a) = a.entry.sp + IncomingArgSize(f) /\ IncomingArgSize(f) \in Nat
    BY <1>2, ShapeOf DEF Shape
  <2>3. Guard(a) <= a.entry.sp
    BY <2>1, <2>2
  <2>4. a.entry.sp <= MemTop
    BY <2>2, BoundsAssumption
  <2>5. Guard(a) <= MemTop
    BY <2>1, <2>2, <2>3, <2>4, BoundsAssumption
  <2>6. CallSP(a) >= 0
    BY <1>2, <1>3 DEF CallingAt
  <2>. QED
    BY <2>1, <2>5, <2>6
<1>5. PassesAt(a, r, s, Slot("sp", 0))
  <2>1. Slot("sp", 0) \in SlotType
    BY <1>2, SlotsTyped
  <2>2. r[Slot("sp", 0).base] + Slot("sp", 0).off = s
    BY <1>2, <1>3, <1>4, RegInt DEF Slot
  <2>3. s % 4 = 0 /\ s + z <= MemTop
    BY <1>4
  <2>. QED
    BY <1>2, <1>4, <2>1, <2>2, <2>3 DEF PassesAt
<1>6. Passed1(a, r, m, s, j, r2, m2)
  BY <1>2, <1>3, <1>4, <1>5, PassStep
<1>7. /\ WordsPlaced(a, r2, m2, s, j) /\ r2 \in RegFile /\ m2 \in Memory
      /\ \A y \in RegNames : y \notin {"a0", "a1"} => r2[y] = r[y]
      /\ \A c \in Addresses : c < s \/ c >= s + z => m2[c] = m[c]
  BY <1>4, <1>6 DEF Passed1
<1>8. Agree(m, m2, Guard(a))
  BY <1>4, <1>7 DEF Agree
<1>9. FrameHeld(a, m2)
  <2>1. Below(a, Guard(a))
    BY <1>2, BelowGuard
  <2>. QED
    BY <1>2, <1>8, <2>1, FrameStays
<1>10. OwnFP(a, r2) /\ OwnGP(a, r2) /\ Unsaved(a, r2, SavedSet) /\ r2.sp = CallSP(a)
  <2>1. r2.sp = r.sp /\ r2.fp = r.fp /\ r2.gp = r.gp /\ \A y \in SavedSet : r2[y] = r[y]
    BY <1>7 DEF RegNames, SavedSet, KeptRegs
  <2>. QED
    BY <1>2, <1>3, <2>1, OwnStays
<1>11. ~(p + 1 <= x \/ p + 1 > t)
  BY <1>2, <1>3
<1>12. WordsPlaced(a, r2, m2, CallSP(a), p + 1 - 1 - x)
  BY <1>3, <1>4, <1>7
<1>13. Calling(a, p + 1, r2, m2)
  BY <1>1, <1>2, <1>9, <1>10, <1>11, <1>12, CallingNext
<1>. QED
  BY <1>7, <1>8, <1>13 DEF Called1

\* gp is loaded behind the call.
LEMMA CallGP ==
  ASSUME NEW a, NEW p, NEW r, NEW m, CallingAt(a, p, r, m), NEW r2,
         Func(a).pic, p = CallAt(Func(a), CallSite(a)) + 1,
         Gets(r, r2, "gp", m, Place1(r, GPSlot(Func(a))))
  PROVE  Called1(a, p, m, r2, m)
<1> DEFINE f == Func(a)
           k == CallSite(a)
<1>1. PICK x \in Nat, q \in Nat, t \in Nat, n \in Nat : CallPlaced(a, x, q, t, n)
  BY CallPlacedOf DEF CallingAt
<1>2. /\ a \in ActType /\ Made(a) /\ Handled /\ f \in Program
      /\ CallShape(a) /\ p \in Nat /\ m \in Memory /\ r \in RegFile
      /\ OwnFP(a, r) /\ Unsaved(a, r, SavedSet) /\ FrameHeld(a, m)
      /\ k \in DOMAIN f.calls /\ k \in RealCalls(f)
      /\ (p > x => r.sp = CallSP(a))
  BY <1>1, CallRegs
<1>3. p = q + 1 /\ p > x /\ t = q + 1 + x /\ (HasReservedCallFrame(f) => x = 0)
      /\ (~HasReservedCallFrame(f) => x = 1)
  BY <1>1 DEF CallPlaced
<1>4. PICK v \in Int : Sets(r, r2, "gp", v)
                       /\ (Place1(r, GPSlot(f)) \in Addresses => v = m[Place1(r, GPSlot(f))])
  BY DEF Gets
<1>5. r2 \in RegFile /\ r2.gp = v /\ \A y \in RegNames : y # "gp" => r2[y] = r[y]
  BY <1>4, SetsOthers
<1>6. HasFrame(f) /\ NeedsGPSlot(f)
  BY <1>2, FrameNeeded DEF NeedsGPSlot
<1>7. Holds(m, Bottom(a) + GPSlot(f).off, GPVal(a.id))
  BY <1>2, <1>6 DEF FrameHeld, GPHeld
<1>8. Place1(r, GPSlot(f)) = Bottom(a) + GPSlot(f).off
  <2>1. Place1(r, GPSlot(f)) = r[FrameReg(f)] + GPSlot(f).off
    BY DEF Place1, GPSlot, Slot
  <2>2. CASE HasFP(f)
    BY <1>2, <2>1, <2>2 DEF OwnFP, FrameReg
  <2>3. CASE ~HasFP(f)
    <3>1. HasReservedCallFrame(f)
      BY <1>2, <1>6, <2>3, HandledFunc DEF GPSlotApart
    <3>2. BodySP(a) = Bottom(a) /\ CallSP(a) = BodySP(a) - 0 /\ BodySP(a) \in Int
      BY <1>2, <3>1, ShapeOf DEF CallShape, Shape
    <3>3. r.sp = Bottom(a)
      BY <1>2, <1>3, <3>2
    <3>. QED
      BY <2>1, <2>3, <3>3 DEF FrameReg
  <2>. QED
    BY <2>2, <2>3
<1>9. r2.gp = GPVal(a.id)
  BY <1>4, <1>5, <1>7, <1>8 DEF Holds
<1>10. OwnFP(a, r2) /\ OwnGP(a, r2) /\ Unsaved(a, r2, SavedSet) /\ r2.sp = CallSP(a)
  <2>1. r2.sp = r.sp /\ r2.fp = r.fp /\ \A y \in SavedSet : r2[y] = r[y]
    BY <1>5 DEF RegNames, SavedSet, KeptRegs
  <2>2. OwnGP(a, r2)
    BY <1>9 DEF OwnGP
  <2>. QED
    BY <1>2, <1>3, <2>1, <2>2, OwnStays
<1>11. p + 1 <= x \/ p + 1 > t => r2.sp = BodySP(a)
  <2>1. CASE HasReservedCallFrame(f)
    <3>1. CallSP(a) = BodySP(a) - 0 /\ BodySP(a) \in Int
      BY <1>2, <2>1, ShapeOf DEF CallShape, Shape
    <3>. QED
      BY <1>10, <3>1
  <2>2. CASE ~HasReservedCallFrame(f)
    <3>1. ~(p + 1 <= x \/ p + 1 > t)
      BY <1>2, <1>3, <2>2
    <3>. QED
      BY <3>1
  <2>. QED
    BY <2>1, <2>2
<1>12. ~(p + 1 <= q)
  BY <1>3
<1>13. Calling(a, p + 1, r2, m)
  BY <1>1, <1>2, <1>10, <1>11, <1>12, CallingNext
<1>. QED
  BY <1>2, <1>5, <1>13 DEF Called1, Agree

\* Each instruction of a call.
LEMMA CallingStep ==
  ASSUME NEW a, NEW p, NEW r, NEW m, CallingAt(a, p, r, m), NEW i, NEW r2, NEW m2,
         CallInstr(Func(a), a.id, CallSite(a), p, i), Effect(i, r, m, r2, m2)
  PROVE  Called1(a, p, m, r2, m2)
<1> DEFINE f == Func(a)
           k == CallSite(a)
<1>1. CASE ~HasReservedCallFrame(f) /\ p = 1 /\ i = AddSP(-CallFrame(f, k))
  <2>1. m2 = m /\ Sets(r, r2, "sp", r.sp + (-CallFrame(f, k)))
    BY <1>1, EffectIs
  <2>. QED
    BY <1>1, <2>1, CallAdjust
<1>2. ASSUME NEW j \in 1 .. Turns(f, k),
             p = AfterAdjust(f) + j, PassInstr(f, a.id, k, Slot("sp", 0), j, i)
      PROVE  Called1(a, p, m, r2, m2)
  BY <1>2, CallPass
<1>3. CASE p = CallAt(f, k) /\ i = Call(k)
  BY <1>3, EffectIs
<1>4. CASE f.pic /\ p = CallAt(f, k) + 1 /\ i = Ld("gp", GPSlot(f))
  <2>1. m2 = m /\ Gets(r, r2, "gp", m, Place1(r, GPSlot(f)))
    BY <1>4, EffectIs
  <2>. QED
    BY <1>4, <2>1, CallGP
<1>5. CASE ~HasReservedCallFrame(f) /\ p = CallAt(f, k) + One(f.pic) + 1 /\ i = AddSP(CallFrame(f, k))
  <2>1. m2 = m /\ Sets(r, r2, "sp", r.sp + CallFrame(f, k))
    BY <1>5, EffectIs
  <2>2. BehindCall(a, p)
    BY <1>5 DEF BehindCall
  <2>. QED
    BY <2>1, <2>2, CallAdjustBack
<1>. QED
  BY <1>1, <1>2, <1>3, <1>4, <1>5 DEF CallInstr

\* Behind a call.
LEMMA CallingDone ==
  ASSUME NEW a \in ActType, Made(a), NEW r, NEW m, NEW p \in Nat, a.phase = "call",
         Calling(a, p, r, m), p > Len(a.code)
  PROVE  InItsBody(a, r, m)
<1>1. PICK x \in Nat, q \in Nat, t \in Nat, n \in Nat : CallPlaced(a, x, q, t, n)
  BY CallPlacedOf
<1>2. a.next # 1
  BY CallPlacedOf
<1>3. t = Len(a.code) /\ q = CallAt(Func(a), CallSite(a)) /\ (Func(a).pic => t = q + 1 + x)
  BY <1>1 DEF CallPlaced
<1>4. Func(a).pic => p # q + 1
  BY <1>3
<1>5. /\ r.sp = BodySP(a) /\ OwnFP(a, r) /\ Unsaved(a, r, SavedSet) /\ FrameHeld(a, m)
      /\ p # q + 1 => OwnGP(a, r)
  BY <1>3 DEF Calling
<1>6. OwnGP(a, r)
  BY <1>4, <1>5 DEF OwnGP
<1>. QED
  BY <1>2, <1>5, <1>6 DEF InItsBody

-----------------------------------------------------------------------------
(***************************************************************************)
(* The epilogue.                                                           *)
(***************************************************************************)
LeavePlaced(f, s, t, l, z) ==
  /\ s = AfterSP(f) /\ t = AfterEhLoads(f) /\ l = AfterLoads(f) /\ z = AfterFree(f)
  /\ s <= 1 /\ s <= t /\ t <= l /\ l <= z
  /\ t = s + Len(EhRegs(f)) /\ l = t + Len(SavedRegs(f))
  /\ (HasFP(f) => s = 1 /\ l >= t + 1) /\ (~HasFP(f) => s = 0)
  /\ (StackSize(f) # 0 => z = l + 1) /\ (StackSize(f) = 0 => z = l)
  /\ (l > t => StackSize(f) # 0) /\ (t > s => StackSize(f) # 0)
  /\ z = 0 => StackSize(f) = 0

LEMMA LeavePlacedOf ==
  ASSUME NEW f \in Program
  PROVE  \E s, t, l, z \in Nat : LeavePlaced(f, s, t, l, z)
<1>1. /\ AfterSP(f) \in Nat /\ AfterEhLoads(f) \in Nat /\ AfterLoads(f) \in Nat /\ AfterFree(f) \in Nat
      /\ AfterSP(f) = IF HasFP(f) THEN 1 ELSE 0
      /\ AfterEhLoads(f) = AfterSP(f) + Len(EhRegs(f))
      /\ AfterLoads(f) = AfterEhLoads(f) + Len(SavedRegs(f))
      /\ AfterFree(f) = AfterLoads(f) + IF StackSize(f) # 0 THEN 1 ELSE 0
  BY EndsOf DEF Ends
<1>2. /\ Len(SavedRegs(f)) \in Nat /\ Len(EhRegs(f)) \in Nat
      /\ Len(SavedRegs(f)) >= 1 => StackSize(f) # 0
      /\ Len(EhRegs(f)) >= 1 => StackSize(f) # 0
      /\ HasFP(f) => Len(SavedRegs(f)) >= 1
  BY RegsTyped, FrameNeeded
<1>5. /\ StackSize(f) # 0 => AfterFree(f) = AfterLoads(f) + 1
      /\ StackSize(f) = 0 => AfterFree(f) = AfterLoads(f)
      /\ AfterFree(f) = 0 => StackSize(f) = 0
  <2>1. CASE StackSize(f) # 0
    <3>1. AfterFree(f) = AfterLoads(f) + 1 /\ AfterLoads(f) \in Nat
      BY <1>1, <2>1
    <3>. QED
      BY <2>1, <3>1
  <2>2. CASE StackSize(f) = 0
    <3>1. AfterFree(f) = AfterLoads(f) + 0 /\ AfterLoads(f) \in Nat
      BY <1>1, <2>2
    <3>. QED
      BY <2>2, <3>1
  <2>. QED
    BY <2>1, <2>2
<1>3. AfterSP(f) <= 1 /\ AfterSP(f) <= AfterEhLoads(f) /\ AfterEhLoads(f) <= AfterLoads(f)
      /\ AfterLoads(f) <= AfterFree(f)
  <2>4. AfterLoads(f) \in Nat
    BY <1>1
  <2>5. AfterFree(f) = AfterLoads(f) + 1 \/ AfterFree(f) = AfterLoads(f)
    BY <1>5
  <2>1. AfterLoads(f) <= AfterFree(f)
    BY <2>4, <2>5
  <2>2. AfterSP(f) <= 1
    BY <1>1
  <2>3. AfterSP(f) <= AfterEhLoads(f) /\ AfterEhLoads(f) <= AfterLoads(f)
    BY <1>1, <1>2
  <2>. QED
    BY <2>1, <2>2, <2>3
<1>4. /\ HasFP(f) => AfterSP(f) = 1 /\ AfterLoads(f) >= AfterEhLoads(f) + 1
      /\ ~HasFP(f) => AfterSP(f) = 0
  BY <1>1, <1>2
<1>6. /\ AfterLoads(f) > AfterEhLoads(f) => StackSize(f) # 0
      /\ AfterEhLoads(f) > AfterSP(f) => StackSize(f) # 0
  <2>1. AfterLoads(f) > AfterEhLoads(f) => Len(SavedRegs(f)) >= 1
    BY <1>1, <1>2
  <2>2. AfterEhLoads(f) > AfterSP(f) => Len(EhRegs(f)) >= 1
    BY <1>1, <1>2
  <2>. QED
    BY <1>2, <2>1, <2>2
<1>7. LeavePlaced(f, AfterSP(f), AfterEhLoads(f), AfterLoads(f), AfterFree(f))
  BY <1>1, <1>3, <1>4, <1>5, <1>6 DEF LeavePlaced
<1>. QED
  BY <1>1, <1>7

\* What Leaving says, with the places of the epilogue's parts.
LEMMA LeavingIs ==
  ASSUME NEW a, NEW q, NEW r, NEW m, NEW X,
         NEW s, NEW t, NEW l, NEW z, LeavePlaced(Func(a), s, t, l, z)
  PROVE  Leaving(a, q, r, m, X) <=>
           /\ r.sp = IF q <= s THEN BodySP(a) ELSE IF q <= z THEN Bottom(a) ELSE a.entry.sp
           /\ q <= s => OwnFP(a, r)
           /\ Unsaved(a, r, X)
           /\ q <= z => SavedHeld(a, m, Len(SavedRegs(Func(a))))
           /\ \A k \in DOMAIN SavedRegs(Func(a)) :
                SavedRegs(Func(a))[k] \in X /\ q > l + 1 - k
                  => r[SavedRegs(Func(a))[k]] = a.entry[SavedRegs(Func(a))[k]]
<1>1. s = AfterSP(Func(a)) /\ l = AfterLoads(Func(a)) /\ z = AfterFree(Func(a))
  BY DEF LeavePlaced
<1>. QED
  BY <1>1 DEF Leaving

\* Before the epilogue.
LEMMA LeavingEarly ==
  ASSUME NEW a \in ActType, Made(a), NEW r, NEW m, NEW X, NEW q \in Int, q <= 1,
         r.sp = BodySP(a), OwnFP(a, r), Unsaved(a, r, X),
         SavedHeld(a, m, Len(SavedRegs(Func(a))))
  PROVE  Leaving(a, q, r, m, X)
<1> DEFINE f == Func(a)
<1>1. f \in Program
  BY ActOf
<1>2. PICK s \in Nat, t \in Nat, l \in Nat, z \in Nat : LeavePlaced(f, s, t, l, z)
  BY <1>1, LeavePlacedOf
<1>3. r.sp = IF q <= s THEN BodySP(a) ELSE IF q <= z THEN Bottom(a) ELSE a.entry.sp
  <2>1. SUFFICES ASSUME ~(q <= s) PROVE r.sp = IF q <= z THEN Bottom(a) ELSE a.entry.sp
    OBVIOUS
  <2>2. s = 0 /\ q = 1
    BY <2>1
  <2>3. ~HasFP(f)
    BY <1>2, <2>2 DEF LeavePlaced
  <2>4. ~f.dyn
    BY <1>1, <2>3, FrameNeeded
  <2>5. BodySP(a) = Bottom(a) /\ Bottom(a) = a.entry.sp - StackSize(f) /\ a.entry.sp \in Nat
    BY <2>4, ShapeOf DEF Shape
  <2>6. ~(q <= z) => StackSize(f) = 0
    <3>1. ~(q <= z) => z = 0
      BY <2>2
    <3>. QED
      BY <1>2, <3>1 DEF LeavePlaced
  <2>7. StackSize(f) = 0 => Bottom(a) = a.entry.sp
    BY <2>5
  <2>. QED
    BY <2>5, <2>6, <2>7
<1>4. ASSUME NEW k \in DOMAIN SavedRegs(f) PROVE ~(q > l + 1 - k)
  <2>1. k \in Nat /\ k >= 1 /\ k <= Len(SavedRegs(f)) /\ Len(SavedRegs(f)) \in Nat
    BY ObjectsAt
  <2>2. l = t + Len(SavedRegs(f))
    BY <1>2 DEF LeavePlaced
  <2>. QED
    BY <2>1, <2>2
<1>. QED
  BY <1>2, <1>3, <1>4, LeavingIs

\* What the instructions of an epilogue change.
Left1(a, q, r, m, X, r2, m2) ==
  /\ m2 = m /\ Leaving(a, q + 1, r2, m, X) /\ r2 \in RegFile
  /\ \A y \in RegNames : y \notin {"sp", "a0", "a1"} \cup SavedSet => r2[y] = r[y]
  /\ EhRegs(Func(a)) = <<>> => r2.a0 = r.a0 /\ r2.a1 = r.a1

LeavingAt(a, q, r, m, X) ==
  /\ a \in ActType /\ Made(a) /\ r \in RegFile /\ m \in Memory /\ q \in Nat
  /\ X \subseteq SavedSet /\ Leaving(a, q, r, m, X)

LEMMA LeaveSP ==
  ASSUME NEW a, NEW q, NEW r, NEW m, NEW X, LeavingAt(a, q, r, m, X), NEW r2,
         HasFP(Func(a)), q = 1, Sets(r, r2, "sp", r.fp)
  PROVE  Left1(a, q, r, m, X, r2, m)
<1> DEFINE f == Func(a)
<1>1. a \in ActType /\ Made(a) /\ f \in Program /\ X \subseteq SavedSet
  BY ActOf DEF LeavingAt
<1>2. PICK s \in Nat, t \in Nat, l \in Nat, z \in Nat : LeavePlaced(f, s, t, l, z)
  BY <1>1, LeavePlacedOf
<1>3. s = 1 /\ l >= t + 1 /\ t >= s /\ z >= l /\ z >= 2 /\ l = t + Len(SavedRegs(f))
  BY <1>2 DEF LeavePlaced
<1>4. OwnFP(a, r) /\ Unsaved(a, r, X) /\ SavedHeld(a, m, Len(SavedRegs(f)))
  BY <1>2, <1>3, LeavingIs DEF LeavingAt
<1>5. r2 \in RegFile /\ r2.sp = Bottom(a) /\ \A y \in RegNames : y # "sp" => r2[y] = r[y]
  BY <1>4, SetsOthers DEF OwnFP
<1>6. Unsaved(a, r2, X)
  BY <1>1, <1>4, <1>5 DEF Unsaved, SavedSet, KeptRegs, RegNames
<1>7. r2.sp = IF q + 1 <= s THEN BodySP(a) ELSE IF q + 1 <= z THEN Bottom(a) ELSE a.entry.sp
  BY <1>3, <1>5
<1>8. ASSUME NEW k \in DOMAIN SavedRegs(f) PROVE ~(q + 1 > l + 1 - k)
  <2>1. k \in Nat /\ k <= Len(SavedRegs(f)) /\ Len(SavedRegs(f)) \in Nat
    BY <1>1, ObjectsAt
  <2>. QED
    BY <1>3, <2>1
<1>9. ~(q + 1 <= s)
  BY <1>3
<1>10. Leaving(a, q + 1, r2, m, X)
  BY <1>2, <1>4, <1>6, <1>7, <1>8, <1>9, LeavingIs
<1>11. /\ \A y \in RegNames : y \notin {"sp", "a0", "a1"} \cup SavedSet => r2[y] = r[y]
       /\ r2.a0 = r.a0 /\ r2.a1 = r.a1
  BY <1>5 DEF RegNames
<1>. QED
  BY <1>5, <1>10, <1>11 DEF Left1

LoadsEh(f, q, j) == j \in 1 .. Len(EhRegs(f)) /\ q = AfterSP(f) + j

LEMMA LeaveLoadEh ==
  ASSUME NEW a, NEW q, NEW r, NEW m, NEW X, LeavingAt(a, q, r, m, X), NEW r2,
         NEW j, LoadsEh(Func(a), q, j),
         NEW b, Gets(r, r2, EhRegs(Func(a))[j], m, b)
  PROVE  Left1(a, q, r, m, X, r2, m)
<1> DEFINE f == Func(a)
<1>1. a \in ActType /\ Made(a) /\ f \in Program /\ X \subseteq SavedSet
  BY ActOf DEF LeavingAt
<1>2. PICK s \in Nat, t \in Nat, l \in Nat, z \in Nat : LeavePlaced(f, s, t, l, z)
  BY <1>1, LeavePlacedOf
<1>3. q > s /\ q <= t /\ z = l + 1 /\ l >= t /\ l = t + Len(SavedRegs(f)) /\ q \in Nat
  <2>1. /\ s = AfterSP(f) /\ t = s + Len(EhRegs(f)) /\ l >= t /\ l = t + Len(SavedRegs(f))
        /\ (StackSize(f) # 0 => z = l + 1) /\ (t > s => StackSize(f) # 0)
    BY <1>2 DEF LeavePlaced
  <2>2. PICK c \in Nat : c = Len(EhRegs(f)) /\ j \in 1 .. c
    BY <1>1, RegsTyped DEF LoadsEh
  <2>3. j \in Nat /\ j >= 1 /\ j <= c /\ q = s + j
    BY <2>1, <2>2 DEF LoadsEh
  <2>6. t = s + c
    BY <2>1, <2>2
  <2>4. q > s /\ q <= t /\ q \in Nat /\ t > s
    BY <2>3, <2>6
  <2>5. z = l + 1
    BY <2>1, <2>4
  <2>. QED
    BY <2>1, <2>4, <2>5
<1>4. r.sp = Bottom(a) /\ Unsaved(a, r, X) /\ SavedHeld(a, m, Len(SavedRegs(f)))
  <2>1. ~(q <= s) /\ q <= z
    BY <1>3
  <2>. QED
    BY <1>2, <2>1, LeavingIs DEF LeavingAt
<1>5. r2 \in RegFile /\ (\A y \in RegNames : y # EhRegs(f)[j] => r2[y] = r[y])
      /\ EhRegs(f)[j] \in {"a0", "a1"} /\ EhRegs(f) # <<>>
  <2>1. PICK v \in Int : Sets(r, r2, EhRegs(f)[j], v)
    BY DEF Gets
  <2>2. j \in DOMAIN EhRegs(f) /\ EhRegs(f)[j] \in {"a0", "a1"}
    BY <1>1, RegsTyped DEF LoadsEh
  <2>. QED
    BY <2>1, <2>2, SetsOthers
<1>6. \A y \in RegNames : y \notin {"a0", "a1"} => r2[y] = r[y]
  BY <1>5
<1>7. Unsaved(a, r2, X) /\ r2.sp = Bottom(a)
  <2>1. \A y \in X : r2[y] = r[y]
    BY <1>1, <1>6 DEF SavedSet, KeptRegs, RegNames
  <2>. QED
    BY <1>4, <1>6, <2>1 DEF Unsaved, RegNames
<1>8. r2.sp = IF q + 1 <= s THEN BodySP(a) ELSE IF q + 1 <= z THEN Bottom(a) ELSE a.entry.sp
  BY <1>3, <1>7
<1>9. ASSUME NEW k \in DOMAIN SavedRegs(f) PROVE ~(q + 1 > l + 1 - k)
  <2>1. k \in Nat /\ k <= Len(SavedRegs(f)) /\ Len(SavedRegs(f)) \in Nat
    BY <1>1, ObjectsAt
  <2>. QED
    BY <1>3, <2>1
<1>10. ~(q + 1 <= s)
  BY <1>3
<1>11. Leaving(a, q + 1, r2, m, X)
  BY <1>2, <1>4, <1>7, <1>8, <1>9, <1>10, LeavingIs
<1>. QED
  BY <1>5, <1>6, <1>11 DEF Left1

LEMMA LeaveLoad ==
  ASSUME NEW a, NEW q, NEW r, NEW m, NEW X, LeavingAt(a, q, r, m, X), NEW r2,
         NEW j \in 1 .. Len(SavedRegs(Func(a))), q = AfterLoads(Func(a)) + 1 - j,
         Gets(r, r2, SavedRegs(Func(a))[j], m, Place1(r, SavedSlot(Func(a), j)))
  PROVE  Left1(a, q, r, m, X, r2, m)
<1> DEFINE f == Func(a)
           S == SavedRegs(f)
<1>1. a \in ActType /\ Made(a) /\ f \in Program /\ X \subseteq SavedSet
  BY ActOf DEF LeavingAt
<1>2. PICK s \in Nat, t \in Nat, l \in Nat, z \in Nat : LeavePlaced(f, s, t, l, z)
  BY <1>1, LeavePlacedOf
<1>3. q > s /\ q <= l /\ z = l + 1 /\ q \in Nat /\ j \in Nat /\ j >= 1 /\ q = l + 1 - j
  <2>1. /\ l = AfterLoads(f) /\ l = t + Len(S) /\ t >= s
        /\ (StackSize(f) # 0 => z = l + 1) /\ (l > t => StackSize(f) # 0)
    BY <1>2 DEF LeavePlaced
  <2>2. j \in Nat /\ j >= 1 /\ j <= Len(S) /\ Len(S) \in Nat /\ q = l + 1 - j
    BY <1>1, <2>1, RegsTyped
  <2>. QED
    BY <2>1, <2>2
<1>4. /\ r.sp = Bottom(a) /\ Unsaved(a, r, X) /\ SavedHeld(a, m, Len(S))
      /\ \A k \in DOMAIN S : S[k] \in X /\ q > l + 1 - k => r[S[k]] = a.entry[S[k]]
  <2>1. ~(q <= s) /\ q <= z
    BY <1>3
  <2>. QED
    BY <1>2, <2>1, LeavingIs DEF LeavingAt
<1>5. j \in DOMAIN S /\ S[j] \in SavedSet /\ S[j] \in ToSet(S) /\ Len(S) \in Nat
  <2>1. j \in DOMAIN S /\ S[j] \in SavedSet /\ Len(S) \in Nat
    BY <1>1, RegsTyped
  <2>2. S \in Seq(SavedSet)
    BY <1>1, SavedOf DEF SavedFacts
  <2>3. ToSet(S) = {S[k] : k \in DOMAIN S}
    BY <2>2, ToSetIs
  <2>. QED
    BY <2>1, <2>3
<1>6. PICK v \in Int : Sets(r, r2, S[j], v)
                       /\ (Place1(r, SavedSlot(f, j)) \in Addresses
                             => v = m[Place1(r, SavedSlot(f, j))])
  BY DEF Gets
<1>7. r2 \in RegFile /\ r2[S[j]] = v /\ \A y \in RegNames : y # S[j] => r2[y] = r[y]
  BY <1>6, SetsOthers
<1>8. v = a.entry[S[j]]
  <2>1. Place1(r, SavedSlot(f, j)) = a.entry.sp - 4 * j
    BY <1>1, <1>3, <1>4, ObjectPlace
  <2>2. j <= Len(S)
    BY <1>5
  <2>3. Holds(m, a.entry.sp - 4 * j, a.entry[S[j]])
    BY <1>4, <1>5, <2>2 DEF SavedHeld
  <2>. QED
    BY <1>6, <2>1, <2>3 DEF Holds
<1>9. Unsaved(a, r2, X)
  <2>1. \A y \in X : y \notin ToSet(S) => r2[y] = r[y]
    BY <1>1, <1>5, <1>7 DEF SavedSet, KeptRegs, RegNames
  <2>. QED
    BY <1>4, <2>1 DEF Unsaved
<1>10. r2.sp = IF q + 1 <= s THEN BodySP(a) ELSE IF q + 1 <= z THEN Bottom(a) ELSE a.entry.sp
  <2>1. r2.sp = Bottom(a)
    BY <1>4, <1>5, <1>7 DEF SavedSet, KeptRegs, RegNames
  <2>. QED
    BY <1>3, <2>1
<1>11. ASSUME NEW k \in DOMAIN S, S[k] \in X, q + 1 > l + 1 - k PROVE r2[S[k]] = a.entry[S[k]]
  <2>1. k \in Nat
    BY <1>1, ObjectsAt
  <2>2. CASE S[k] = S[j]
    BY <1>7, <1>8, <2>2
  <2>3. CASE S[k] # S[j]
    <3>1. k # j
      BY <2>3
    <3>2. q > l + 1 - k
      BY <1>3, <1>11, <2>1, <3>1
    <3>3. S[k] \in RegNames
      BY <1>1, RegsTyped
    <3>. QED
      BY <1>4, <1>7, <1>11, <2>3, <3>2, <3>3
  <2>. QED
    BY <2>2, <2>3
<1>12. ~(q + 1 <= s)
  BY <1>3
<1>13. Leaving(a, q + 1, r2, m, X)
  BY <1>2, <1>4, <1>9, <1>10, <1>11, <1>12, LeavingIs
<1>14. /\ \A y \in RegNames : y \notin {"sp", "a0", "a1"} \cup SavedSet => r2[y] = r[y]
       /\ r2.a0 = r.a0 /\ r2.a1 = r.a1
  BY <1>5, <1>7 DEF RegNames, SavedSet, KeptRegs
<1>. QED
  BY <1>7, <1>13, <1>14 DEF Left1

LEMMA LeaveFree ==
  ASSUME NEW a, NEW q, NEW r, NEW m, NEW X, LeavingAt(a, q, r, m, X), NEW r2,
         StackSize(Func(a)) # 0, q = AfterLoads(Func(a)) + 1,
         Sets(r, r2, "sp", r.sp + StackSize(Func(a)))
  PROVE  Left1(a, q, r, m, X, r2, m)
<1> DEFINE f == Func(a)
           S == SavedRegs(f)
<1>1. a \in ActType /\ Made(a) /\ f \in Program /\ X \subseteq SavedSet
  BY ActOf DEF LeavingAt
<1>2. PICK s \in Nat, t \in Nat, l \in Nat, z \in Nat : LeavePlaced(f, s, t, l, z)
  BY <1>1, LeavePlacedOf
<1>3. q > s /\ q = z /\ q = l + 1
  BY <1>2 DEF LeavePlaced
<1>4. /\ r.sp = Bottom(a) /\ Unsaved(a, r, X)
      /\ \A k \in DOMAIN S : S[k] \in X /\ q > l + 1 - k => r[S[k]] = a.entry[S[k]]
  <2>1. ~(q <= s) /\ q <= z
    BY <1>3
  <2>. QED
    BY <1>2, <2>1, LeavingIs DEF LeavingAt
<1>5. r2 \in RegFile /\ r2.sp = a.entry.sp /\ \A y \in RegNames : y # "sp" => r2[y] = r[y]
  <2>1. r2 \in RegFile /\ r2.sp = r.sp + StackSize(f) /\ \A y \in RegNames : y # "sp" => r2[y] = r[y]
    BY SetsOthers
  <2>2. Bottom(a) = a.entry.sp - StackSize(f) /\ a.entry.sp \in Nat
    BY <1>1, ShapeOf DEF Shape
  <2>3. StackSize(f) \in Nat
    BY <1>1, SizeOf DEF Sized
  <2>. QED
    BY <1>4, <2>1, <2>2, <2>3
<1>6. Unsaved(a, r2, X)
  BY <1>1, <1>4, <1>5 DEF Unsaved, SavedSet, KeptRegs, RegNames
<1>7. r2.sp = IF q + 1 <= s THEN BodySP(a) ELSE IF q + 1 <= z THEN Bottom(a) ELSE a.entry.sp
  BY <1>3, <1>5
<1>8. ASSUME NEW k \in DOMAIN S, S[k] \in X PROVE r2[S[k]] = a.entry[S[k]]
  <2>1. k \in Nat /\ k >= 1
    BY <1>1, ObjectsAt
  <2>2. q > l + 1 - k
    BY <1>3, <2>1
  <2>3. S[k] \in RegNames /\ S[k] # "sp"
    BY <1>1, RegsTyped DEF SavedSet, KeptRegs
  <2>. QED
    BY <1>4, <1>5, <1>8, <2>2, <2>3
<1>9. ~(q + 1 <= s) /\ ~(q + 1 <= z)
  BY <1>3
<1>10. Leaving(a, q + 1, r2, m, X)
  BY <1>2, <1>6, <1>7, <1>8, <1>9, LeavingIs
<1>11. /\ \A y \in RegNames : y \notin {"sp", "a0", "a1"} \cup SavedSet => r2[y] = r[y]
       /\ r2.a0 = r.a0 /\ r2.a1 = r.a1
  BY <1>5 DEF RegNames
<1>. QED
  BY <1>5, <1>10, <1>11 DEF Left1

\* Each instruction of an epilogue.
LEMMA LeavingStep ==
  ASSUME NEW a, NEW q, NEW r, NEW m, NEW X, LeavingAt(a, q, r, m, X), NEW i, NEW r2, NEW m2,
         EpilogueInstr(Func(a), q, i), Effect(i, r, m, r2, m2)
  PROVE  Left1(a, q, r, m, X, r2, m2)
<1> DEFINE f == Func(a)
<1>1. CASE HasFP(f) /\ q = 1 /\ i = Copy("sp", "fp")
  <2>1. m2 = m /\ Sets(r, r2, "sp", r.fp)
    BY <1>1, EffectIs
  <2>. QED
    BY <1>1, <2>1, LeaveSP
<1>2. ASSUME NEW k \in 1 .. Len(EhRegs(f)),
             q = AfterSP(f) + k, i = Ld(EhRegs(f)[k], ObjSlot(f, EhOffset(f, k)))
      PROVE  Left1(a, q, r, m, X, r2, m2)
  <2>1. m2 = m /\ Gets(r, r2, EhRegs(f)[k], m, Place1(r, ObjSlot(f, EhOffset(f, k))))
    BY <1>2, EffectIs
  <2>2. LoadsEh(f, q, k)
    BY <1>2 DEF LoadsEh
  <2>. QED
    BY <2>1, <2>2, LeaveLoadEh
<1>3. ASSUME NEW k \in 1 .. Len(SavedRegs(f)),
             q = AfterLoads(f) + 1 - k, i = Ld(SavedRegs(f)[k], SavedSlot(f, k))
      PROVE  Left1(a, q, r, m, X, r2, m2)
  <2>1. m2 = m /\ Gets(r, r2, SavedRegs(f)[k], m, Place1(r, SavedSlot(f, k)))
    BY <1>3, EffectIs
  <2>. QED
    BY <1>3, <2>1, LeaveLoad
<1>4. CASE StackSize(f) # 0 /\ q = AfterLoads(f) + 1 /\ i = AddSP(StackSize(f))
  <2>1. m2 = m /\ Sets(r, r2, "sp", r.sp + StackSize(f))
    BY <1>4, EffectIs
  <2>. QED
    BY <1>4, <2>1, LeaveFree
<1>. QED
  BY <1>1, <1>2, <1>3, <1>4 DEF EpilogueInstr

\* Behind the epilogue.
LEMMA LeavingDone ==
  ASSUME NEW a \in ActType, NEW r, NEW m, NEW X, NEW q \in Int,
         q > AfterFree(Func(a)), Leaving(a, q, r, m, X)
  PROVE  r.sp = a.entry.sp /\ \A x \in X : r[x] = a.entry[x]
<1> DEFINE f == Func(a)
           S == SavedRegs(f)
<1>1. f \in Program
  BY ActOf
<1>2. PICK s \in Nat, t \in Nat, l \in Nat, z \in Nat : LeavePlaced(f, s, t, l, z)
  BY <1>1, LeavePlacedOf
<1>3. q > z /\ s <= z /\ l <= z
  <2>1. z = AfterFree(f) /\ s <= t /\ t <= l /\ l <= z
    BY <1>2 DEF LeavePlaced
  <2>. QED
    BY <2>1
<1>4. ~(q <= s) /\ ~(q <= z)
  BY <1>3
<1>5. /\ r.sp = a.entry.sp /\ Unsaved(a, r, X)
      /\ \A k \in DOMAIN S : S[k] \in X /\ q > l + 1 - k => r[S[k]] = a.entry[S[k]]
  BY <1>2, <1>4, LeavingIs
<1>6. ASSUME NEW x \in X PROVE r[x] = a.entry[x]
  <2>1. CASE x \notin ToSet(S)
    BY <1>5, <2>1 DEF Unsaved
  <2>2. CASE x \in ToSet(S)
    <3>1. PICK k \in DOMAIN S : x = S[k]
      <4>1. S \in Seq(SavedSet)
        BY <1>1, SavedOf DEF SavedFacts
      <4>2. ToSet(S) = {S[k] : k \in DOMAIN S}
        BY <4>1, ToSetIs
      <4>. QED
        BY <2>2, <4>2
    <3>2. k \in Nat /\ k >= 1
      BY <1>1, RegsTyped
    <3>3. q > l + 1 - k
      BY <1>3, <3>2
    <3>. QED
      BY <1>5, <3>1, <3>3
  <2>. QED
    BY <2>1, <2>2
<1>. QED
  BY <1>5, <1>6

-----------------------------------------------------------------------------
(***************************************************************************)
(* A tail call, and llvm.eh.return.                                        *)
(***************************************************************************)
TailingAt(a, p, r, m) ==
  /\ a \in ActType /\ Made(a) /\ Handled /\ r \in RegFile /\ m \in Memory /\ p \in Nat
  /\ a.phase = "tail" /\ TailCalling(a, p, r, m)
Tailed1(a, p, m, r2, m2) ==
  TailCalling(a, p + 1, r2, m2) /\ Agree(m, m2, End(a)) /\ r2 \in RegFile /\ m2 \in Memory

LEMMA TailCallingIs ==
  ASSUME NEW a, NEW p, NEW r, NEW m, NEW n, n = Turns(Func(a), CallSite(a))
  PROVE  TailCalling(a, p, r, m) <=>
           Leaving(a, p - n, r, m, SavedSet) /\ WordsPlaced(a, r, m, a.entry.sp, p - 1)
BY DEF TailCalling, Turns

LEMMA TailRegs ==
  ASSUME NEW a, NEW p, NEW r, NEW m, TailingAt(a, p, r, m)
  PROVE  /\ a \in ActType /\ Made(a) /\ Handled /\ r \in RegFile /\ m \in Memory /\ p \in Nat
         /\ Func(a) \in Program /\ CallSite(a) \in DOMAIN Func(a).calls
         /\ IsTail(Func(a), CallSite(a))
         /\ Turns(Func(a), CallSite(a)) \in Nat
         /\ Leaving(a, p - Turns(Func(a), CallSite(a)), r, m, SavedSet)
         /\ WordsPlaced(a, r, m, a.entry.sp, p - 1)
<1>1. /\ a \in ActType /\ Made(a) /\ Handled /\ r \in RegFile /\ m \in Memory /\ p \in Nat
      /\ TailCalling(a, p, r, m)
  BY DEF TailingAt
<1>2. CallSite(a) \in DOMAIN Func(a).calls /\ IsTail(Func(a), CallSite(a))
  BY DEF TailingAt, Made, Coded
<1>3. Func(a) \in Program
  BY <1>1, ActOf
<1>4. Turns(Func(a), CallSite(a)) \in Nat
  BY <1>2, <1>3, TurnOf
<1>5. /\ Leaving(a, p - Turns(Func(a), CallSite(a)), r, m, SavedSet)
      /\ WordsPlaced(a, r, m, a.entry.sp, p - 1)
  BY <1>1 DEF TailCalling, Turns
<1>. QED
  BY <1>1, <1>2, <1>3, <1>4, <1>5

\* The area that the words of a tail call go to is that of the function's own.
LEMMA TailArea ==
  ASSUME NEW a \in ActType, Made(a), NEW r \in RegFile, r.sp = BodySP(a), OwnFP(a, r),
         CallSite(a) \in DOMAIN Func(a).calls, IsTail(Func(a), CallSite(a))
  PROVE  /\ PassesAt(a, r, a.entry.sp, ObjSlot(Func(a), 0))
         /\ a.entry.sp + NextStackOffset(Func(a), CallSite(a)) <= End(a)
<1> DEFINE f == Func(a)
           k == CallSite(a)
<1>1. f \in Program
  BY ActOf
<1>2. PICK e \in Nat, n \in Nat, d \in Int, z \in Nat :
        /\ e = a.entry.sp /\ n = IncomingArgSize(f) /\ d = End(a) /\ z = NextStackOffset(f, k)
        /\ e % 8 = 0 /\ d = e + n /\ d <= MemTop /\ z <= n
  <2>1. /\ a.entry.sp \in Nat /\ IncomingArgSize(f) \in Nat /\ End(a) \in Int
        /\ a.entry.sp % 8 = 0 /\ End(a) = a.entry.sp + IncomingArgSize(f) /\ End(a) <= MemTop
    BY ShapeOf DEF Shape
  <2>2. NextStackOffset(f, k) \in Nat /\ NextStackOffset(f, k) <= IncomingArgSize(f)
    BY <1>1, SoundCalls DEF SoundCall, IsTail
  <2>. QED
    BY <2>1, <2>2
<1>3. r[FrameReg(f)] = Bottom(a)
  <2>1. CASE HasFP(f)
    BY <2>1 DEF OwnFP, FrameReg
  <2>2. CASE ~HasFP(f)
    <3>1. ~f.dyn
      BY <1>1, <2>2, FrameNeeded
    <3>2. BodySP(a) = Bottom(a)
      BY <3>1, ShapeOf DEF Shape
    <3>. QED
      BY <2>2, <3>2 DEF FrameReg
  <2>. QED
    BY <2>1, <2>2
<1>4. r[ObjSlot(f, 0).base] + ObjSlot(f, 0).off = e
  <2>1. Place1(r, ObjSlot(f, 0)) = a.entry.sp + 0
    BY <1>3, ObjectPlace
  <2>2. Place1(r, ObjSlot(f, 0)) = e
    BY <1>2, <2>1
  <2>. QED
    BY <2>2 DEF Place1
<1>5. ObjSlot(f, 0) \in SlotType
  BY <1>1, SlotsTyped
<1>6. e >= 0 /\ e % 4 = 0 /\ e + z <= d
  BY <1>2
<1>7. e + z <= MemTop
  BY <1>2, <1>6, BoundsAssumption
<1>. QED
  BY <1>2, <1>4, <1>5, <1>6, <1>7 DEF PassesAt

LEMMA TailPass ==
  ASSUME NEW a, NEW p, NEW r, NEW m, TailingAt(a, p, r, m), NEW i, NEW r2, NEW m2,
         p \in 1 .. Turns(Func(a), CallSite(a)),
         PassInstr(Func(a), a.id, CallSite(a), ObjSlot(Func(a), 0), p, i), Effect(i, r, m, r2, m2)
  PROVE  Tailed1(a, p, m, r2, m2)
<1> DEFINE f == Func(a)
           k == CallSite(a)
<1>1. /\ a \in ActType /\ Made(a) /\ f \in Program /\ k \in DOMAIN f.calls /\ IsTail(f, k)
      /\ r \in RegFile /\ m \in Memory /\ p \in Nat
      /\ Leaving(a, p - Turns(f, k), r, m, SavedSet)
      /\ WordsPlaced(a, r, m, a.entry.sp, p - 1)
  BY TailRegs
<1>2. PICK n \in Nat : n = Turns(f, k) /\ p \in 1 .. n
  BY <1>1, TailRegs
<1>3. PICK q \in Int : q = p - n /\ q <= 0 /\ q + 1 = p + 1 - n
  BY <1>1, <1>2
<1>4. r.sp = BodySP(a) /\ OwnFP(a, r) /\ Unsaved(a, r, SavedSet) /\ SavedHeld(a, m, Len(SavedRegs(f)))
  <2>1. PICK s \in Nat, t \in Nat, l \in Nat, z \in Nat : LeavePlaced(f, s, t, l, z)
    BY <1>1, LeavePlacedOf
  <2>2. q <= s /\ q <= z
    BY <1>3
  <2>3. Leaving(a, q, r, m, SavedSet)
    BY <1>1, <1>2, <1>3
  <2>. QED
    BY <2>1, <2>2, <2>3, LeavingIs
<1>5. /\ PassesAt(a, r, a.entry.sp, ObjSlot(f, 0))
      /\ a.entry.sp + NextStackOffset(f, k) <= End(a)
  BY <1>1, <1>4, TailArea
<1>6. a.entry.sp \in Int /\ a.entry.sp \in Nat /\ End(a) \in Int /\ NextStackOffset(f, k) \in Nat
  BY <1>1, ShapeOf, SoundCalls DEF Shape, SoundCall
<1>7. Passed1(a, r, m, a.entry.sp, p, r2, m2)
  BY <1>1, <1>5, <1>6, PassStep
<1>8. /\ WordsPlaced(a, r2, m2, a.entry.sp, p) /\ r2 \in RegFile /\ m2 \in Memory
      /\ \A x \in RegNames : x \notin {"a0", "a1"} => r2[x] = r[x]
      /\ \A c \in Addresses :
           c < a.entry.sp \/ c >= a.entry.sp + NextStackOffset(f, k) => m2[c] = m[c]
  BY <1>7 DEF Passed1
<1>9. Agree(m, m2, End(a))
  <2>1. SUFFICES ASSUME NEW c \in Addresses, c >= End(a) PROVE m2[c] = m[c]
    BY DEF Agree
  <2>2. c \in Int
    BY AddressIs
  <2>3. c >= a.entry.sp + NextStackOffset(f, k)
    BY <1>5, <1>6, <2>1, <2>2
  <2>. QED
    BY <1>8, <2>3
<1>10. SavedHeld(a, m2, Len(SavedRegs(f)))
  <2>1. SUFFICES ASSUME NEW j \in DOMAIN SavedRegs(f), j <= Len(SavedRegs(f))
                 PROVE  Holds(m2, a.entry.sp - 4 * j, a.entry[SavedRegs(f)[j]])
    BY DEF SavedHeld
  <2>2. Holds(m, a.entry.sp - 4 * j, a.entry[SavedRegs(f)[j]])
    BY <1>4, <2>1 DEF SavedHeld
  <2>3. j \in Nat /\ j >= 1
    BY <1>1, ObjectsAt
  <2>4. a.entry.sp - 4 * j < a.entry.sp
    BY <1>6, <2>3
  <2>. QED
    BY <1>8, <2>2, <2>4 DEF Holds
<1>11. r2.sp = BodySP(a) /\ OwnFP(a, r2) /\ Unsaved(a, r2, SavedSet)
  <2>1. r2.sp = r.sp /\ r2.fp = r.fp /\ \A y \in SavedSet : r2[y] = r[y]
    BY <1>8 DEF RegNames, SavedSet, KeptRegs
  <2>. QED
    BY <1>4, <2>1, OwnStays
<1>12. Leaving(a, q + 1, r2, m2, SavedSet)
  <2>1. q + 1 \in Int /\ q + 1 <= 1
    BY <1>3
  <2>. QED
    BY <1>1, <1>10, <1>11, <2>1, LeavingEarly
<1>13. Leaving(a, p + 1 - n, r2, m2, SavedSet)
  BY <1>3, <1>12
<1>14. WordsPlaced(a, r2, m2, a.entry.sp, p + 1 - 1)
  <2>1. p + 1 - 1 = p
    BY <1>1
  <2>. QED
    BY <1>8, <2>1
<1>15. TailCalling(a, p + 1, r2, m2)
  BY <1>2, <1>13, <1>14 DEF TailCalling, Turns
<1>. QED
  BY <1>8, <1>9, <1>15 DEF Tailed1

TailEpilogue(a, p, q, i) ==
  /\ q \in 1 .. AfterFree(Func(a)) /\ p = Turns(Func(a), CallSite(a)) + q
  /\ EpilogueInstr(Func(a), q, i)

LEMMA TailLeave ==
  ASSUME NEW a, NEW p, NEW r, NEW m, TailingAt(a, p, r, m), NEW i, NEW r2, NEW m2,
         NEW q, TailEpilogue(a, p, q, i), Effect(i, r, m, r2, m2)
  PROVE  Tailed1(a, p, m, r2, m2)
<1> DEFINE f == Func(a)
           k == CallSite(a)
<1>1. /\ a \in ActType /\ Made(a) /\ Handled /\ f \in Program /\ k \in DOMAIN f.calls /\ IsTail(f, k)
      /\ r \in RegFile /\ m \in Memory /\ p \in Nat
      /\ Leaving(a, p - Turns(f, k), r, m, SavedSet)
      /\ WordsPlaced(a, r, m, a.entry.sp, p - 1)
  BY TailRegs
<1>2. PICK n \in Nat, z \in Nat : n = Turns(f, k) /\ z = AfterFree(f)
  BY <1>1, TailRegs, EndsOf DEF Ends
<1>3. q \in 1 .. z /\ p = n + q /\ EpilogueInstr(f, q, i)
  BY <1>2 DEF TailEpilogue
<1>4. q \in Nat /\ p - n = q /\ p + 1 - n = q + 1 /\ p - 1 >= n /\ p - 1 \in Int /\ p + 1 - 1 \in Int
  BY <1>3
<1>5. LeavingAt(a, q, r, m, SavedSet)
  BY <1>1, <1>2, <1>4 DEF LeavingAt
<1>6. Left1(a, q, r, m, SavedSet, r2, m2)
  BY <1>3, <1>5, LeavingStep
<1>7. /\ m2 = m /\ Leaving(a, q + 1, r2, m, SavedSet) /\ r2 \in RegFile
      /\ EhRegs(f) = <<>> => r2.a0 = r.a0 /\ r2.a1 = r.a1
  BY <1>6 DEF Left1
<1>8. \A j \in 1 .. n : TurnPlaced(a, r, m, a.entry.sp, j)
  <2>1. \A j \in 1 .. n : j <= p - 1
    BY <1>4
  <2>. QED
    BY <1>1, <1>2, <2>1, WordsPlacedIs
<1>9. ASSUME NEW j \in 1 .. n PROVE TurnPlaced(a, r2, m, a.entry.sp, j)
  <2>1. TurnPlaced(a, r, m, a.entry.sp, j)
    BY <1>8
  <2>2. Turn(f, k, j) \in DOMAIN SentWords(f, k)
    BY <1>1, <1>2, TurnOf
  <2>3. CASE SentWords(f, k)[Turn(f, k, j)].reg = -1
    BY <2>1, <2>3 DEF TurnPlaced, WordPlaced
  <2>4. CASE SentWords(f, k)[Turn(f, k, j)].reg # -1
    <3>1. EhRegs(f) = <<>>
      BY <1>1, <2>2, <2>4, HandledFunc DEF EhDataApart
    <3>2. r2[ArgReg(SentWords(f, k)[Turn(f, k, j)].reg)] = r[ArgReg(SentWords(f, k)[Turn(f, k, j)].reg)]
      BY <1>7, <3>1 DEF ArgReg
    <3>. QED
      BY <2>1, <2>4, <3>2 DEF TurnPlaced, WordPlaced
  <2>. QED
    BY <2>3, <2>4
<1>10. WordsPlaced(a, r2, m, a.entry.sp, p + 1 - 1)
  BY <1>1, <1>2, <1>9, WordsPlacedIs
<1>11. TailCalling(a, p + 1, r2, m2)
  <2>1. Leaving(a, (p + 1) - n, r2, m2, SavedSet)
    BY <1>3, <1>4, <1>7
  <2>2. WordsPlaced(a, r2, m2, a.entry.sp, (p + 1) - 1)
    BY <1>1, <1>7, <1>10
  <2>. QED
    BY <1>2, <2>1, <2>2, TailCallingIs
<1>. QED
  BY <1>1, <1>7, <1>11 DEF Tailed1, Agree

\* Each instruction of a tail call but the jump.
LEMMA TailStep ==
  ASSUME NEW a, NEW p, NEW r, NEW m, TailingAt(a, p, r, m), NEW i, NEW r2, NEW m2,
         TailInstr(Func(a), a.id, CallSite(a), p, i), Effect(i, r, m, r2, m2)
  PROVE  Tailed1(a, p, m, r2, m2)
<1> DEFINE f == Func(a)
           k == CallSite(a)
<1>1. CASE p \in 1 .. Turns(f, k) /\ PassInstr(f, a.id, k, ObjSlot(f, 0), p, i)
  BY <1>1, TailPass
<1>2. ASSUME NEW q \in 1 .. AfterFree(f), p = Turns(f, k) + q, EpilogueInstr(f, q, i)
      PROVE  Tailed1(a, p, m, r2, m2)
  <2>1. TailEpilogue(a, p, q, i)
    BY <1>2 DEF TailEpilogue
  <2>. QED
    BY <2>1, TailLeave
<1>3. CASE i = Jump(k)
  BY <1>3, EffectIs
<1>. QED
  BY <1>1, <1>2, <1>3 DEF TailInstr

ThrowingAt(a, p, r, m) ==
  /\ a \in ActType /\ Made(a) /\ r \in RegFile /\ m \in Memory /\ p \in Nat
  /\ Throwing(a, p, r, m)
Thrown1(a, p, m, r2, m2) == Throwing(a, p + 1, r2, m2) /\ m2 = m /\ r2 \in RegFile

LEMMA ThrowStep ==
  ASSUME NEW a, NEW p, NEW r, NEW m, ThrowingAt(a, p, r, m), NEW i, NEW r2, NEW m2,
         ThrowInstr(Func(a), p, i), Effect(i, r, m, r2, m2)
  PROVE  Thrown1(a, p, m, r2, m2)
<1> DEFINE f == Func(a)
<1>1. a \in ActType /\ Made(a) /\ r \in RegFile /\ m \in Memory /\ p \in Nat /\ f \in Program
  BY ActOf DEF ThrowingAt
<1>2. PICK n \in Nat : n = AfterFree(f)
  BY <1>1, EndsOf DEF Ends
<1>3. /\ r.v0 = Handler /\ r.v1 \in {0, 8} /\ r.v1 <= IncomingArgSize(f)
      /\ p <= n + 1 => Leaving(a, p, r, m, SavedSet)
      /\ p = n + 2 => Leaving(a, p, r, m, KeptRegs)
      /\ p > n + 1 => r.lr = Handler
  BY <1>2 DEF ThrowingAt, Throwing
<1>4. CASE p \in 1 .. n /\ EpilogueInstr(f, p, i)
  <2>1. p <= n + 1 /\ p + 1 <= n + 1 /\ ~(p + 1 > n + 1) /\ ~(p + 1 > n + 2) /\ p + 1 # n + 2
    BY <1>4
  <2>2. LeavingAt(a, p, r, m, SavedSet)
    BY <1>1, <1>3, <2>1 DEF LeavingAt
  <2>3. Left1(a, p, r, m, SavedSet, r2, m2)
    BY <1>4, <2>2, LeavingStep
  <2>4. m2 = m /\ Leaving(a, p + 1, r2, m, SavedSet) /\ r2 \in RegFile
        /\ \A y \in RegNames : y \notin {"sp", "a0", "a1"} \cup SavedSet => r2[y] = r[y]
    BY <2>3 DEF Left1
  <2>5. r2.v0 = r.v0 /\ r2.v1 = r.v1
    BY <2>4 DEF RegNames, SavedSet, KeptRegs
  <2>6. Throwing(a, p + 1, r2, m)
    BY <1>2, <1>3, <2>1, <2>4, <2>5 DEF Throwing
  <2>. QED
    BY <2>4, <2>6 DEF Thrown1
<1>5. CASE p = n + 1 /\ i = Copy("lr", "v0")
  <2>1. m2 = m /\ Sets(r, r2, "lr", r.v0)
    BY <1>5, EffectIs
  <2>2. r2 \in RegFile /\ r2.lr = Handler /\ \A y \in RegNames : y # "lr" => r2[y] = r[y]
    BY <1>3, <2>1, SetsOthers
  <2>3. r.sp = a.entry.sp /\ \A x \in SavedSet : r[x] = a.entry[x]
    <3>1. Leaving(a, p, r, m, SavedSet) /\ p > n /\ p \in Int
      BY <1>3, <1>5
    <3>. QED
      BY <1>1, <1>2, <3>1, LeavingDone
  <2>4. r2.sp = a.entry.sp /\ \A x \in KeptRegs : r2[x] = a.entry[x]
    BY <2>2, <2>3 DEF SavedSet, KeptRegs, RegNames
  <2>5. Leaving(a, p + 1, r2, m, KeptRegs)
    <3>1. PICK s \in Nat, t \in Nat, l \in Nat, z \in Nat : LeavePlaced(f, s, t, l, z)
      BY <1>1, LeavePlacedOf
    <3>2. z = n /\ s <= z
      <4>1. z = n /\ s <= t /\ t <= l /\ l <= z
        BY <1>2, <3>1 DEF LeavePlaced
      <4>. QED
        BY <4>1
    <3>3. ~(p + 1 <= s) /\ ~(p + 1 <= z)
      BY <1>5, <3>2
    <3>4. Unsaved(a, r2, KeptRegs)
      BY <2>4 DEF Unsaved
    <3>. QED
      BY <2>4, <3>1, <3>3, <3>4, LeavingIs
  <2>6. p + 1 = n + 2 /\ ~(p + 1 <= n + 1) /\ ~(p + 1 > n + 2)
    BY <1>5
  <2>7. r2.v0 = r.v0 /\ r2.v1 = r.v1
    BY <2>2 DEF RegNames
  <2>8. Throwing(a, p + 1, r2, m)
    BY <1>2, <1>3, <2>2, <2>5, <2>6, <2>7 DEF Throwing
  <2>. QED
    BY <2>1, <2>2, <2>8 DEF Thrown1
<1>6. CASE p = n + 2 /\ i = AddSPV1
  <2>1. m2 = m /\ Sets(r, r2, "sp", r.sp + r.v1)
    BY <1>6, EffectIs
  <2>2. r2 \in RegFile /\ r2.sp = r.sp + r.v1 /\ \A y \in RegNames : y # "sp" => r2[y] = r[y]
    BY <2>1, SetsOthers
  <2>3. r.sp = a.entry.sp /\ \A x \in KeptRegs : r[x] = a.entry[x]
    <3>1. Leaving(a, p, r, m, KeptRegs) /\ p > n /\ p \in Int
      BY <1>3, <1>6
    <3>. QED
      BY <1>1, <1>2, <3>1, LeavingDone
  <2>4. r.lr = Handler
    BY <1>3, <1>6
  <2>5. r2.v0 = r.v0 /\ r2.v1 = r.v1 /\ r2.lr = Handler /\ \A x \in KeptRegs : r2[x] = a.entry[x]
    BY <2>2, <2>3, <2>4 DEF RegNames, KeptRegs
  <2>6. r2.sp = a.entry.sp + r2.v1
    BY <2>2, <2>3, <2>5
  <2>7. ~(p + 1 <= n + 1) /\ p + 1 # n + 2
    BY <1>6
  <2>8. Throwing(a, p + 1, r2, m)
    BY <1>2, <1>3, <2>5, <2>6, <2>7 DEF Throwing
  <2>. QED
    BY <2>1, <2>2, <2>8 DEF Thrown1
<1>7. CASE i = Ret
  BY <1>7, EffectIs
<1>. QED
  BY <1>2, <1>4, <1>5, <1>6, <1>7 DEF ThrowInstr
=============================================================================
