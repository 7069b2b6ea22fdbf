-------------------------- MODULE Cpu0FramesProofs --------------------------
(***************************************************************************)
(* The inductive invariant of Cpu0Frames, step by step, and what follows   *)
(* from it: for functions whose frames the lowering handles, and as long   *)
(* as the stack suffices.                                                  *)
(***************************************************************************)
EXTENDS FramesTheorems

-----------------------------------------------------------------------------
(***************************************************************************)
(* One instruction of the running activation.                              *)
(***************************************************************************)
LEMMA MadeSame ==
  ASSUME NEW a \in ActType, Made(a), NEW b, SameFrame(a, b), Coded(b),
         b.next \in 1 .. Len(Func(a).calls) + 1
  PROVE  Made(b)
<1>1. /\ Func(b) = Func(a) /\ Bottom(b) = Bottom(a) /\ End(b) = End(a) /\ Passes(b)
      /\ b.entry = a.entry /\ b.locals = a.locals /\ b.alloca = a.alloca
  BY SameEntryIs DEF SameFrame, SameEntry, Made
<1>. QED
  BY <1>1 DEF Made

LEMMA AdvancedIs ==
  ASSUME NEW a \in ActType, Made(a), a.at <= Len(a.code)
  PROVE  /\ Advanced(a) \in ActType /\ Made(Advanced(a)) /\ SameBody(a, Advanced(a))
         /\ Advanced(a).phase = a.phase /\ Advanced(a).code = a.code
         /\ Advanced(a).at = a.at + 1 /\ a.at \in 1 .. Len(a.code)
<1> DEFINE b == Advanced(a)
<1>1. b = [a EXCEPT !.at = a.at + 1]
  BY DEF Advanced
<1>2. a.at \in Nat /\ a.at + 1 \in Nat
  BY ActOf
<1>3. ASSUME NEW n \in Nat PROVE [a EXCEPT !.at = n] \in ActType
  BY DEF ActType
<1>4. b \in ActType
  BY <1>1, <1>2, <1>3
<1>5. ASSUME NEW n \in Nat
      PROVE  /\ [a EXCEPT !.at = n].at = n
             /\ [a EXCEPT !.at = n].id = a.id /\ [a EXCEPT !.at = n].fn = a.fn
             /\ [a EXCEPT !.at = n].entry = a.entry /\ [a EXCEPT !.at = n].passed = a.passed
             /\ [a EXCEPT !.at = n].extra = a.extra /\ [a EXCEPT !.at = n].locals = a.locals
             /\ [a EXCEPT !.at = n].alloca = a.alloca /\ [a EXCEPT !.at = n].next = a.next
             /\ [a EXCEPT !.at = n].phase = a.phase /\ [a EXCEPT !.at = n].code = a.code
  BY DEF ActType
<1>6. /\ b.at = a.at + 1 /\ b.phase = a.phase /\ b.code = a.code /\ b.next = a.next
      /\ SameBody(a, b) /\ SameFrame(a, b)
  BY <1>1, <1>2, <1>5 DEF SameBody, SameFrame, SameEntry
<1>7. a.at \in 1 .. Len(a.code) + 1 /\ Len(a.code) \in Nat /\ a.next \in 1 .. Len(Func(a).calls) + 1
  BY ActOf DEF Made, Coded
<1>8. a.at \in 1 .. Len(a.code) /\ b.at \in 1 .. Len(a.code) + 1
  BY <1>2, <1>6, <1>7
<1>9. Func(b) = Func(a) /\ CallSite(b) = CallSite(a) /\ b.id = a.id
  BY <1>6, SameEntryIs, SameBodyIs DEF SameBody, SameFrame, SameEntry
<1>10. Coded(b)
  BY <1>6, <1>8, <1>9 DEF Coded, Made
<1>. QED
  BY <1>4, <1>6, <1>7, <1>8, <1>10, MadeSame

Stepping(a, r, m) ==
  /\ a \in ActType /\ Made(a) /\ Handled /\ r \in RegFile /\ r.sp >= 0 /\ m \in Memory
  /\ a.at <= Len(a.code) /\ TopInv(a, r, m)
Stepped(a, m, r2, m2) ==
  /\ TopInv(Advanced(a), r2, m2) /\ Agree(m, m2, End(a)) /\ r2 \in RegFile /\ m2 \in Memory

LEMMA StepEnter ==
  ASSUME NEW a, NEW r, NEW m, Stepping(a, r, m), a.phase = "enter", NEW r2, NEW m2,
         Effect(a.code[a.at], r, m, r2, m2)
  PROVE  Stepped(a, m, r2, m2)
<1> DEFINE f == Func(a)
           b == Advanced(a)
<1>1. a \in ActType /\ Made(a) /\ a.at <= Len(a.code) /\ f \in Program /\ a.id \in Nat /\ a.at \in Nat
  BY ActOf DEF Stepping
<1>2. /\ SameBody(a, b) /\ b.phase = "enter" /\ b.code = a.code /\ b.at = a.at + 1
      /\ a.at \in 1 .. Len(a.code)
  BY <1>1, AdvancedIs
<1>3. a.code = EnterCode(f, a.id)
  BY <1>1 DEF Made, Coded
<1>4. EnterInstr(f, a.id, a.at, a.code[a.at]) /\ Len(a.code) = AfterGP(f) + Len(Homed(f))
  BY <1>1, <1>2, <1>3, EnterIs
<1>5. EnterAt(a, a.at, r, m)
  <2>1. ~(a.at > Len(a.code))
    BY <1>1, ActOf
  <2>. QED
    BY <1>1, <2>1 DEF EnterAt, Stepping, TopInv
<1>6. Entered1(a, a.at, m, r2, m2)
  BY <1>4, <1>5, EnteringStep
<1>7. /\ Entering(a, a.at + 1, r2, m2) /\ Agree(m, m2, End(a))
      /\ r2 \in RegFile /\ m2 \in Memory
  BY <1>6 DEF Entered1
<1>8. CASE ~(b.at > Len(b.code))
  <2>1. Entering(b, b.at, r2, m2)
    BY <1>2, <1>7, SameBodyIs
  <2>2. TopInv(b, r2, m2)
    BY <1>2, <1>8, <2>1 DEF TopInv
  <2>. QED
    BY <1>7, <2>2 DEF Stepped
<1>9. CASE b.at > Len(b.code)
  <2>1. a.at + 1 \in Nat /\ a.at + 1 > AfterGP(f) + Len(Homed(f))
    BY <1>1, <1>2, <1>4, <1>9
  <2>2. InItsBody(a, r2, m2)
    BY <1>1, <1>7, <2>1, EnteringDone
  <2>3. InItsBody(b, r2, m2)
    BY <1>2, <2>2, SameBodyIs
  <2>4. TopInv(b, r2, m2)
    BY <1>2, <1>9, <2>3 DEF TopInv
  <2>. QED
    BY <1>7, <2>4 DEF Stepped
<1>. QED
  BY <1>8, <1>9

LEMMA GuardBelowEnd ==
  ASSUME NEW a \in ActType, Made(a), CallSite(a) \in RealCalls(Func(a))
  PROVE  Guard(a) \in Int /\ End(a) \in Int /\ Guard(a) <= End(a) /\ Guard(a) <= a.entry.sp
<1>1. /\ a.entry.sp \in Nat /\ Objects(Func(a)) \in Nat /\ IncomingArgSize(Func(a)) \in Nat
      /\ End(a) = a.entry.sp + IncomingArgSize(Func(a)) /\ End(a) \in Int
  BY ShapeOf DEF Shape
<1>2. Guard(a) \in Int /\ Guard(a) + 4 * Objects(Func(a)) <= a.entry.sp
  BY CallShapeOf DEF CallShape
<1>. QED
  BY <1>1, <1>2

LEMMA StepCall ==
  ASSUME NEW a, NEW r, NEW m, Stepping(a, r, m), a.phase = "call", NEW r2, NEW m2,
         Effect(a.code[a.at], r, m, r2, m2)
  PROVE  Stepped(a, m, r2, m2) /\ Agree(m, m2, Guard(a))
<1> DEFINE f == Func(a)
           b == Advanced(a)
<1>1. a \in ActType /\ Made(a) /\ a.at <= Len(a.code) /\ f \in Program /\ a.id \in Nat /\ a.at \in Nat
  BY ActOf DEF Stepping
<1>2. /\ SameBody(a, b) /\ b.phase = "call" /\ b.code = a.code /\ b.at = a.at + 1
      /\ a.at \in 1 .. Len(a.code)
  BY <1>1, AdvancedIs
<1>3. /\ CallSite(a) \in DOMAIN f.calls /\ CallSite(a) \in RealCalls(f)
      /\ a.code = CallCode(f, a.id, CallSite(a))
  BY <1>1, CallPlacedOf
<1>4. CallInstr(f, a.id, CallSite(a), a.at, a.code[a.at])
  BY <1>1, <1>2, <1>3, CallIs
<1>5. CallingAt(a, a.at, r, m)
  <2>1. ~(a.at > Len(a.code))
    BY <1>1, ActOf
  <2>. QED
    BY <1>1, <2>1 DEF CallingAt, Stepping, TopInv
<1>6. Called1(a, a.at, m, r2, m2)
  BY <1>4, <1>5, CallingStep
<1>7. /\ Calling(a, a.at + 1, r2, m2) /\ Agree(m, m2, Guard(a))
      /\ r2 \in RegFile /\ m2 \in Memory
  BY <1>6 DEF Called1
<1>8. Agree(m, m2, End(a))
  BY <1>1, <1>3, <1>7, GuardBelowEnd, AgreeAbove
<1>9. CASE ~(b.at > Len(b.code))
  <2>1. Calling(b, b.at, r2, m2)
    BY <1>2, <1>7, SameBodyIs
  <2>2. TopInv(b, r2, m2)
    BY <1>2, <1>9, <2>1 DEF TopInv
  <2>. QED
    BY <1>7, <1>8, <2>2 DEF Stepped
<1>10. CASE b.at > Len(b.code)
  <2>1. a.at + 1 \in Nat /\ a.at + 1 > Len(a.code)
    BY <1>1, <1>2, <1>10
  <2>2. InItsBody(a, r2, m2)
    BY <1>1, <1>7, <2>1, CallingDone
  <2>3. InItsBody(b, r2, m2)
    BY <1>2, <2>2, SameBodyIs
  <2>4. TopInv(b, r2, m2)
    BY <1>2, <1>10, <2>3 DEF TopInv
  <2>. QED
    BY <1>7, <1>8, <2>4 DEF Stepped
<1>. QED
  BY <1>7, <1>9, <1>10

LEMMA StepTail ==
  ASSUME NEW a, NEW r, NEW m, Stepping(a, r, m), a.phase = "tail", NEW r2, NEW m2,
         Effect(a.code[a.at], r, m, r2, m2)
  PROVE  Stepped(a, m, r2, m2)
<1> DEFINE f == Func(a)
           k == CallSite(a)
           b == Advanced(a)
<1>1. a \in ActType /\ Made(a) /\ a.at <= Len(a.code) /\ f \in Program /\ a.id \in Nat /\ a.at \in Nat
  BY ActOf DEF Stepping
<1>2. /\ SameBody(a, b) /\ b.phase = "tail" /\ b.code = a.code /\ b.at = a.at + 1
      /\ a.at \in 1 .. Len(a.code)
  BY <1>1, AdvancedIs
<1>3. k \in DOMAIN f.calls /\ a.code = TailCallCode(f, a.id, k)
  BY <1>1 DEF Made, Coded
<1>4. TailInstr(f, a.id, k, a.at, a.code[a.at]) /\ Len(a.code) = Turns(f, k) + AfterFree(f) + 1
  BY <1>1, <1>2, <1>3, TailIs
<1>5. TailingAt(a, a.at, r, m)
  BY <1>1 DEF TailingAt, Stepping, TopInv
<1>6. Tailed1(a, a.at, m, r2, m2)
  BY <1>4, <1>5, TailStep
<1>7. a.at < Len(a.code)
  <2>1. Turns(f, k) \in Nat /\ AfterFree(f) \in Nat
    BY <1>1, <1>3, TurnOf, EndsOf DEF Ends
  <2>2. a.code[a.at] # Jump(k)
    BY EffectIs
  <2>3. a.at \in 1 .. Turns(f, k) \/ \E q \in 1 .. AfterFree(f) : a.at = Turns(f, k) + q
    BY <1>4, <2>2 DEF TailInstr
  <2>. QED
    BY <1>4, <2>1, <2>3
<1>8. ~(b.at > Len(b.code))
  BY <1>1, <1>2, <1>7
<1>9. /\ TailCalling(a, a.at + 1, r2, m2) /\ Agree(m, m2, End(a))
      /\ r2 \in RegFile /\ m2 \in Memory
  BY <1>6 DEF Tailed1
<1>10. TailCalling(b, b.at, r2, m2)
  BY <1>2, <1>9, SameBodyIs
<1>11. TopInv(b, r2, m2)
  BY <1>2, <1>8, <1>10 DEF TopInv
<1>. QED
  BY <1>9, <1>11 DEF Stepped

LEMMA StepLeave ==
  ASSUME NEW a, NEW r, NEW m, Stepping(a, r, m), a.phase = "leave", NEW r2, NEW m2,
         Effect(a.code[a.at], r, m, r2, m2)
  PROVE  Stepped(a, m, r2, m2)
<1> DEFINE f == Func(a)
           b == Advanced(a)
<1>1. a \in ActType /\ Made(a) /\ a.at <= Len(a.code) /\ f \in Program /\ a.at \in Nat
      /\ r \in RegFile /\ m \in Memory
  BY ActOf DEF Stepping
<1>2. /\ SameBody(a, b) /\ b.phase = "leave" /\ b.code = a.code /\ b.at = a.at + 1
      /\ a.at \in 1 .. Len(a.code)
  BY <1>1, AdvancedIs
<1>3. a.code = LeaveCode(f)
  BY <1>1 DEF Made, Coded
<1>4. LeaveInstr(f, a.at, a.code[a.at]) /\ Len(a.code) = AfterFree(f) + 1
  BY <1>1, <1>2, <1>3, LeaveIs
<1>5. a.at \in 1 .. AfterFree(f) /\ EpilogueInstr(f, a.at, a.code[a.at])
  <2>1. a.code[a.at] # Ret
    BY EffectIs
  <2>. QED
    BY <1>4, <2>1 DEF LeaveInstr
<1>6. LeavingAt(a, a.at, r, m, SavedSet)
  <2>1. Leaving(a, a.at, r, m, SavedSet)
    BY DEF Stepping, TopInv
  <2>. QED
    BY <1>1, <2>1 DEF LeavingAt
<1>7. Left1(a, a.at, r, m, SavedSet, r2, m2)
  BY <1>5, <1>6, LeavingStep
<1>8. m2 = m /\ Leaving(a, a.at + 1, r2, m, SavedSet) /\ r2 \in RegFile
  BY <1>7 DEF Left1
<1>9. ~(b.at > Len(b.code))
  <2>1. AfterFree(f) \in Nat
    BY <1>1, EndsOf DEF Ends
  <2>. QED
    BY <1>2, <1>4, <1>5, <2>1
<1>10. Leaving(b, b.at, r2, m2, SavedSet)
  <2>1. SameFrame(a, b)
    BY <1>2 DEF SameBody
  <2>. QED
    BY <1>2, <1>8, <2>1, SameFrameIs
<1>11. TopInv(b, r2, m2)
  BY <1>2, <1>9, <1>10 DEF TopInv
<1>. QED
  BY <1>1, <1>8, <1>11 DEF Stepped, Agree

LEMMA StepThrow ==
  ASSUME NEW a, NEW r, NEW m, Stepping(a, r, m), a.phase = "throw", NEW r2, NEW m2,
         Effect(a.code[a.at], r, m, r2, m2)
  PROVE  Stepped(a, m, r2, m2)
<1> DEFINE f == Func(a)
           b == Advanced(a)
<1>1. a \in ActType /\ Made(a) /\ a.at <= Len(a.code) /\ f \in Program /\ a.at \in Nat
      /\ r \in RegFile /\ m \in Memory
  BY ActOf DEF Stepping
<1>2. /\ SameBody(a, b) /\ b.phase = "throw" /\ b.code = a.code /\ b.at = a.at + 1
      /\ a.at \in 1 .. Len(a.code)
  BY <1>1, AdvancedIs
<1>3. a.code = EhReturnCode(f)
  BY <1>1 DEF Made, Coded
<1>4. ThrowInstr(f, a.at, a.code[a.at]) /\ Len(a.code) = AfterFree(f) + 3
  BY <1>1, <1>2, <1>3, ThrowIs
<1>5. ThrowingAt(a, a.at, r, m)
  BY <1>1 DEF ThrowingAt, Stepping, TopInv
<1>6. Thrown1(a, a.at, m, r2, m2)
  BY <1>4, <1>5, ThrowStep
<1>7. m2 = m /\ Throwing(a, a.at + 1, r2, m2) /\ r2 \in RegFile
  BY <1>6 DEF Thrown1
<1>8. ~(b.at > Len(b.code))
  <2>1. PICK z \in Nat : z = AfterFree(f)
    BY <1>1, EndsOf DEF Ends
  <2>2. a.code[a.at] # Ret
    BY EffectIs
  <2>3. a.at \in 1 .. z \/ a.at = z + 1 \/ a.at = z + 2
    BY <1>4, <2>1, <2>2 DEF ThrowInstr
  <2>. QED
    BY <1>2, <1>4, <2>1, <2>3
<1>9. Throwing(b, b.at, r2, m2)
  BY <1>2, <1>7, SameBodyIs
<1>10. TopInv(b, r2, m2)
  BY <1>2, <1>8, <1>9 DEF TopInv
<1>. QED
  BY <1>1, <1>7, <1>10 DEF Stepped, Agree

\* Whatever the activation is executing.
LEMMA StepTop ==
  ASSUME NEW a, NEW r, NEW m, Stepping(a, r, m), NEW r2, NEW m2,
         Effect(a.code[a.at], r, m, r2, m2)
  PROVE  Stepped(a, m, r2, m2)
<1>1. a.phase \in {"enter", "call", "tail", "leave", "throw"}
  BY DEF Stepping, ActType
<1>. QED
  BY <1>1, StepEnter, StepCall, StepTail, StepLeave, StepThrow

-----------------------------------------------------------------------------
(***************************************************************************)
(* The stack pointer, and memory below it.                                 *)
(***************************************************************************)
LEMMA LeavingSP ==
  ASSUME NEW a \in ActType, NEW q, NEW r, NEW m, NEW X, Leaving(a, q, r, m, X)
  PROVE  r.sp = BodySP(a) \/ r.sp = Bottom(a) \/ r.sp = a.entry.sp
BY DEF Leaving

ThrownSP(a, r) ==
  r.sp = a.entry.sp + r.v1 /\ r.v1 \in {0, 8} /\ r.v1 <= IncomingArgSize(Func(a))

LEMMA TopSPs ==
  ASSUME NEW a \in ActType, NEW r, NEW m, TopInv(a, r, m)
  PROVE  \/ r.sp = BodySP(a) \/ r.sp = Bottom(a) \/ r.sp = a.entry.sp
         \/ a.phase = "call" /\ r.sp = CallSP(a)
         \/ ThrownSP(a, r)
<1>1. a.phase \in {"enter", "call", "tail", "leave", "throw"} /\ a.at \in Nat
  BY DEF ActType
<1>2. CASE a.at > Len(a.code)
  BY <1>2 DEF TopInv, InItsBody
<1>3. CASE ~(a.at > Len(a.code)) /\ a.phase = "enter"
  BY <1>3 DEF TopInv, Entering, EnteringRegs
<1>4. CASE ~(a.at > Len(a.code)) /\ a.phase = "call"
  BY <1>4 DEF TopInv, Calling
<1>5. CASE a.phase = "tail"
  <2>1. \E q : Leaving(a, q, r, m, SavedSet)
    BY <1>5 DEF TopInv, TailCalling
  <2>. QED
    BY <2>1, LeavingSP
<1>6. CASE a.phase = "leave"
  <2>1. Leaving(a, a.at, r, m, SavedSet)
    BY <1>6 DEF TopInv
  <2>. QED
    BY <2>1, LeavingSP
<1>7. CASE a.phase = "throw"
  <2>1. Throwing(a, a.at, r, m)
    BY <1>7 DEF TopInv
  <2>2. PICK n \in Nat : n = AfterFree(Func(a))
    BY ActOf, EndsOf DEF Ends
  <2>3. a.at <= n + 1 \/ a.at = n + 2 \/ a.at > n + 2
    BY <1>1, <2>2
  <2>4. CASE a.at <= n + 1
    BY <2>1, <2>2, <2>4, LeavingSP DEF Throwing
  <2>5. CASE a.at = n + 2
    BY <2>1, <2>2, <2>5, LeavingSP DEF Throwing
  <2>6. CASE a.at > n + 2
    BY <2>1, <2>2, <2>6 DEF Throwing, ThrownSP
  <2>. QED
    BY <2>3, <2>4, <2>5, <2>6
<1>. QED
  BY <1>1, <1>2, <1>3, <1>4, <1>5, <1>6, <1>7

LEMMA TopSP ==
  ASSUME NEW a \in ActType, Made(a), NEW r, NEW m, TopInv(a, r, m)
  PROVE  r.sp \in Int /\ r.sp % 8 = 0 /\ r.sp <= End(a) /\ r.sp <= MemTop
<1>1. PICK e \in Nat, b \in Int, y \in Int, n \in Nat, d \in Int, t \in Nat :
        /\ e = a.entry.sp /\ b = Bottom(a) /\ y = BodySP(a) /\ n = IncomingArgSize(Func(a))
        /\ d = End(a) /\ t = MemTop /\ e % 8 = 0 /\ b % 8 = 0 /\ y % 8 = 0
        /\ b <= e /\ y <= b /\ d = e + n /\ d <= t
  <2>1. /\ a.entry.sp \in Nat /\ Bottom(a) \in Int /\ Objects(Func(a)) \in Nat /\ BodySP(a) \in Int
        /\ End(a) \in Int /\ IncomingArgSize(Func(a)) \in Nat
        /\ a.entry.sp % 8 = 0 /\ Bottom(a) % 8 = 0 /\ BodySP(a) % 8 = 0
        /\ Bottom(a) + 4 * Objects(Func(a)) <= a.entry.sp /\ BodySP(a) <= Bottom(a)
        /\ End(a) = a.entry.sp + IncomingArgSize(Func(a)) /\ End(a) <= MemTop
    BY ShapeOf DEF Shape
  <2>2. Bottom(a) <= a.entry.sp
    BY <2>1
  <2>. QED
    BY <2>1, <2>2, BoundsAssumption
<1>2. CASE r.sp = BodySP(a) \/ r.sp = Bottom(a) \/ r.sp = a.entry.sp
  <2>1. r.sp \in {e, b, y}
    BY <1>1, <1>2
  <2>2. e <= d /\ b <= d /\ y <= d /\ e <= t /\ b <= t /\ y <= t
    BY <1>1
  <2>. QED
    BY <1>1, <2>1, <2>2
<1>3. CASE a.phase = "call" /\ r.sp = CallSP(a)
  <2>1. CallSite(a) \in RealCalls(Func(a))
    BY <1>3, CallPlacedOf
  <2>2. CallSP(a) \in Int /\ CallSP(a) % 8 = 0 /\ CallSP(a) <= BodySP(a)
    BY <2>1, CallShapeOf DEF CallShape
  <2>3. CallSP(a) <= d /\ CallSP(a) <= t
    BY <1>1, <2>2
  <2>. QED
    BY <1>1, <1>3, <2>2, <2>3
<1>4. CASE ThrownSP(a, r)
  <2>1. r.sp = e + r.v1 /\ r.v1 \in {0, 8} /\ r.v1 <= n
    BY <1>1, <1>4 DEF ThrownSP
  <2>2. PICK v \in {0, 8} : r.sp = e + v /\ v <= n
    BY <2>1
  <2>3. CASE v = 0
    <3>1. r.sp = e
      BY <2>2, <2>3
    <3>2. e <= d /\ e <= t
      BY <1>1
    <3>. QED
      BY <1>1, <3>1, <3>2
  <2>4. CASE v = 8
    <3>1. (e + 8) % 8 = 0
      BY <1>1
    <3>2. e + 8 \in Int /\ e + 8 <= d /\ e + 8 <= t
      BY <1>1, <2>2, <2>4
    <3>. QED
      BY <1>1, <2>2, <2>4, <3>1, <3>2
  <2>. QED
    BY <2>3, <2>4
<1>. QED
  BY <1>2, <1>3, <1>4, TopSPs

LEMMA SavedStays ==
  ASSUME NEW a \in ActType, Made(a), NEW m, NEW m2, NEW L \in Int, L <= Bottom(a),
         Agree(m, m2, L), NEW n, SavedHeld(a, m, n)
  PROVE  SavedHeld(a, m2, n)
<1>1. SUFFICES ASSUME NEW k \in DOMAIN SavedRegs(Func(a)), k <= n
               PROVE  Holds(m2, a.entry.sp - 4 * k, a.entry[SavedRegs(Func(a))[k]])
  BY DEF SavedHeld
<1>2. Holds(m, a.entry.sp - 4 * k, a.entry[SavedRegs(Func(a))[k]])
  BY <1>1 DEF SavedHeld
<1>3. a.entry.sp - 4 * k >= L
  <2>1. k \in Nat /\ k <= Objects(Func(a)) /\ Objects(Func(a)) \in Nat
    BY ObjectsAt
  <2>2. a.entry.sp \in Nat /\ Bottom(a) \in Int /\ Bottom(a) + 4 * Objects(Func(a)) <= a.entry.sp
    BY ShapeOf DEF Shape
  <2>. QED
    BY <2>1, <2>2
<1>. QED
  BY <1>2, <1>3, HoldsStays

LEMMA LeavingStays ==
  ASSUME NEW a \in ActType, Made(a), NEW q \in Int, NEW r \in RegFile, NEW m, NEW m2, NEW X,
         Leaving(a, q, r, m, X), Agree(m, m2, r.sp)
  PROVE  Leaving(a, q, r, m2, X)
<1>1. PICK s \in Nat, t \in Nat, l \in Nat, z \in Nat : LeavePlaced(Func(a), s, t, l, z)
  BY ActOf, LeavePlacedOf
<1>2. /\ r.sp = IF q <= s THEN BodySP(a) ELSE IF q <= z THEN Bottom(a) ELSE a.entry.sp
      /\ q <= z => SavedHeld(a, m, Len(SavedRegs(Func(a))))
  BY <1>1, LeavingIs
<1>3. q <= z => SavedHeld(a, m2, Len(SavedRegs(Func(a))))
  <2>1. SUFFICES ASSUME q <= z PROVE SavedHeld(a, m2, Len(SavedRegs(Func(a))))
    OBVIOUS
  <2>2. BodySP(a) \in Int /\ Bottom(a) \in Int /\ BodySP(a) <= Bottom(a)
    BY ShapeOf DEF Shape
  <2>3. r.sp \in Int /\ r.sp <= Bottom(a)
    BY <1>2, <2>1, <2>2
  <2>. QED
    BY <1>2, <2>1, <2>3, SavedStays
<1>. QED
  BY <1>1, <1>3, LeavingIs

LEMMA WordsStay ==
  ASSUME NEW a \in ActType, CallSite(a) \in DOMAIN Func(a).calls, NEW r, NEW m, NEW m2,
         NEW base \in Int, Agree(m, m2, base), NEW n, WordsPlaced(a, r, m, base, n)
  PROVE  WordsPlaced(a, r, m2, base, n)
<1> DEFINE f == Func(a)
           k == CallSite(a)
<1>1. f \in Program
  BY ActOf
<1>2. ASSUME NEW j \in 1 .. Turns(f, k), TurnPlaced(a, r, m, base, j)
      PROVE  TurnPlaced(a, r, m2, base, j)
  <2>1. CASE SentWords(f, k)[Turn(f, k, j)].reg # -1
    BY <1>2, <2>1 DEF TurnPlaced, WordPlaced
  <2>2. CASE SentWords(f, k)[Turn(f, k, j)].reg = -1
    <3>1. SentWords(f, k)[Turn(f, k, j)].off \in Nat
      <4>1. SentWords(f, k)[Turn(f, k, j)].reg \notin {0, 1}
        BY <2>2
      <4>. QED
        BY <1>1, <4>1, TurnWord
    <3>2. Holds(m, base + SentWords(f, k)[Turn(f, k, j)].off, ArgVal(a.id, k, Turn(f, k, j)))
      BY <1>2, <2>2 DEF TurnPlaced, WordPlaced
    <3>3. base + SentWords(f, k)[Turn(f, k, j)].off >= base
      BY <3>1
    <3>4. Holds(m2, base + SentWords(f, k)[Turn(f, k, j)].off, ArgVal(a.id, k, Turn(f, k, j)))
      BY <3>2, <3>3, HoldsStays
    <3>. QED
      BY <2>2, <3>4 DEF TurnPlaced, WordPlaced
  <2>. QED
    BY <2>1, <2>2
<1>. QED
  BY <1>2, WordsPlacedIs

LEMMA ArgsStay ==
  ASSUME NEW a \in ActType, Made(a), NEW m, NEW m2, Agree(m, m2, a.entry.sp), ArgsHeld(a, m)
  PROVE  ArgsHeld(a, m2)
<1>1. SUFFICES ASSUME NEW i \in DOMAIN GotWords(a), GotWords(a)[i].reg = -1
               PROVE  Holds(m2, a.entry.sp + GotWords(a)[i].off, a.passed[i])
  BY DEF ArgsHeld
<1>2. Holds(m, a.entry.sp + GotWords(a)[i].off, a.passed[i])
  BY <1>1 DEF ArgsHeld
<1>3. Passes(a) /\ a.entry.sp \in Int
  BY ShapeOf DEF Made, Shape
<1>4. GotWords(a)[i].reg \notin {0, 1}
  BY <1>1
<1>5. GotWords(a)[i].off \in Nat
  BY <1>3, <1>4, GotWordsOf
<1>6. a.entry.sp + GotWords(a)[i].off >= a.entry.sp
  BY <1>3, <1>5
<1>. QED
  BY <1>2, <1>6, HoldsStays

LEMMA EnteringStays ==
  ASSUME NEW a, NEW p, NEW r, NEW m, EnterAt(a, p, r, m), NEW m2, Agree(m, m2, r.sp)
  PROVE  Entering(a, p, r, m2)
<1> DEFINE f == Func(a)
<1>1. /\ a \in ActType /\ Made(a) /\ p \in Nat
      /\ EnteringRegs(a, p, r) /\ EnteringStack(a, p, m) /\ Unused(a)
      /\ p > AfterAllocate(f) => r.sp = Bottom(a)
      /\ p <= AfterAllocate(f) => r.sp = a.entry.sp
      /\ f \in Program
  BY EnterRegs
<1>2. PICK x \in Nat, s \in Nat, g \in Nat :
        /\ x = AfterAllocate(f) /\ s = AfterSaves(f) /\ g = AfterGP(f) /\ x <= s /\ s <= g
  <2>1. Places(f) /\ Len(SavedRegs(f)) \in Nat /\ Len(EhRegs(f)) \in Nat
    BY <1>1, PlacesOf, RegsTyped
  <2>2. /\ AfterAllocate(f) \in Nat /\ AfterSaves(f) \in Nat /\ AfterEh(f) \in Nat
        /\ AfterFP(f) \in Nat /\ AfterGP(f) \in Nat
        /\ AfterSaves(f) = AfterAllocate(f) + Len(SavedRegs(f))
        /\ AfterEh(f) = AfterSaves(f) + Len(EhRegs(f))
    BY <2>1 DEF Places
  <2>3. AfterEh(f) <= AfterFP(f) /\ AfterFP(f) <= AfterGP(f)
    BY <2>1 DEF Places
  <2>4. AfterAllocate(f) <= AfterSaves(f) /\ AfterSaves(f) <= AfterGP(f)
    BY <2>1, <2>2, <2>3
  <2>. QED
    BY <2>2, <2>4
<1>3. CASE p > x
  <2>1. r.sp = Bottom(a) /\ BodySP(a) = Bottom(a) /\ Bottom(a) \in Int
    BY <1>1, <1>2, <1>3, ShapeOf DEF Unused, BodySP, Shape
  <2>2. Below(a, Bottom(a))
    BY <1>1, <2>1, BelowBody
  <2>3. EnteringStack(a, p, m2)
    <3>1. /\ \A n : SavedHeld(a, m, n) => SavedHeld(a, m2, n)
          /\ \A n : EhHeld(a, m, n) => EhHeld(a, m2, n)
          /\ \A n : HomesHeld(a, m, n) => HomesHeld(a, m2, n)
          /\ GPHeld(a, m) => GPHeld(a, m2)
          /\ ArgsHeld(a, m) => ArgsHeld(a, m2)
      BY <1>1, <2>1, <2>2, FrameStays
    <3>. QED
      BY <1>1, <3>1 DEF EnteringStack
  <2>. QED
    BY <1>1, <2>3 DEF Entering
<1>4. CASE p <= x
  <2>1. ArgsHeld(a, m2)
    BY <1>1, <1>2, <1>4, ArgsStay DEF EnteringStack
  <2>2. /\ p - 1 - x \in Int /\ p - 1 - x <= 0 /\ p - 1 - s \in Int /\ p - 1 - s <= 0
        /\ p - 1 - g \in Int /\ p - 1 - g <= 0 /\ ~(p > g)
    BY <1>1, <1>2, <1>4
  <2>3. SavedHeld(a, m2, p - 1 - x) /\ EhHeld(a, m2, p - 1 - s) /\ HomesHeld(a, m2, p - 1 - g)
    BY <1>1, <2>2, HeldRange
  <2>4. EnteringStack(a, p, m2)
    BY <1>2, <2>1, <2>2, <2>3 DEF EnteringStack
  <2>. QED
    BY <1>1, <2>4 DEF Entering
<1>. QED
  BY <1>1, <1>2, <1>3, <1>4

LEMMA CallingStays ==
  ASSUME NEW a, NEW p, NEW r, NEW m, CallingAt(a, p, r, m), NEW m2, Agree(m, m2, r.sp)
  PROVE  Calling(a, p, r, m2)
<1>1. PICK x \in Nat, q \in Nat, t \in Nat, n \in Nat : CallPlaced(a, x, q, t, n)
  BY CallPlacedOf DEF CallingAt
<1>2. /\ a \in ActType /\ Made(a) /\ CallShape(a) /\ p \in Nat /\ r \in RegFile
      /\ CallSite(a) \in DOMAIN Func(a).calls
      /\ FrameHeld(a, m)
      /\ (p <= x => r.sp = BodySP(a)) /\ (p > x => r.sp = CallSP(a))
      /\ (p <= q => WordsPlaced(a, r, m, CallSP(a), p - 1 - x))
  BY <1>1, CallRegs
<1>3. r.sp \in Int /\ r.sp <= BodySP(a) /\ CallSP(a) \in Int
  <2>1. CallSP(a) \in Int /\ CallSP(a) <= BodySP(a)
    BY <1>2 DEF CallShape
  <2>2. BodySP(a) \in Int
    BY <1>2, ShapeOf DEF Shape
  <2>. QED
    BY <1>2, <2>1, <2>2
<1>4. FrameHeld(a, m2)
  BY <1>2, <1>3, BelowBody, FrameStays
<1>5. p <= q => WordsPlaced(a, r, m2, CallSP(a), p - 1 - x)
  <2>1. SUFFICES ASSUME p <= q PROVE WordsPlaced(a, r, m2, CallSP(a), p - 1 - x)
    OBVIOUS
  <2>2. CASE p <= x
    <3>1. p - 1 - x \in Int /\ p - 1 - x <= 0
      BY <1>2, <2>2
    <3>. QED
      BY <1>2, <3>1, WordsPlacedIs
  <2>3. CASE p > x
    BY <1>2, <1>3, <2>1, <2>3, WordsStay
  <2>. QED
    BY <1>2, <2>2, <2>3
<1>6. x = AfterAdjust(Func(a)) /\ q = CallAt(Func(a), CallSite(a))
  BY <1>1 DEF CallPlaced
<1>7. Calling(a, p, r, m)
  BY DEF CallingAt
<1>. QED
  BY <1>4, <1>5, <1>6, <1>7 DEF Calling

\* An interrupt does not disturb the running activation.
LEMMA TopStays ==
  ASSUME NEW a \in ActType, Made(a), Handled, NEW r \in RegFile, r.sp >= 0, NEW m \in Memory,
         TopInv(a, r, m), NEW m2, Agree(m, m2, r.sp)
  PROVE  TopInv(a, r, m2)
<1>1. a.phase \in {"enter", "call", "tail", "leave", "throw"} /\ a.at \in Nat /\ Len(a.code) \in Nat
  BY ActOf DEF ActType
<1>2. CASE a.at > Len(a.code)
  <2>1. a.phase \in {"enter", "call"} /\ InItsBody(a, r, m)
    BY <1>2 DEF TopInv
  <2>2. r.sp = BodySP(a) /\ FrameHeld(a, m) /\ BodySP(a) \in Int
    BY <2>1, ShapeOf DEF InItsBody, Shape
  <2>3. FrameHeld(a, m2)
    BY <2>2, BelowBody, FrameStays
  <2>4. InItsBody(a, r, m2)
    BY <2>1, <2>3 DEF InItsBody
  <2>. QED
    BY <1>2, <2>1, <2>4 DEF TopInv
<1>3. CASE ~(a.at > Len(a.code)) /\ a.phase = "enter"
  <2>1. EnterAt(a, a.at, r, m)
    BY <1>1, <1>3 DEF EnterAt, TopInv
  <2>2. Entering(a, a.at, r, m2)
    BY <2>1, EnteringStays
  <2>. QED
    BY <1>3, <2>2 DEF TopInv
<1>4. CASE ~(a.at > Len(a.code)) /\ a.phase = "call"
  <2>1. a.at <= Len(a.code)
    BY <1>1, <1>4
  <2>2. CallingAt(a, a.at, r, m)
    BY <1>1, <1>4, <2>1 DEF CallingAt, TopInv
  <2>3. Calling(a, a.at, r, m2)
    BY <2>2, CallingStays
  <2>. QED
    BY <1>4, <2>3 DEF TopInv
<1>5. CASE ~(a.at > Len(a.code)) /\ a.phase = "tail"
  <2>1. TailingAt(a, a.at, r, m)
    BY <1>1, <1>5 DEF TailingAt, TopInv
  <2>2. PICK n \in Nat : n = Turns(Func(a), CallSite(a))
    BY <2>1, TailRegs
  <2>3. /\ Leaving(a, a.at - n, r, m, SavedSet) /\ WordsPlaced(a, r, m, a.entry.sp, a.at - 1)
        /\ CallSite(a) \in DOMAIN Func(a).calls
    BY <2>1, <2>2, TailRegs
  <2>4. Leaving(a, a.at - n, r, m2, SavedSet)
    <3>1. a.at - n \in Int
      BY <1>1
    <3>. QED
      BY <2>3, <3>1, LeavingStays
  <2>5. Agree(m, m2, a.entry.sp) /\ a.entry.sp \in Int
    <3>1. /\ a.entry.sp \in Nat /\ Bottom(a) \in Int /\ BodySP(a) \in Int
          /\ BodySP(a) <= Bottom(a) /\ Bottom(a) + 4 * Objects(Func(a)) <= a.entry.sp
          /\ Objects(Func(a)) \in Nat
      BY ShapeOf DEF Shape
    <3>2. r.sp = BodySP(a) \/ r.sp = Bottom(a) \/ r.sp = a.entry.sp
      BY <2>3, LeavingSP
    <3>3. r.sp \in Int /\ r.sp <= a.entry.sp
      BY <3>1, <3>2
    <3>. QED
      BY <3>1, <3>3, AgreeAbove
  <2>6. WordsPlaced(a, r, m2, a.entry.sp, a.at - 1)
    BY <2>3, <2>5, WordsStay
  <2>7. TailCalling(a, a.at, r, m2)
    BY <2>2, <2>4, <2>6, TailCallingIs
  <2>. QED
    BY <1>5, <2>7 DEF TopInv
<1>6. CASE ~(a.at > Len(a.code)) /\ a.phase = "leave"
  <2>1. Leaving(a, a.at, r, m, SavedSet)
    BY <1>6 DEF TopInv
  <2>2. Leaving(a, a.at, r, m2, SavedSet)
    BY <1>1, <2>1, LeavingStays
  <2>. QED
    BY <1>6, <2>2 DEF TopInv
<1>7. CASE ~(a.at > Len(a.code)) /\ a.phase = "throw"
  <2>1. Throwing(a, a.at, r, m)
    BY <1>7 DEF TopInv
  <2>2. a.at \in Int
    BY <1>1
  <2>3. \A X : Leaving(a, a.at, r, m, X) => Leaving(a, a.at, r, m2, X)
    BY <2>2, LeavingStays
  <2>4. Throwing(a, a.at, r, m2)
    BY <2>1, <2>3 DEF Throwing
  <2>. QED
    BY <1>7, <2>4 DEF TopInv
<1>. QED
  BY <1>1, <1>2, <1>3, <1>4, <1>5, <1>6, <1>7

-----------------------------------------------------------------------------
(***************************************************************************)
(* An activation that waits for its callee, and the stack of activations.  *)
(***************************************************************************)
SameKept(r, r2) == r2.sp = r.sp /\ \A x \in KeptRegs : r2[x] = r[x]

LEMMA WaitingIs ==
  ASSUME NEW a \in ActType, Made(a), a.phase = "call", a.at = CallAt(Func(a), CallSite(a)) + 1,
         NEW r, NEW m
  PROVE  /\ Calling(a, a.at, r, m)
              <=> r.sp = CallSP(a) /\ OwnFP(a, r) /\ Unsaved(a, r, SavedSet) /\ FrameHeld(a, m)
         /\ CallSite(a) \in RealCalls(Func(a))
<1>1. PICK x \in Nat, q \in Nat, t \in Nat, n \in Nat : CallPlaced(a, x, q, t, n)
  BY CallPlacedOf
<1>2. /\ x = AfterAdjust(Func(a)) /\ q = CallAt(Func(a), CallSite(a)) /\ t = Len(a.code)
      /\ q = x + n + 1 /\ (HasReservedCallFrame(Func(a)) => x = 0)
      /\ (~HasReservedCallFrame(Func(a)) => x = 1)
  BY <1>1 DEF CallPlaced
<1>3. Func(a).pic => t = q + 1 + x
  BY <1>1 DEF CallPlaced
<1>4. ~Func(a).pic => t = q + x
  BY <1>1 DEF CallPlaced
<1>5. a.at = q + 1 /\ ~(a.at <= x) /\ ~(a.at <= q)
  BY <1>2
<1>6. CallSite(a) \in RealCalls(Func(a))
  BY CallPlacedOf
<1>7. (a.at <= x \/ a.at > Len(a.code)) => BodySP(a) = CallSP(a)
  <2>1. SUFFICES ASSUME a.at > t PROVE BodySP(a) = CallSP(a)
    BY <1>2, <1>5
  <2>2. x = 0
    BY <1>3, <1>4, <1>5, <2>1
  <2>3. HasReservedCallFrame(Func(a))
    BY <1>2, <2>2
  <2>4. /\ CallSP(a) = BodySP(a) - IF HasReservedCallFrame(Func(a)) THEN 0
                                    ELSE CallFrame(Func(a), CallSite(a))
        /\ BodySP(a) \in Int
    BY <1>6, CallShapeOf, ShapeOf DEF CallShape, Shape
  <2>. QED
    BY <2>3, <2>4
<1>8. (IF a.at <= x \/ a.at > Len(a.code) THEN BodySP(a) ELSE CallSP(a)) = CallSP(a)
  BY <1>7
<1>. QED
  BY <1>2, <1>5, <1>6, <1>8 DEF Calling

LEMMA UnsavedKept ==
  ASSUME NEW a \in ActType, CallSite(a) \in RealCalls(Func(a)), NEW r, NEW r2, SameKept(r, r2),
         Unsaved(a, r, SavedSet)
  PROVE  Unsaved(a, r2, SavedSet)
<1>1. "lr" \in ToSet(SavedRegs(Func(a)))
  BY ActOf, SavedOf DEF SavedFacts
<1>. QED
  BY <1>1 DEF Unsaved, SavedSet, SameKept

LEMMA WaitingStays ==
  ASSUME NEW a \in ActType, Made(a), Handled, NEW r, NEW r2, SameKept(r, r2),
         NEW m, NEW m2, Agree(m, m2, Guard(a)), Waiting(a, r, m)
  PROVE  Waiting(a, r2, m2)
<1>1. a.phase = "call" /\ a.at = CallAt(Func(a), CallSite(a)) + 1 /\ Calling(a, a.at, r, m)
  BY DEF Waiting
<1>2. /\ r.sp = CallSP(a) /\ OwnFP(a, r) /\ Unsaved(a, r, SavedSet) /\ FrameHeld(a, m)
      /\ CallSite(a) \in RealCalls(Func(a))
  BY <1>1, WaitingIs
<1>3. FrameHeld(a, m2)
  BY <1>2, BelowGuard, FrameStays
<1>4. Unsaved(a, r2, SavedSet)
  BY <1>2, UnsavedKept
<1>5. r2.sp = CallSP(a) /\ OwnFP(a, r2)
  BY <1>2 DEF SameKept, OwnFP, KeptRegs
<1>6. Calling(a, a.at, r2, m2)
  BY <1>1, <1>3, <1>4, <1>5, WaitingIs
<1>. QED
  BY <1>1, <1>6 DEF Waiting

\* It goes on when its callee returns.
LEMMA WaitingTop ==
  ASSUME NEW a \in ActType, Made(a), NEW r, NEW m, Waiting(a, r, m)
  PROVE  TopInv(a, r, m)
<1>1. a.phase = "call" /\ Calling(a, a.at, r, m) /\ a.at \in Nat
  BY ActOf DEF Waiting
<1>2. CASE a.at > Len(a.code)
  <2>1. InItsBody(a, r, m)
    BY <1>1, <1>2, CallingDone
  <2>. QED
    BY <1>1, <1>2, <2>1 DEF TopInv
<1>3. CASE ~(a.at > Len(a.code))
  BY <1>1, <1>3 DEF TopInv
<1>. QED
  BY <1>2, <1>3

LEMMA StackedIs ==
  ASSUME NEW s \in Seq(ActType), NEW m
  PROVE  /\ Stacked(s, m) <=>
              /\ \A d \in 1 .. Len(s) : Made(s[d])
              /\ \A d \in 1 .. Len(s) : d < Len(s) => Waiting(s[d], s[d + 1].entry, m)
              /\ \A c, d \in 1 .. Len(s) : c < d => End(s[d]) <= Guard(s[c])
         /\ \A d \in 1 .. Len(s) : s[d] \in ActType
         /\ Len(s) \in Nat
<1>1. DOMAIN s = 1 .. Len(s)
  BY SMTT(60)
<1>. QED
  BY <1>1 DEF Stacked

LEMMA StackedTop ==
  ASSUME NEW s \in Seq(ActType), Len(s) # 0, Handled, NEW m, NEW m2, Stacked(s, m),
         NEW b \in ActType, Made(b), SameKept(s[Len(s)].entry, b.entry),
         End(b) <= End(s[Len(s)]), Agree(m, m2, End(s[Len(s)]))
  PROVE  Stacked([s EXCEPT ![Len(s)] = b], m2)
<1> DEFINE n == Len(s)
           t == [s EXCEPT ![n] = b]
<1>1. /\ n \in Nat /\ n # 0 /\ DOMAIN s = 1 .. n /\ DOMAIN t = 1 .. n /\ Len(t) = n /\ t[n] = b
      /\ n \in DOMAIN s /\ \A d \in 1 .. n : d # n => t[d] = s[d]
  OBVIOUS
<1>2. /\ \A d \in 1 .. n : s[d] \in ActType /\ Made(s[d])
      /\ \A d \in 1 .. n : d < n => Waiting(s[d], s[d + 1].entry, m)
      /\ \A c, d \in 1 .. n : c < d => End(s[d]) <= Guard(s[c])
  BY StackedIs DEF n
<1>. HIDE DEF n, t
<1>3. \A d \in 1 .. n : Made(t[d])
  BY <1>1, <1>2
<1>4. ASSUME NEW c \in 1 .. n, c < n PROVE CallSite(s[c]) \in RealCalls(Func(s[c]))
  <2>1. Waiting(s[c], s[c + 1].entry, m)
    BY <1>2, <1>4
  <2>2. s[c].phase = "call" /\ s[c].at = CallAt(Func(s[c]), CallSite(s[c])) + 1
    BY <2>1 DEF Waiting
  <2>. QED
    BY <1>2, <2>2, WaitingIs
<1>5. ASSUME NEW c \in 1 .. n, c < n PROVE Guard(s[c]) \in Int /\ End(s[n]) <= Guard(s[c])
  BY <1>1, <1>2, <1>4, <1>5, GuardBelowEnd
<1>6. End(s[n]) \in Int /\ End(b) \in Int
  BY <1>1, <1>2, ShapeOf DEF Shape
<1>7. ASSUME NEW d \in 1 .. n, d < n PROVE Waiting(t[d], t[d + 1].entry, m2)
  <2>1. t[d] = s[d]
    BY <1>1, <1>7
  <2>2. d + 1 \in 1 .. n
    BY <1>1, <1>7
  <2>3. SameKept(s[d + 1].entry, t[d + 1].entry)
    <3>1. PICK e \in 1 .. n : e = d + 1
      BY <2>2
    <3>2. SameKept(s[e].entry, t[e].entry)
      <4>1. e = n => SameKept(s[e].entry, t[e].entry)
        BY Zenon, <1>1 DEF n
      <4>2. e # n => SameKept(s[e].entry, t[e].entry)
        BY <1>1 DEF SameKept
      <4>. QED
        BY ONLY <4>1, <4>2
    <3>. QED
      BY ONLY <3>1, <3>2
  <2>4. Agree(m, m2, Guard(s[d]))
    BY <1>5, <1>6, <1>7, AgreeAbove DEF n
  <2>. QED
    BY <1>2, <1>7, <2>1, <2>3, <2>4, WaitingStays
<1>8. ASSUME NEW c \in 1 .. n, NEW d \in 1 .. n, c < d PROVE End(t[d]) <= Guard(t[c])
  <2>1. c < n /\ t[c] = s[c]
    BY <1>1, <1>8
  <2>2. CASE d = n
    <3>1. t[d] = b /\ Guard(s[c]) \in Int /\ End(s[n]) <= Guard(s[c])
      BY <1>1, <1>5, <2>1, <2>2
    <3>2. End(b) <= End(s[n])
      BY DEF n
    <3>. QED
      BY <1>6, <2>1, <3>1, <3>2
  <2>3. CASE d # n
    BY <1>1, <1>2, <1>8, <2>1, <2>3
  <2>. QED
    BY <2>2, <2>3
<1>. QED
  BY ZenonT(60), <1>1, <1>3, <1>7, <1>8 DEF Stacked, t, n

LEMMA StackedPush ==
  ASSUME NEW s \in Seq(ActType), Len(s) # 0, NEW m, Stacked(s, m),
         NEW b \in ActType, Made(b), Waiting(s[Len(s)], b.entry, m), End(b) <= Guard(s[Len(s)])
  PROVE  Stacked(Append(s, b), m)
<1> DEFINE n == Len(s)
           t == Append(s, b)
<1>1. /\ n \in Nat /\ n # 0 /\ DOMAIN s = 1 .. n /\ DOMAIN t = 1 .. n + 1 /\ Len(t) = n + 1
      /\ t[n + 1] = b /\ n \in 1 .. n /\ \A d \in 1 .. n : t[d] = s[d]
  OBVIOUS
<1>2. /\ \A d \in 1 .. n : s[d] \in ActType /\ Made(s[d])
      /\ \A d \in 1 .. n : d < n => Waiting(s[d], s[d + 1].entry, m)
      /\ \A c, d \in 1 .. n : c < d => End(s[d]) <= Guard(s[c])
  BY <1>1 DEF Stacked
<1>3. Waiting(s[n], b.entry, m) /\ End(b) <= Guard(s[n])
  OBVIOUS
<1>. HIDE DEF n, t
<1>4. \A d \in 1 .. n + 1 : Made(t[d])
  <2>1. ASSUME NEW d \in 1 .. n + 1 PROVE d = n + 1 \/ d \in 1 .. n
    BY <1>1
  <2>. QED
    BY <1>1, <1>2, <2>1
<1>5. ASSUME NEW d \in 1 .. n + 1, d < n + 1 PROVE Waiting(t[d], t[d + 1].entry, m)
  <2>1. d \in 1 .. n /\ d + 1 \in 1 .. n + 1 /\ (d = n \/ (d < n /\ d + 1 \in 1 .. n))
    BY <1>1, <1>5
  <2>2. CASE d = n
    BY <1>1, <1>3, <2>1, <2>2
  <2>3. CASE d < n /\ d + 1 \in 1 .. n
    BY <1>1, <1>2, <2>1, <2>3
  <2>. QED
    BY <2>1, <2>2, <2>3
<1>6. ASSUME NEW c \in 1 .. n PROVE Guard(s[c]) \in Int /\ Guard(s[c]) <= End(s[c]) /\ End(s[c]) \in Int
  <2>1. \E r : Waiting(s[c], r, m)
    <3>1. c = n \/ c < n
      BY <1>1
    <3>. QED
      BY <1>2, <1>3, <3>1
  <2>2. s[c].phase = "call" /\ s[c].at = CallAt(Func(s[c]), CallSite(s[c])) + 1
    BY <2>1 DEF Waiting
  <2>3. CallSite(s[c]) \in RealCalls(Func(s[c]))
    BY <1>2, <2>2, WaitingIs
  <2>. QED
    BY <1>2, <2>3, GuardBelowEnd
<1>7. ASSUME NEW c \in 1 .. n + 1, NEW d \in 1 .. n + 1, c < d PROVE End(t[d]) <= Guard(t[c])
  <2>1. c \in 1 .. n /\ t[c] = s[c] /\ (c = n \/ c < n)
    BY <1>1, <1>7
  <2>2. CASE d = n + 1
    <3>1. End(b) \in Int
      BY ShapeOf DEF Shape
    <3>2. CASE c = n
      BY <1>1, <1>3, <2>1, <2>2, <3>2
    <3>3. CASE c < n
      <4>1. End(s[n]) <= Guard(s[c])
        BY <1>1, <1>2, <2>1, <3>3
      <4>2. Guard(s[n]) \in Int /\ Guard(s[n]) <= End(s[n]) /\ End(s[n]) \in Int /\ Guard(s[c]) \in Int
        BY <1>1, <1>6, <2>1
      <4>3. End(b) <= Guard(s[c])
        BY <1>3, <3>1, <4>1, <4>2
      <4>. QED
        BY <1>1, <2>1, <2>2, <4>3
    <3>. QED
      BY <2>1, <3>2, <3>3
  <2>3. CASE d # n + 1
    <3>1. d \in 1 .. n
      BY <1>1, <2>3
    <3>. QED
      BY <1>1, <1>2, <1>7, <2>1, <3>1
  <2>. QED
    BY <2>2, <2>3
<1>. QED
  BY <1>1, <1>4, <1>5, <1>7 DEF Stacked, t

LEMMA FrontIs ==
  ASSUME NEW s \in Seq(ActType), Len(s) # 0
  PROVE  /\ Front(s) \in Seq(ActType) /\ Len(Front(s)) = Len(s) - 1
         /\ \A d \in 1 .. Len(s) - 1 : Front(s)[d] = s[d]
<1>1. PICK n \in Nat : n = Len(s) - 1
  OBVIOUS
<1>2. Front(s) = SubSeq(s, 1, n)
  BY <1>1 DEF Front
<1>3. \A i \in 1 .. n : s[i] \in ActType
  BY <1>1
<1>4. /\ SubSeq(s, 1, n) \in Seq(ActType)
      /\ Len(SubSeq(s, 1, n)) = IF 1 <= n THEN n - 1 + 1 ELSE 0
      /\ \A i \in 1 .. n - 1 + 1 : SubSeq(s, 1, n)[i] = s[1 + i - 1]
  BY <1>3, SubSeqProperties
<1>5. Len(SubSeq(s, 1, n)) = n
  BY <1>4
<1>6. ASSUME NEW i \in 1 .. n PROVE SubSeq(s, 1, n)[i] = s[i]
  <2>1. i \in 1 .. n - 1 + 1 /\ 1 + i - 1 = i
    OBVIOUS
  <2>. QED
    BY <1>4, <2>1
<1>. QED
  BY <1>1, <1>2, <1>4, <1>5, <1>6

LEMMA StackedPop ==
  ASSUME NEW s \in Seq(ActType), Len(s) # 0, NEW m, Stacked(s, m)
  PROVE  Stacked(Front(s), m)
<1>1. PICK n \in Nat : n = Len(s) - 1
  OBVIOUS
<1>2. PICK t \in Seq(ActType) : t = Front(s) /\ Len(t) = n /\ \A d \in 1 .. n : t[d] = s[d]
  BY <1>1, FrontIs
<1>3. DOMAIN t = 1 .. n /\ DOMAIN s = 1 .. n + 1 /\ Len(s) = n + 1
  BY <1>1, <1>2
<1>4. \A d \in 1 .. n : d < n => d + 1 \in 1 .. n /\ d \in 1 .. n + 1 /\ d < n + 1
  OBVIOUS
<1>5. /\ \A d \in 1 .. n + 1 : Made(s[d])
      /\ \A d \in 1 .. n + 1 : d < n + 1 => Waiting(s[d], s[d + 1].entry, m)
      /\ \A c, d \in 1 .. n + 1 : c < d => End(s[d]) <= Guard(s[c])
  BY <1>3 DEF Stacked
<1>6. \A d \in 1 .. n : d \in 1 .. n + 1
  OBVIOUS
<1>7. \A d \in 1 .. n : Made(t[d])
  BY <1>2, <1>5, <1>6
<1>8. \A d \in 1 .. n : d < n => Waiting(t[d], t[d + 1].entry, m)
  BY <1>2, <1>4, <1>5
<1>9. \A c, d \in 1 .. n : c < d => End(t[d]) <= Guard(t[c])
  BY <1>2, <1>5, <1>6
<1>. QED
  BY <1>2, <1>3, <1>7, <1>8, <1>9 DEF Stacked

-----------------------------------------------------------------------------
(***************************************************************************)
(* Where in its code an activation calls, jumps or returns.                *)
(***************************************************************************)
LEMMA OpsAre ==
  /\ \A n : AddSP(n).op = "addsp"
  /\ \A x, s : St(x, s).op = "st" /\ Ld(x, s).op = "ld"
  /\ \A v, s : StV(v, s).op = "stv" /\ \A x : Li(x, v).op = "li"
  /\ \A x, y : Copy(x, y).op = "copy"
  /\ \A k : Call(k).op = "call" /\ Jump(k).op = "jump"
  /\ \A k : Call(k).site = k /\ Jump(k).site = k
  /\ AddSPV1.op = "addspv1" /\ Ret.op = "ret"
BY DEF AddSP, St, Ld, StV, Li, Copy, Call, Jump, AddSPV1, Ret

Leaves == {"call", "jump", "ret"}

LEMMA StraightLine ==
  /\ \A f, d, p, i : EnterInstr(f, d, p, i) => i.op \notin Leaves
  /\ \A f, d, k, area, j, i : PassInstr(f, d, k, area, j, i) => i.op \notin Leaves
  /\ \A f, q, i : EpilogueInstr(f, q, i) => i.op \notin Leaves
<1>1. /\ \A n : AddSP(n).op \notin Leaves
      /\ \A x, s : St(x, s).op \notin Leaves /\ Ld(x, s).op \notin Leaves
      /\ \A v, s : StV(v, s).op \notin Leaves /\ \A x : Li(x, v).op \notin Leaves
      /\ \A x, y : Copy(x, y).op \notin Leaves
  BY OpsAre DEF Leaves
<1>2. ASSUME NEW f, NEW d, NEW p, NEW i, EnterInstr(f, d, p, i) PROVE i.op \notin Leaves
  BY <1>1, <1>2 DEF EnterInstr
<1>3. ASSUME NEW f, NEW d, NEW k, NEW area, NEW j, NEW i, PassInstr(f, d, k, area, j, i)
      PROVE  i.op \notin Leaves
  BY <1>1, <1>3 DEF PassInstr, PassWord
<1>4. ASSUME NEW f, NEW q, NEW i, EpilogueInstr(f, q, i) PROVE i.op \notin Leaves
  BY <1>1, <1>4 DEF EpilogueInstr
<1>. QED
  BY <1>2, <1>3, <1>4

\* What the next instruction of the activation is, when it leaves the straight
\* line.
LeavesAt(a) ==
  LET f == Func(a)
      k == CallSite(a)
      i == a.code[a.at]
  IN  \/ /\ a.phase = "call" /\ i.op = "call" /\ i.site = k
         /\ k \in RealCalls(f) /\ k \in DOMAIN f.calls /\ a.at = CallAt(f, k)
      \/ /\ a.phase = "tail" /\ i.op = "jump" /\ i.site = k
         /\ k \in DOMAIN f.calls /\ IsTail(f, k) /\ a.at = Turns(f, k) + AfterFree(f) + 1
      \/ a.phase = "leave" /\ i.op = "ret" /\ a.at = AfterFree(f) + 1
      \/ a.phase = "throw" /\ i.op = "ret" /\ a.at = AfterFree(f) + 3

LEMMA LeavesAtOf ==
  ASSUME NEW a \in ActType, Made(a), a.at <= Len(a.code), a.code[a.at].op \in Leaves
  PROVE  LeavesAt(a)
<1> DEFINE f == Func(a)
           k == CallSite(a)
           i == a.code[a.at]
<1>1. f \in Program /\ a.id \in Nat /\ a.at \in Nat
      /\ a.phase \in {"enter", "call", "tail", "leave", "throw"}
  BY ActOf DEF ActType
<1>2. a.at \in 1 .. Len(a.code)
  BY AdvancedIs
<1>3. CASE a.phase = "enter"
  <2>1. a.code = EnterCode(f, a.id)
    BY <1>3 DEF Made, Coded
  <2>2. EnterInstr(f, a.id, a.at, i)
    BY <1>1, <1>2, <2>1, EnterIs
  <2>. QED
    BY <2>2, StraightLine
<1>4. CASE a.phase = "call"
  <2>1. a.code = CallCode(f, a.id, k) /\ k \in RealCalls(f) /\ k \in DOMAIN f.calls
    BY <1>4, CallPlacedOf
  <2>2. CallInstr(f, a.id, k, a.at, i)
    BY <1>1, <1>2, <2>1, CallIs
  <2>3. \/ i = AddSP(-CallFrame(f, k)) \/ i = AddSP(CallFrame(f, k)) \/ i = Ld("gp", GPSlot(f))
        \/ \E j : PassInstr(f, a.id, k, Slot("sp", 0), j, i)
        \/ a.at = CallAt(f, k) /\ i = Call(k)
    BY <2>2 DEF CallInstr
  <2>4. a.at = CallAt(f, k) /\ i = Call(k)
    BY <2>3, StraightLine, OpsAre DEF Leaves
  <2>. QED
    BY <1>4, <2>1, <2>4, OpsAre DEF LeavesAt
<1>5. CASE a.phase = "tail"
  <2>1. a.code = TailCallCode(f, a.id, k) /\ IsTail(f, k) /\ k \in DOMAIN f.calls
    BY <1>5 DEF Made, Coded
  <2>2. TailInstr(f, a.id, k, a.at, i)
    BY <1>1, <1>2, <2>1, TailIs
  <2>3. \/ \E p : PassInstr(f, a.id, k, ObjSlot(f, 0), p, i)
        \/ \E q : EpilogueInstr(f, q, i)
        \/ a.at = Turns(f, k) + AfterFree(f) + 1 /\ i = Jump(k)
    BY <2>2 DEF TailInstr
  <2>4. a.at = Turns(f, k) + AfterFree(f) + 1 /\ i = Jump(k)
    BY <2>3, StraightLine
  <2>. QED
    BY <1>5, <2>1, <2>4, OpsAre DEF LeavesAt
<1>6. CASE a.phase = "leave"
  <2>1. a.code = LeaveCode(f)
    BY <1>6 DEF Made, Coded
  <2>2. LeaveInstr(f, a.at, i)
    BY <1>1, <1>2, <2>1, LeaveIs
  <2>3. a.at = AfterFree(f) + 1 /\ i = Ret
    BY <2>2, StraightLine DEF LeaveInstr
  <2>. QED
    BY <1>6, <2>3, OpsAre DEF LeavesAt
<1>7. CASE a.phase = "throw"
  <2>1. a.code = EhReturnCode(f)
    BY <1>7 DEF Made, Coded
  <2>2. ThrowInstr(f, a.at, i)
    BY <1>1, <1>2, <2>1, ThrowIs
  <2>3. \/ \E q : EpilogueInstr(f, q, i)
        \/ i = Copy("lr", "v0") \/ i = AddSPV1
        \/ a.at = AfterFree(f) + 3 /\ i = Ret
    BY <2>2 DEF ThrowInstr
  <2>4. a.at = AfterFree(f) + 3 /\ i = Ret
    BY <2>3, StraightLine, OpsAre DEF Leaves
  <2>. QED
    BY <1>7, <2>4, OpsAre DEF LeavesAt
<1>. QED
  BY <1>1, <1>3, <1>4, <1>5, <1>6, <1>7

-----------------------------------------------------------------------------
(***************************************************************************)
(* A new activation finds what the call passed.                            *)
(***************************************************************************)
LEMMA NewActIs ==
  ASSUME NEW id \in Nat, NEW fn \in DOMAIN Funcs, NEW entry \in RegFile, NEW passed \in Seq(Int),
         NEW extra \in Seq(Extras), NEW b, b = NewAct(id, fn, entry, passed, extra)
  PROVE  /\ b \in ActType /\ b.entry = entry /\ b.passed = passed /\ b.extra = extra
         /\ b.next = 1 /\ b.at = 1 /\ b.phase = "enter" /\ b.alloca = NoSpace /\ b.fn = fn
         /\ Func(b) = Funcs[fn] /\ Funcs[fn] \in Program
         /\ DOMAIN b.locals = 1 .. Funcs[fn].locals /\ Coded(b) /\ Unused(b)
<1> DEFINE f == Funcs[fn]
           code == EnterCode(f, id)
           locals == [k \in 1 .. f.locals |-> Junk]
<1>1. f \in Program /\ f.locals \in Nat
  BY RegsTyped DEF Program
<1>2. code \in Seq(InstrType) /\ Len(code) \in Nat
  BY <1>1, EnterIs
<1>3. locals \in Seq(Int) /\ DOMAIN locals = 1 .. f.locals /\ \A k \in DOMAIN locals : locals[k] = Junk
  <2>1. locals \in [1 .. f.locals -> Int]
    BY DEF Junk
  <2>. QED
    BY <1>1, <2>1, FunctionIsSeq
<1>4. b = [id |-> id, fn |-> fn, entry |-> entry, passed |-> passed, extra |-> extra,
           phase |-> "enter", code |-> code, at |-> 1,
           next |-> 1, locals |-> locals, alloca |-> NoSpace]
  BY DEF NewAct, EnterCode
<1>. HIDE DEF code, locals
<1>5. /\ b.entry = entry /\ b.passed = passed /\ b.extra = extra
      /\ b.next = 1 /\ b.at = 1 /\ b.phase = "enter" /\ b.alloca = NoSpace /\ b.fn = fn
      /\ b.code = code /\ b.id = id /\ b.locals = locals
  BY <1>4
<1>6. b \in ActType
  <2>1. NoSpace \in Int
    BY DEF NoSpace
  <2>2. extra \in Seq({I32, I64})
    BY SameExtras
  <2>. QED
    BY <1>2, <1>3, <1>4, <2>1, <2>2 DEF ActType, RegFile
<1>7. Func(b) = f
  BY <1>5 DEF Func
<1>8. Coded(b)
  <2>1. b.at \in 1 .. Len(b.code) + 1
    BY <1>2, <1>5
  <2>2. b.code = EnterCode(Func(b), b.id)
    BY <1>5, <1>7 DEF code
  <2>. QED
    BY <1>5, <2>1, <2>2 DEF Coded
<1>9. Unused(b)
  BY <1>3, <1>5 DEF Unused
<1>. QED
  BY <1>1, <1>3, <1>5, <1>6, <1>7, <1>8, <1>9

LEMMA NewActMade ==
  ASSUME NEW id \in Nat, NEW fn \in DOMAIN Funcs, NEW entry \in RegFile, NEW passed \in Seq(Int),
         NEW extra \in Seq(Extras), NEW b, b = NewAct(id, fn, entry, passed, extra),
         entry.sp >= 0, entry.sp % 8 = 0, End(b) <= MemTop, Passes(b)
  PROVE  Made(b)
<1>1. /\ b.entry = entry /\ b.next = 1 /\ b.alloca = NoSpace
      /\ Func(b) = Funcs[fn] /\ Funcs[fn] \in Program
      /\ DOMAIN b.locals = 1 .. Funcs[fn].locals /\ Coded(b)
  BY NewActIs
<1>2. 1 \in 1 .. Len(Funcs[fn].calls) + 1
  <2>1. Funcs[fn].calls \in Seq(CallType)
    BY <1>1, InProgram DEF FuncType
  <2>2. Len(Funcs[fn].calls) \in Nat
    BY <2>1
  <2>. QED
    BY <2>2
<1>. QED
  BY <1>1, <1>2 DEF Made

LEMMA NewActStarts ==
  ASSUME NEW b \in ActType, Made(b), b.phase = "enter", b.at = 1, Unused(b), NEW m, ArgsHeld(b, m)
  PROVE  TopInv(b, b.entry, m)
<1>1. Entering(b, 1, b.entry, m)
  BY EnteringStarts
<1>2. Func(b) \in Program /\ b.id \in Nat /\ b.code = EnterCode(Func(b), b.id)
  BY ActOf DEF Made, Coded
<1>3. Len(b.code) = AfterGP(Func(b)) + Len(Homed(Func(b)))
  BY <1>2, EnterIs
<1>4. CASE b.at > Len(b.code)
  <2>1. InItsBody(b, b.entry, m)
    BY <1>1, <1>3, <1>4, EnteringDone
  <2>. QED
    BY <1>4, <2>1 DEF TopInv
<1>5. CASE ~(b.at > Len(b.code))
  BY <1>1, <1>5 DEF TopInv
<1>. QED
  BY <1>4, <1>5

\* The words that call k of a passes, placed at base, reach the activation
\* that is entered with the registers r2.
EntersFrom(a, r2, b) ==
  LET f == Func(a)
      k == CallSite(a)
  IN  b = NewAct(a.id + 1, f.calls[k].callee, r2,
                 [i \in DOMAIN SentWords(f, k) |-> ArgVal(a.id, k, i)], f.calls[k].extra)

LEMMA Receives ==
  ASSUME NEW a \in ActType, CallSite(a) \in DOMAIN Func(a).calls, NEW r, NEW m, NEW n \in Int,
         n >= Turns(Func(a), CallSite(a)), NEW r2 \in RegFile, WordsPlaced(a, r, m, r2.sp, n),
         r2.a0 = r.a0, r2.a1 = r.a1, NEW b, EntersFrom(a, r2, b),
         r2.sp >= 0, r2.sp % 8 = 0, r2.sp + NextStackOffset(Func(a), CallSite(a)) <= MemTop
  PROVE  /\ b \in ActType /\ Made(b) /\ b.entry = r2 /\ TopInv(b, r2, m)
         /\ End(b) \in Int /\ End(b) <= r2.sp + NextStackOffset(Func(a), CallSite(a))
<1> DEFINE f == Func(a)
           k == CallSite(a)
           g == Callee(f, k)
           words == SentWords(f, k)
           passed == [i \in DOMAIN words |-> ArgVal(a.id, k, i)]
<1>1. f \in Program /\ a.id \in Nat /\ a.id + 1 \in Nat
  BY ActOf
<1>2. /\ g \in Program /\ f.calls[k].callee \in DOMAIN Funcs /\ f.calls[k].extra \in Seq(Extras)
      /\ (~g.vararg => f.calls[k].extra = <<>>) /\ g = Funcs[f.calls[k].callee]
  BY <1>1, CalleeOf DEF Callee
<1>3. words \in Seq(WordType) /\ k \in Nat
  <2>1. f.calls \in Seq(CallType)
    BY <1>1, InProgram DEF FuncType
  <2>. QED
    BY <1>1, <2>1, CallOrdered
<1>4. /\ passed \in Seq(Int) /\ Len(passed) = Len(words)
      /\ \A i \in DOMAIN words : passed[i] = ArgVal(a.id, k, i)
  <2>1. DOMAIN words = 1 .. Len(words) /\ Len(words) \in Nat
    BY <1>3
  <2>2. ASSUME NEW i \in DOMAIN words PROVE ArgVal(a.id, k, i) \in Int
    <3>1. a.id \in Int /\ k \in Int /\ i \in Int
      BY <1>1, <1>3, <2>1
    <3>. QED
      BY <3>1, ValsTyped
  <2>3. passed \in [1 .. Len(words) -> Int]
    BY <2>1, <2>2
  <2>. QED
    BY <2>1, <2>3, FunctionIsSeq
<1>5. b = NewAct(a.id + 1, f.calls[k].callee, r2, passed, f.calls[k].extra)
  BY DEF EntersFrom
<1>. HIDE DEF passed
<1>6. /\ b \in ActType /\ b.entry = r2 /\ b.passed = passed /\ b.extra = f.calls[k].extra
      /\ b.at = 1 /\ b.phase = "enter" /\ Func(b) = g /\ Unused(b)
  BY <1>1, <1>2, <1>4, <1>5, NewActIs
<1>7. GotWords(b) = words
  BY <1>6 DEF GotWords, SentWords, Passed
<1>8. ASSUME NEW i \in DOMAIN words PROVE WordPlaced(words[i], passed[i], r, m, r2.sp)
  <2>1. PICK j \in 1 .. Turns(f, k) : Turn(f, k, j) = i
    BY <1>1, TurnOf
  <2>2. j <= n
    <3>1. Turns(f, k) \in Nat
      BY <1>1, TurnOf
    <3>. QED
      BY <3>1
  <2>3. TurnPlaced(a, r, m, r2.sp, j)
    BY <2>2, WordsPlacedIs
  <2>. QED
    BY <1>4, <2>1, <2>3 DEF TurnPlaced
<1>9. Passes(b)
  <2>1. ASSUME NEW i \in DOMAIN words, words[i].reg # -1
        PROVE  r2[ArgReg(words[i].reg)] = passed[i]
    <3>1. r[ArgReg(words[i].reg)] = passed[i]
      BY <1>8, <2>1 DEF WordPlaced
    <3>. QED
      BY <3>1 DEF ArgReg
  <2>. QED
    BY <1>2, <1>4, <1>6, <1>7, <2>1 DEF Passes
<1>10. ArgsHeld(b, m)
  BY <1>6, <1>7, <1>8 DEF ArgsHeld, WordPlaced
<1>11. PICK t \in Nat, c \in Nat : t = NextStackOffset(f, k) /\ c = IncomingArgSize(g) /\ c <= t
  <2>1. SoundCall(f, k)
    BY <1>1, SoundCalls
  <2>2. IncomingArgSize(g) \in Nat
    BY <1>2, Incoming
  <2>. QED
    BY <2>1, <2>2 DEF SoundCall
<1>12. End(b) = r2.sp + c
  BY <1>6, <1>11 DEF End
<1>13. End(b) \in Int /\ End(b) <= r2.sp + t /\ End(b) <= MemTop
  <2>1. r2.sp \in Int /\ MemTop \in Int
    BY RegInt, BoundsAssumption
  <2>2. r2.sp + t <= MemTop
    BY <1>11
  <2>. QED
    BY <1>11, <1>12, <2>1, <2>2
<1>14. Made(b)
  BY <1>1, <1>2, <1>4, <1>5, <1>9, <1>13, NewActMade
<1>15. TopInv(b, r2, m)
  BY <1>6, <1>10, <1>14, NewActStarts
<1>. QED
  BY <1>6, <1>11, <1>13, <1>14, <1>15

-----------------------------------------------------------------------------
(***************************************************************************)
(* Calling, tail-calling and returning.                                    *)
(***************************************************************************)
LEMMA CallsOut ==
  ASSUME NEW a, NEW r, NEW m, Stepping(a, r, m), a.code[a.at].op = "call",
         NEW r2 \in RegFile, \A x \in RegNames : x # "lr" => r2[x] = r[x],
         NEW c, EntersFrom(a, r2, c)
  PROVE  LET b == Advanced(a)
         IN  /\ b \in ActType /\ Made(b) /\ SameBody(a, b) /\ Waiting(b, r2, m)
             /\ c \in ActType /\ Made(c) /\ c.entry = r2 /\ TopInv(c, r2, m)
             /\ End(c) <= Guard(b)
<1> DEFINE f == Func(a)
           k == CallSite(a)
           b == Advanced(a)
<1>1. /\ a \in ActType /\ Made(a) /\ Handled /\ r \in RegFile /\ m \in Memory /\ r.sp >= 0
      /\ a.at <= Len(a.code) /\ TopInv(a, r, m) /\ f \in Program /\ a.at \in Nat /\ Len(a.code) \in Nat
  BY ActOf DEF Stepping
<1>2. a.phase = "call" /\ k \in RealCalls(f) /\ k \in DOMAIN f.calls /\ a.at = CallAt(f, k)
  BY <1>1, LeavesAtOf DEF LeavesAt, Leaves
<1>3. CallingAt(a, a.at, r, m)
  <2>1. ~(a.at > Len(a.code))
    BY <1>1
  <2>. QED
    BY <1>1, <1>2, <2>1 DEF CallingAt, TopInv
<1>4. PICK x \in Nat, q \in Nat, t \in Nat, n \in Nat : CallPlaced(a, x, q, t, n)
  BY <1>1, <1>2, CallPlacedOf
<1>5. q = CallAt(f, k) /\ q = x + n + 1 /\ n = Turns(f, k)
  BY <1>4 DEF CallPlaced
<1>6. /\ CallShape(a) /\ OwnFP(a, r) /\ Unsaved(a, r, SavedSet) /\ FrameHeld(a, m)
      /\ (a.at > x => r.sp = CallSP(a))
      /\ (a.at <= q => WordsPlaced(a, r, m, CallSP(a), a.at - 1 - x))
  BY <1>3, <1>4, CallRegs
<1>7. a.at > x /\ a.at <= q /\ a.at - 1 - x = n
  BY <1>2, <1>5
<1>8. r2.sp = CallSP(a) /\ r2.fp = r.fp /\ r2.a0 = r.a0 /\ r2.a1 = r.a1 /\ SameKept(r, r2)
      /\ r2.sp >= 0
  BY <1>1, <1>6, <1>7 DEF RegNames, SameKept, KeptRegs
<1>9. WordsPlaced(a, r, m, r2.sp, n)
  BY <1>6, <1>7, <1>8
<1>10. /\ CallSP(a) \in Int /\ CallSP(a) % 8 = 0 /\ Guard(a) = CallSP(a) + NextStackOffset(f, k)
       /\ Guard(a) <= End(a) /\ End(a) <= MemTop /\ Guard(a) \in Int /\ End(a) \in Int
  BY <1>1, <1>2, <1>6, GuardBelowEnd, ShapeOf DEF CallShape, Shape
<1>11. r2.sp + NextStackOffset(f, k) <= MemTop
  <2>1. Guard(a) <= MemTop
    BY <1>10, BoundsAssumption
  <2>. QED
    BY <1>8, <1>10, <2>1
<1>12. /\ c \in ActType /\ Made(c) /\ c.entry = r2 /\ TopInv(c, r2, m)
       /\ End(c) \in Int /\ End(c) <= r2.sp + NextStackOffset(f, k)
  <2>1. n \in Int /\ n >= Turns(f, k) /\ r2.sp % 8 = 0
    BY <1>5, <1>8, <1>10
  <2>. QED
    BY <1>1, <1>2, <1>8, <1>9, <1>11, <2>1, Receives
<1>13. b \in ActType /\ Made(b) /\ SameBody(a, b) /\ b.phase = "call" /\ b.at = a.at + 1
  BY <1>1, <1>2, AdvancedIs
<1>14. SameFrame(a, b) /\ SameEntry(a, b)
  BY <1>13 DEF SameBody, SameFrame
<1>15. Func(b) = f /\ CallSite(b) = k /\ CallSP(b) = CallSP(a) /\ Guard(b) = Guard(a)
       /\ Bottom(b) = Bottom(a) /\ b.entry = a.entry
  BY <1>13, <1>14, SameBodyIs, SameEntryIs DEF SameEntry
<1>16. Waiting(b, r2, m)
  <2>1. Unsaved(a, r2, SavedSet)
    BY <1>1, <1>2, <1>6, <1>8, UnsavedKept
  <2>2. Unsaved(b, r2, SavedSet)
    BY <1>15, <2>1 DEF Unsaved
  <2>3. OwnFP(b, r2)
    BY <1>6, <1>8, <1>15 DEF OwnFP
  <2>4. FrameHeld(b, m)
    BY <1>6, <1>14, SameFrameIs
  <2>5. b.at = CallAt(Func(b), CallSite(b)) + 1
    BY <1>2, <1>13, <1>15
  <2>6. Calling(b, b.at, r2, m)
    BY <1>8, <1>13, <1>15, <2>2, <2>3, <2>4, <2>5, WaitingIs
  <2>. QED
    BY <1>13, <2>5, <2>6 DEF Waiting
<1>17. End(c) <= Guard(b)
  BY <1>8, <1>10, <1>12, <1>15
<1>. QED
  BY <1>12, <1>13, <1>16, <1>17

\* An epilogue that is over.
LEMMA HasLeft ==
  ASSUME NEW a \in ActType, NEW r, NEW m, NEW q, q = AfterFree(Func(a)) + 1,
         Leaving(a, q, r, m, SavedSet)
  PROVE  r.sp = a.entry.sp /\ r.lr = a.entry.lr /\ SameKept(a.entry, r)
<1>1. AfterFree(Func(a)) \in Nat
  BY ActOf, EndsOf DEF Ends
<1>2. q \in Int /\ q > AfterFree(Func(a))
  BY <1>1
<1>3. r.sp = a.entry.sp /\ \A x \in SavedSet : r[x] = a.entry[x]
  BY <1>2, LeavingDone
<1>. QED
  BY <1>3 DEF SavedSet, KeptRegs, SameKept

LEMMA JumpsOut ==
  ASSUME NEW a, NEW r, NEW m, Stepping(a, r, m), a.code[a.at].op = "jump"
  PROVE  /\ r.sp = a.entry.sp /\ r.lr = a.entry.lr /\ SameKept(a.entry, r)
         /\ a.phase = "tail" /\ a.code[a.at].site = CallSite(a)
         /\ \A c : EntersFrom(a, r, c) =>
              c \in ActType /\ Made(c) /\ c.entry = r /\ TopInv(c, r, m) /\ End(c) <= End(a)
<1> DEFINE f == Func(a)
           k == CallSite(a)
<1>1. /\ a \in ActType /\ Made(a) /\ Handled /\ r \in RegFile /\ m \in Memory /\ r.sp >= 0
      /\ a.at <= Len(a.code) /\ TopInv(a, r, m) /\ f \in Program /\ a.at \in Nat
  BY ActOf DEF Stepping
<1>2. /\ a.phase = "tail" /\ k \in DOMAIN f.calls /\ IsTail(f, k) /\ a.code[a.at].site = k
      /\ a.at = Turns(f, k) + AfterFree(f) + 1
  BY <1>1, LeavesAtOf DEF LeavesAt, Leaves
<1>3. PICK n \in Nat, z \in Nat : n = Turns(f, k) /\ z = AfterFree(f)
  BY <1>1, <1>2, TurnOf, EndsOf DEF Ends
<1>4. TailCalling(a, a.at, r, m)
  BY <1>1, <1>2 DEF TopInv
<1>5. Leaving(a, a.at - n, r, m, SavedSet) /\ WordsPlaced(a, r, m, a.entry.sp, a.at - 1)
  BY <1>3, <1>4, TailCallingIs
<1>6. a.at - n = z + 1 /\ a.at - 1 \in Int /\ a.at - 1 >= n
  BY <1>2, <1>3
<1>7. r.sp = a.entry.sp /\ r.lr = a.entry.lr /\ SameKept(a.entry, r)
  BY <1>1, <1>3, <1>5, <1>6, HasLeft
<1>8. ASSUME NEW c, EntersFrom(a, r, c)
      PROVE  c \in ActType /\ Made(c) /\ c.entry = r /\ TopInv(c, r, m) /\ End(c) <= End(a)
  <2>1. /\ r.sp \in Nat /\ r.sp % 8 = 0 /\ End(a) \in Int /\ End(a) <= MemTop
        /\ End(a) = r.sp + IncomingArgSize(f)
    BY <1>1, <1>7, ShapeOf DEF Shape
  <2>2. NextStackOffset(f, k) \in Nat /\ NextStackOffset(f, k) <= IncomingArgSize(f)
        /\ IncomingArgSize(f) \in Nat
    <3>1. SoundCall(f, k)
      BY <1>1, <1>2, SoundCalls
    <3>. QED
      BY <1>1, <1>2, <3>1, Incoming DEF SoundCall, IsTail
  <2>3. r.sp + NextStackOffset(f, k) <= End(a)
    BY <2>1, <2>2
  <2>4. r.sp + NextStackOffset(f, k) <= MemTop
    BY <2>1, <2>2, <2>3, BoundsAssumption
  <2>5. WordsPlaced(a, r, m, r.sp, a.at - 1) /\ a.at - 1 >= Turns(f, k)
    BY <1>3, <1>5, <1>6, <1>7
  <2>6. /\ c \in ActType /\ Made(c) /\ c.entry = r /\ TopInv(c, r, m)
        /\ End(c) \in Int /\ End(c) <= r.sp + NextStackOffset(f, k)
    <3>1. r.sp >= 0 /\ r.a0 = r.a0 /\ r.a1 = r.a1
      BY <2>1
    <3>. QED
      BY <1>1, <1>2, <1>6, <1>8, <2>1, <2>4, <2>5, <3>1, Receives
  <2>. QED
    BY <2>1, <2>2, <2>3, <2>6
<1>. QED
  BY <1>2, <1>7, <1>8

LEMMA Returns ==
  ASSUME NEW a, NEW r, NEW m, Stepping(a, r, m), a.code[a.at].op = "ret"
  PROVE  \/ /\ a.phase = "leave" /\ r.sp = a.entry.sp /\ r.lr = a.entry.lr
            /\ SameKept(a.entry, r)
         \/ /\ a.phase = "throw" /\ r.sp = a.entry.sp + r.v1 /\ r.lr = Handler
            /\ \A x \in KeptRegs : r[x] = a.entry[x]
<1>1. a \in ActType /\ Made(a) /\ a.at <= Len(a.code) /\ TopInv(a, r, m) /\ a.at \in Nat
  BY ActOf DEF Stepping
<1>2. LeavesAt(a)
  BY <1>1, LeavesAtOf DEF Leaves
<1>3. CASE a.phase = "leave" /\ a.at = AfterFree(Func(a)) + 1
  <2>1. Leaving(a, a.at, r, m, SavedSet)
    BY <1>1, <1>3 DEF TopInv
  <2>. QED
    BY <1>1, <1>3, <2>1, HasLeft
<1>4. CASE a.phase = "throw" /\ a.at = AfterFree(Func(a)) + 3
  <2>1. Throwing(a, a.at, r, m)
    BY <1>1, <1>4 DEF TopInv
  <2>2. PICK n \in Nat : n = AfterFree(Func(a))
    BY <1>1, ActOf, EndsOf DEF Ends
  <2>3. a.at > n + 2 /\ a.at > n + 1
    BY <1>4, <2>2
  <2>. QED
    BY <1>4, <2>1, <2>2, <2>3 DEF Throwing
<1>. QED
  BY <1>2, <1>3, <1>4 DEF LeavesAt

-----------------------------------------------------------------------------
(***************************************************************************)
(* What the body of a function does.                                       *)
(***************************************************************************)
BodyAt(a, r, m) ==
  /\ a \in ActType /\ Made(a) /\ Handled /\ r \in RegFile /\ m \in Memory
  /\ a.phase \in {"enter", "call"} /\ a.at > Len(a.code) /\ InItsBody(a, r, m)

LEMMA BodyIs ==
  ASSUME NEW a, NEW r, NEW m, Handled, a \in ActType, Made(a), r \in RegFile, m \in Memory,
         TopInv(a, r, m), ~(a.at <= Len(a.code))
  PROVE  BodyAt(a, r, m)
<1>1. a.at > Len(a.code)
  BY ActOf
<1>. QED
  BY <1>1 DEF TopInv, BodyAt

LEMMA BodyTop ==
  ASSUME NEW a, a.phase \in {"enter", "call"}, a.at > Len(a.code), NEW r, NEW m,
         InItsBody(a, r, m)
  PROVE  TopInv(a, r, m)
BY DEF TopInv

\* The frame register, through which the body reaches its objects.
LEMMA BodyFrameReg ==
  ASSUME NEW a, NEW r, NEW m, BodyAt(a, r, m)
  PROVE  r[FrameReg(Func(a))] = Bottom(a)
<1>1. a \in ActType /\ Made(a) /\ r.sp = BodySP(a) /\ OwnFP(a, r)
  BY DEF BodyAt, InItsBody
<1>2. CASE HasFP(Func(a))
  BY <1>1, <1>2 DEF OwnFP, FrameReg
<1>3. CASE ~HasFP(Func(a))
  <2>1. ~Func(a).dyn
    BY <1>3 DEF HasFP
  <2>. QED
    BY <1>1, <1>3, <2>1, ShapeOf DEF Shape, FrameReg
<1>. QED
  BY <1>2, <1>3

BodyStepped(a, m, b, r2, m2) ==
  /\ b \in ActType /\ Made(b) /\ b.entry = a.entry /\ End(b) = End(a)
  /\ r2 \in RegFile /\ m2 \in Memory /\ Agree(m, m2, End(a)) /\ TopInv(b, r2, m2)

LEMMA LocalIs ==
  ASSUME NEW a \in ActType, NEW k \in DOMAIN a.locals, NEW v \in Int,
         NEW b, b = [a EXCEPT !.locals[k] = v]
  PROVE  /\ b \in ActType /\ SameEntry(a, b) /\ b.next = a.next /\ b.alloca = a.alloca
         /\ b.at = a.at /\ b.code = a.code /\ b.phase = a.phase
         /\ DOMAIN b.locals = DOMAIN a.locals /\ b.locals[k] = v
         /\ \A j \in DOMAIN a.locals : j # k => b.locals[j] = a.locals[j]
<1>1. PICK l : l = [a.locals EXCEPT ![k] = v]
  OBVIOUS
<1>2. a.locals \in Seq(Int)
  BY ActOf
<1>3. /\ l \in Seq(Int) /\ DOMAIN l = DOMAIN a.locals /\ l[k] = v
      /\ \A j \in DOMAIN a.locals : j # k => l[j] = a.locals[j]
  BY <1>1, <1>2
<1>4. b = [a EXCEPT !.locals = l]
  BY <1>1
<1>5. ASSUME NEW t \in Seq(Int)
      PROVE  /\ [a EXCEPT !.locals = t] \in ActType
             /\ [a EXCEPT !.locals = t].locals = t
             /\ [a EXCEPT !.locals = t].id = a.id /\ [a EXCEPT !.locals = t].fn = a.fn
             /\ [a EXCEPT !.locals = t].entry = a.entry /\ [a EXCEPT !.locals = t].passed = a.passed
             /\ [a EXCEPT !.locals = t].extra = a.extra /\ [a EXCEPT !.locals = t].at = a.at
             /\ [a EXCEPT !.locals = t].alloca = a.alloca /\ [a EXCEPT !.locals = t].next = a.next
             /\ [a EXCEPT !.locals = t].phase = a.phase /\ [a EXCEPT !.locals = t].code = a.code
  BY DEF ActType
<1>. QED
  BY <1>3, <1>4, <1>5 DEF SameEntry

LocalAt(a, r, k, y) ==
  /\ k \in DOMAIN a.locals /\ y \in Addresses
  /\ y = r[FrameReg(Func(a))] + (StackSize(Func(a)) + LocalOffset(Func(a), k))

LEMMA BodyWrites ==
  ASSUME NEW a, NEW r, NEW m, BodyAt(a, r, m), NEW k, NEW y, LocalAt(a, r, k, y), NEW v \in Int, NEW b, b = [a EXCEPT !.locals[k] = v]
  PROVE  BodyStepped(a, m, b, r, [m EXCEPT ![y] = v])
<1> DEFINE f == Func(a)
           m2 == [m EXCEPT ![y] = v]
           n == Len(SavedRegs(f))
<1>1. /\ a \in ActType /\ Made(a) /\ Handled /\ r \in RegFile /\ m \in Memory
      /\ a.phase \in {"enter", "call"} /\ a.at > Len(a.code) /\ InItsBody(a, r, m)
      /\ f \in Program /\ a.id \in Nat /\ k \in DOMAIN a.locals /\ y \in Addresses
  BY ActOf DEF BodyAt, LocalAt
<1>2. /\ b \in ActType /\ SameEntry(a, b) /\ b.next = a.next /\ b.alloca = a.alloca
      /\ b.at = a.at /\ b.code = a.code /\ b.phase = a.phase
      /\ DOMAIN b.locals = DOMAIN a.locals /\ b.locals[k] = v
      /\ \A j \in DOMAIN a.locals : j # k => b.locals[j] = a.locals[j]
  BY <1>1, LocalIs
<1>3. /\ Func(b) = f /\ Bottom(b) = Bottom(a) /\ End(b) = End(a) /\ Passes(b)
      /\ b.entry = a.entry /\ b.id = a.id /\ CallSite(b) = CallSite(a) /\ BodySP(b) = BodySP(a)
  <2>1. Func(b) = Func(a) /\ Bottom(b) = Bottom(a) /\ End(b) = End(a) /\ (Passes(a) => Passes(b))
    BY ONLY <1>2, SameEntryIs
  <2>2. b.entry = a.entry /\ b.id = a.id
    BY ONLY <1>2 DEF SameEntry
  <2>3. Passes(a)
    BY <1>1 DEF Made
  <2>4. CallSite(b) = CallSite(a)
    BY ONLY <1>2 DEF CallSite
  <2>5. BodySP(b) = BodySP(a)
    BY ONLY <1>2, <2>1 DEF BodySP
  <2>. QED
    BY <2>1, <2>2, <2>3, <2>4, <2>5
<1>4. Made(b)
  <2>1. Coded(b)
    BY <1>1, <1>2, <1>3 DEF Made, Coded
  <2>. QED
    BY <1>1, <1>2, <1>3, <2>1 DEF Made
<1>5. PICK e \in Nat, s \in Nat, x \in Nat, l \in Nat, o \in Nat, i \in Nat :
        /\ e = a.entry.sp /\ s = StackSize(f) /\ x = Len(SavedRegs(f)) /\ l = f.locals
        /\ i = k /\ 1 <= i /\ i <= l /\ o = Objects(f) /\ x + l <= o
  <2>1. /\ a.entry.sp \in Nat /\ StackSize(f) \in Nat /\ Len(SavedRegs(f)) \in Nat
        /\ f.locals \in Nat /\ EhSlots(f) \in Nat
    BY <1>1, ShapeOf, SizeOf, RegsTyped, EhRegsOf DEF Shape, Sized
  <2>2. k \in 1 .. f.locals
    BY <1>1 DEF Made
  <2>3. Objects(f) = Len(SavedRegs(f)) + f.locals + EhSlots(f)
    BY DEF Objects
  <2>4. Objects(f) \in Nat /\ Len(SavedRegs(f)) + f.locals <= Objects(f)
    BY <2>1, <2>3
  <2>5. k \in Nat /\ 1 <= k /\ k <= f.locals
    BY <2>1, <2>2
  <2>. QED
    BY <2>1, <2>4, <2>5
<1>6. PICK u \in Int : u = y /\ u + 4 * x + 4 * i = e
  <2>1. PICK z \in Int : z = Bottom(a) /\ z + s = e
    <3>1. Bottom(a) = e - s
      BY <1>5 DEF Bottom
    <3>. QED
      BY <3>1
  <2>2. LocalOffset(f, i) = -4 * (x + i)
    BY <1>5 DEF LocalOffset
  <2>3. y = z + (s + LocalOffset(f, i))
    BY <1>1, <1>5, <2>1, BodyFrameReg DEF LocalAt
  <2>4. PICK u \in Int : u = z + (s + -4 * (x + i))
    OBVIOUS
  <2>5. u = y
    BY <2>2, <2>3, <2>4
  <2>6. u + 4 * x + 4 * i = e
    BY <2>1, <2>4
  <2>. QED
    BY <2>5, <2>6
<1>7. m2 \in Memory /\ Puts(m, m2, y, v) /\ Holds(m2, y, v) /\ y \in Int
  <2>1. m2 \in Memory /\ \A c \in Addresses : m2[c] = IF c = y THEN v ELSE m[c]
    BY <1>1 DEF Memory
  <2>. QED
    BY <1>1, <2>1, AddressIs DEF Puts, Holds
<1>. HIDE DEF m2
<1>20. u + 4 * x + 4 * i = e
  BY <1>6
<1>21. 1 <= i /\ i <= l /\ x + l <= o
  BY <1>5
<1>22. \A c, w : Holds(m, c, w) /\ (c # y \/ w = v) => Holds(m2, c, w)
  BY <1>7, AddressIs DEF Puts, Holds
<1>8. y < a.entry.sp
  <2>1. u < e
    BY <1>5, <1>6
  <2>. QED
    BY <1>5, <1>6, <2>1
<1>9. Agree(m, m2, End(a)) /\ (ArgsHeld(a, m) => ArgsHeld(a, m2))
      /\ \A j : HomesHeld(a, m, j) => HomesHeld(a, m2, j)
  BY <1>1, <1>7, <1>8, PutBelow
<1>10. ASSUME NEW j \in DOMAIN SavedRegs(f) PROVE y # a.entry.sp - 4 * j
  <2>1. PICK h \in Nat : h = j /\ h <= x
    BY <1>1, <1>5, ObjectsAt
  <2>2. u # e - 4 * h
    BY <1>5, <1>6, <2>1
  <2>. QED
    BY <1>5, <1>6, <2>1, <2>2
<1>11. ASSUME NEW j \in DOMAIN EhRegs(f) PROVE y # a.entry.sp + EhOffset(f, j)
  <2>1. PICK h \in Nat : h = j /\ 1 <= h /\ EhOffset(f, j) = -4 * (x + l + h)
    BY <1>1, <1>5, ObjectsAt
  <2>2. PICK w \in Int : w = e + (-4 * (x + l + h))
    OBVIOUS
  <2>3. u # w
    <3>1. w + 4 * x + 4 * l + 4 * h = e
      BY <2>2
    <3>2. 1 <= h
      BY <2>1
    <3>. QED
      BY <1>20, <1>21, <3>1, <3>2
  <2>. QED
    BY <1>5, <1>6, <2>1, <2>2, <2>3
<1>12. ASSUME HasFrame(f), NeedsGPSlot(f) PROVE y # Bottom(a) + GPSlot(f).off
  <2>1. PICK g \in Int : g = Bottom(a) + GPSlot(f).off /\ g + 4 + 4 * o <= e
    BY <1>1, <1>5, <1>12, GPSlotBelow
  <2>2. u # g
    BY ONLY <1>20, <1>21, <2>1
  <2>. QED
    BY <1>6, <2>1, <2>2
<1>13. /\ \A j : SavedHeld(a, m, j) => SavedHeld(a, m2, j)
       /\ \A j : EhHeld(a, m, j) => EhHeld(a, m2, j)
       /\ GPHeld(a, m) => GPHeld(a, m2)
  BY <1>1, <1>7, <1>10, <1>11, <1>12, PutKeeps
<1>14. FrameHeld(a, m)
  BY <1>1 DEF InItsBody
<1>15. ASSUME NEW j \in DOMAIN b.locals, b.locals[j] # Junk
       PROVE  Holds(m2, b.entry.sp + LocalOffset(f, j), b.locals[j])
  <2>1. CASE j = k
    <3>1. a.entry.sp + LocalOffset(f, k) = y
      <4>1. LocalOffset(f, k) = -4 * (x + i)
        BY <1>5 DEF LocalOffset
      <4>2. e + (-4 * (x + i)) = u
        BY <1>6
      <4>. QED
        BY <1>5, <1>6, <4>1, <4>2
    <3>. QED
      BY <1>2, <1>3, <1>7, <2>1, <3>1
  <2>2. CASE j # k
    <3>1. Holds(m, a.entry.sp + LocalOffset(f, j), a.locals[j])
      BY <1>2, <1>14, <1>15, <2>2 DEF FrameHeld, LocalsHeld
    <3>2. PICK h \in Nat : h = j /\ h # i
      <4>1. DOMAIN a.locals = 1 .. l
        BY <1>1, <1>5 DEF Made
      <4>. QED
        BY <1>2, <1>5, <2>2, <4>1
    <3>3. a.entry.sp + LocalOffset(f, j) # y
      <4>1. LocalOffset(f, j) = -4 * (x + h)
        BY <1>5, <3>2 DEF LocalOffset
      <4>2. PICK w \in Int : w = e + (-4 * (x + h))
        OBVIOUS
      <4>3. u # w
        <5>1. w + 4 * x + 4 * h = e
          BY <4>2
        <5>2. h # i
          BY <3>2
        <5>. QED
          BY <1>20, <5>1, <5>2
      <4>. QED
        BY <1>5, <1>6, <4>1, <4>2, <4>3
    <3>4. Holds(m2, a.entry.sp + LocalOffset(f, j), a.locals[j])
      BY <1>22, <3>1, <3>3
    <3>. QED
      BY <1>2, <1>3, <2>2, <3>4
  <2>. QED
    BY <2>1, <2>2
<1>16. SpaceHeld(a, m2)
  <2>1. SUFFICES ASSUME a.alloca # NoSpace
                 PROVE  Holds(m2, a.alloca, AllocaVal(a.id)) /\ Holds(m2, a.alloca + 4, AllocaVal(a.id))
    BY DEF SpaceHeld
  <2>2. Holds(m, a.alloca, AllocaVal(a.id)) /\ Holds(m, a.alloca + 4, AllocaVal(a.id))
    BY <1>14, <2>1 DEF FrameHeld, SpaceHeld
  <2>3. PICK z \in Int, w \in Int :
          z = Bottom(a) /\ w = a.alloca /\ w = z - 8 /\ z + 4 * o <= e
    BY <1>1, <1>5, <2>1, ShapeOf DEF Shape, Made
  <2>6. w = z - 8 /\ z + 4 * o <= e
    BY <2>3
  <2>4. u # w /\ u # w + 4
    <3>1. e - 4 * o <= u
      BY <1>20, <1>21
    <3>2. w + 8 <= e - 4 * o
      BY <2>6
    <3>. QED
      BY <3>1, <3>2
  <2>5. a.alloca # y /\ a.alloca + 4 # y
    BY <1>6, <2>3, <2>4
  <2>. QED
    BY <1>22, <2>2, <2>5
<1>17. FrameHeld(b, m2)
  <2>1. /\ \A mm, j : SavedHeld(a, mm, j) => SavedHeld(b, mm, j)
        /\ \A mm, j : EhHeld(a, mm, j) => EhHeld(b, mm, j)
        /\ \A mm, j : HomesHeld(a, mm, j) => HomesHeld(b, mm, j)
        /\ \A mm : GPHeld(a, mm) => GPHeld(b, mm)
        /\ \A mm : ArgsHeld(a, mm) => ArgsHeld(b, mm)
    BY <1>2, SameEntryIs
  <2>2. /\ SavedHeld(b, m2, Len(SavedRegs(f))) /\ EhHeld(b, m2, Len(EhRegs(f)))
        /\ HomesHeld(b, m2, Len(Homed(f))) /\ GPHeld(b, m2) /\ ArgsHeld(b, m2)
    BY <1>9, <1>13, <1>14, <2>1 DEF FrameHeld
  <2>3. LocalsHeld(b, m2)
    BY <1>3, <1>15 DEF LocalsHeld
  <2>4. SpaceHeld(b, m2)
    BY <1>2, <1>3, <1>16 DEF SpaceHeld
  <2>. QED
    BY <1>3, <2>2, <2>3, <2>4 DEF FrameHeld
<1>18. InItsBody(b, r, m2)
  BY <1>1, <1>2, <1>3, <1>17 DEF InItsBody, OwnFP, OwnGP, Unsaved
<1>19. TopInv(b, r, m2)
  <2>1. b.phase \in {"enter", "call"} /\ b.at > Len(b.code)
    BY <1>1, <1>2
  <2>. QED
    BY <1>18, <2>1 DEF TopInv
<1>. QED
  BY <1>1, <1>2, <1>3, <1>4, <1>7, <1>9, <1>19 DEF BodyStepped, m2

\* It uses a callee-saved register that it saves.
LEMMA BodyUses ==
  ASSUME NEW a, NEW r, NEW m, BodyAt(a, r, m),
         NEW x \in Func(a).uses \ (IF HasFP(Func(a)) THEN {"fp"} ELSE {}),
         NEW v, v \in Int
  PROVE  BodyStepped(a, m, a, [r EXCEPT ![x] = v], m)
<1> DEFINE f == Func(a)
           r2 == [r EXCEPT ![x] = v]
<1>1. /\ a \in ActType /\ Made(a) /\ Handled /\ r \in RegFile /\ m \in Memory
      /\ a.phase \in {"enter", "call"} /\ a.at > Len(a.code) /\ InItsBody(a, r, m)
      /\ f \in Program
  BY ActOf DEF BodyAt
<1>2. x \in {"fp", "s0", "s1"} /\ (HasFP(f) => x # "fp")
  BY <1>1, InProgram DEF FuncType
<1>3. x \in ToSet(SavedRegs(f))
  BY <1>1, SavedOf DEF SavedFacts
<1>4. r2 \in RegFile /\ \A y \in RegNames : y # x => r2[y] = r[y]
  BY <1>1 DEF RegFile
<1>. HIDE DEF r2
<1>5. r2.sp = r.sp /\ r2.gp = r.gp /\ r2.a0 = r.a0 /\ r2.a1 = r.a1 /\ (HasFP(f) => r2.fp = r.fp)
  BY <1>2, <1>4 DEF RegNames
<1>6. Unsaved(a, r2, SavedSet)
  <2>1. ASSUME NEW y \in SavedSet, y \notin ToSet(SavedRegs(f)) PROVE r2[y] = a.entry[y]
    <3>1. y # x /\ y \in RegNames
      BY <1>3, <2>1 DEF SavedSet, KeptRegs, RegNames
    <3>2. r[y] = a.entry[y]
      BY <1>1, <2>1 DEF InItsBody, Unsaved
    <3>. QED
      BY <1>4, <3>1, <3>2
  <2>. QED
    BY <2>1 DEF Unsaved
<1>7. InItsBody(a, r2, m)
  BY <1>1, <1>5, <1>6 DEF InItsBody, OwnFP, OwnGP
<1>8. TopInv(a, r2, m)
  BY <1>1, <1>7 DEF TopInv
<1>9. Agree(m, m, End(a))
  BY DEF Agree
<1>. QED
  BY <1>1, <1>4, <1>8, <1>9 DEF BodyStepped, r2

LEMMA AllocaIs ==
  ASSUME NEW a \in ActType, NEW v \in Int, NEW b, b = [a EXCEPT !.alloca = v]
  PROVE  /\ b \in ActType /\ SameEntry(a, b) /\ b.next = a.next /\ b.alloca = v
         /\ b.at = a.at /\ b.code = a.code /\ b.phase = a.phase /\ b.locals = a.locals
<1>1. /\ [a EXCEPT !.alloca = v] \in ActType
      /\ [a EXCEPT !.alloca = v].alloca = v
      /\ [a EXCEPT !.alloca = v].id = a.id /\ [a EXCEPT !.alloca = v].fn = a.fn
      /\ [a EXCEPT !.alloca = v].entry = a.entry /\ [a EXCEPT !.alloca = v].passed = a.passed
      /\ [a EXCEPT !.alloca = v].extra = a.extra /\ [a EXCEPT !.alloca = v].at = a.at
      /\ [a EXCEPT !.alloca = v].locals = a.locals /\ [a EXCEPT !.alloca = v].next = a.next
      /\ [a EXCEPT !.alloca = v].phase = a.phase /\ [a EXCEPT !.alloca = v].code = a.code
  BY DEF ActType
<1>. QED
  BY <1>1 DEF SameEntry

\* It allocates stack space, below everything that it has.
LEMMA BodyAllocates ==
  ASSUME NEW a, NEW r, NEW m, BodyAt(a, r, m), Func(a).dyn, a.alloca = NoSpace,
         NEW z \in Int, z = r.sp - 8, z >= 0, NEW r2, r2 = [r EXCEPT !.sp = z],
         NEW m2, m2 = [m EXCEPT ![z] = AllocaVal(a.id), ![z + 4] = AllocaVal(a.id)],
         NEW b, b = [a EXCEPT !.alloca = z]
  PROVE  BodyStepped(a, m, b, r2, m2)
<1> DEFINE f == Func(a)
           v == AllocaVal(a.id)
<1>1. /\ a \in ActType /\ Made(a) /\ Handled /\ r \in RegFile /\ m \in Memory
      /\ a.phase \in {"enter", "call"} /\ a.at > Len(a.code) /\ InItsBody(a, r, m)
      /\ f \in Program /\ a.id \in Nat
  BY ActOf DEF BodyAt
<1>2. /\ b \in ActType /\ SameEntry(a, b) /\ b.next = a.next /\ b.alloca = z
      /\ b.at = a.at /\ b.code = a.code /\ b.phase = a.phase /\ b.locals = a.locals
  BY <1>1, AllocaIs
<1>3. /\ Func(b) = f /\ Bottom(b) = Bottom(a) /\ End(b) = End(a) /\ Passes(b)
      /\ b.entry = a.entry /\ b.id = a.id /\ CallSite(b) = CallSite(a)
  BY <1>1, <1>2, SameEntryIs DEF SameEntry, CallSite, Made
<1>4. r.sp = Bottom(a) /\ FrameHeld(a, m) /\ BodySP(a) = Bottom(a)
  BY <1>1 DEF InItsBody, BodySP
<1>5. PICK w \in Int, e \in Int, t \in Int, o \in Nat, g \in Nat :
        /\ w = Bottom(a) /\ w % 8 = 0 /\ e = a.entry.sp /\ o = Objects(f) /\ w + 4 * o <= e
        /\ t = End(a) /\ t = e + g /\ t <= MemTop
  <2>1. Shape(a)
    BY <1>1, ShapeOf
  <2>2. /\ Bottom(a) \in Int /\ a.entry.sp \in Int /\ End(a) \in Int /\ Objects(f) \in Nat
        /\ IncomingArgSize(f) \in Nat /\ Bottom(a) % 8 = 0
        /\ Bottom(a) + 4 * Objects(f) <= a.entry.sp
        /\ End(a) = a.entry.sp + IncomingArgSize(f) /\ End(a) <= MemTop
    BY <2>1 DEF Shape
  <2>. QED
    BY <2>2
<1>6. z = w - 8
  BY <1>4, <1>5
<1>7. z % 8 = 0 /\ z + 4 < MemTop /\ z + 4 < w /\ z < w
  <2>1. w <= t
    BY <1>5
  <2>. QED
    BY <1>5, <1>6, <2>1, BoundsAssumption
<1>8. z \in Addresses /\ z + 4 \in Addresses
  <2>1. z % 4 = 0 /\ (z + 4) % 4 = 0
    BY <1>7
  <2>2. z \in 0 .. MemTop /\ z + 4 \in 0 .. MemTop
    BY <1>7, BoundsAssumption
  <2>. QED
    BY <2>1, <2>2 DEF Addresses
<1>9. v \in Int
  <2>1. a.id \in Int
    BY <1>1
  <2>. QED
    BY <2>1, ValsTyped
<1>. HIDE DEF v
<1>10. PICK m1 : m1 = [m EXCEPT ![z] = v]
  OBVIOUS
<1>11. m1 \in Memory /\ \A c \in Addresses : m1[c] = IF c = z THEN v ELSE m[c]
  BY <1>1, <1>8, <1>9, <1>10 DEF Memory
<1>12. m2 = [m1 EXCEPT ![z + 4] = v]
  BY <1>10 DEF v
<1>13. m2 \in Memory /\ \A c \in Addresses : m2[c] = IF c = z + 4 THEN v ELSE m1[c]
  BY <1>8, <1>9, <1>11, <1>12 DEF Memory
<1>14. Holds(m2, z, v) /\ Holds(m2, z + 4, v)
  BY <1>8, <1>11, <1>13 DEF Holds
<1>15. Agree(m, m2, w)
  <2>1. ASSUME NEW c \in Addresses, c >= w PROVE m2[c] = m[c]
    <3>1. c # z /\ c # z + 4
      BY <1>5, <1>7, <2>1, AddressIs
    <3>. QED
      BY <1>11, <1>13, <3>1
  <2>. QED
    BY <2>1 DEF Agree
<1>16. FrameHeld(a, m2)
  <2>1. Below(a, w)
    BY <1>1, <1>4, <1>5, BelowBody
  <2>. QED
    BY <1>1, <1>4, <1>5, <1>15, <2>1, FrameStays
<1>17. Agree(m, m2, End(a))
  <2>1. w <= t
    BY <1>5
  <2>. QED
    BY <1>5, <1>15, <2>1, AgreeAbove
<1>18. z # NoSpace
  BY DEF NoSpace
<1>19. Made(b)
  <2>1. Coded(b)
    BY <1>1, <1>2, <1>3 DEF Made, Coded
  <2>2. z = Bottom(b) - 8
    BY <1>3, <1>5, <1>6
  <2>. QED
    BY <1>1, <1>2, <1>3, <2>1, <2>2 DEF Made
<1>20. FrameHeld(b, m2)
  <2>1. /\ \A mm, j : SavedHeld(a, mm, j) => SavedHeld(b, mm, j)
        /\ \A mm, j : EhHeld(a, mm, j) => EhHeld(b, mm, j)
        /\ \A mm, j : HomesHeld(a, mm, j) => HomesHeld(b, mm, j)
        /\ \A mm : GPHeld(a, mm) => GPHeld(b, mm)
        /\ \A mm : ArgsHeld(a, mm) => ArgsHeld(b, mm)
    BY <1>2, SameEntryIs
  <2>2. /\ SavedHeld(b, m2, Len(SavedRegs(f))) /\ EhHeld(b, m2, Len(EhRegs(f)))
        /\ HomesHeld(b, m2, Len(Homed(f))) /\ GPHeld(b, m2) /\ ArgsHeld(b, m2)
    BY <1>16, <2>1 DEF FrameHeld
  <2>3. LocalsHeld(b, m2)
    BY <1>2, <1>3, <1>16 DEF LocalsHeld, FrameHeld
  <2>4. SpaceHeld(b, m2)
    BY <1>2, <1>3, <1>14 DEF SpaceHeld, v
  <2>. QED
    BY <1>3, <2>2, <2>3, <2>4 DEF FrameHeld
<1>21. r2 \in RegFile /\ r2.sp = z /\ \A y \in RegNames : y # "sp" => r2[y] = r[y]
  BY <1>1 DEF RegFile, RegNames
<1>22. BodySP(b) = z
  <2>1. Bottom(b) - 8 = z
    BY <1>3, <1>5, <1>6
  <2>. QED
    BY <1>2, <1>18, <2>1 DEF BodySP
<1>23. InItsBody(b, r2, m2)
  <2>1. /\ OwnFP(a, r) /\ OwnGP(a, r) /\ Unsaved(a, r, SavedSet)
        /\ a.next = 1 => r.a0 = a.entry.a0 /\ r.a1 = a.entry.a1
    BY <1>1 DEF InItsBody
  <2>2. r2.fp = r.fp /\ r2.gp = r.gp /\ r2.a0 = r.a0 /\ r2.a1 = r.a1
        /\ \A y \in SavedSet : r2[y] = r[y]
    BY <1>21 DEF RegNames, SavedSet, KeptRegs
  <2>3. OwnFP(b, r2) /\ OwnGP(b, r2) /\ Unsaved(b, r2, SavedSet)
    BY <1>3, <2>1, <2>2 DEF OwnFP, OwnGP, Unsaved
  <2>. QED
    BY <1>2, <1>3, <1>20, <1>21, <1>22, <2>1, <2>2, <2>3 DEF InItsBody
<1>24. TopInv(b, r2, m2)
  BY <1>1, <1>2, <1>23 DEF TopInv
<1>. QED
  BY <1>2, <1>3, <1>13, <1>17, <1>19, <1>21, <1>24 DEF BodyStepped

\* It begins a call, or ends.
LEMMA BeginIs ==
  ASSUME NEW a \in ActType, NEW n \in Nat,
         NEW ph \in {"enter", "call", "tail", "leave", "throw"}, NEW c \in Seq(InstrType),
         NEW b, b = Begin([a EXCEPT !.next = n], ph, c)
  PROVE  /\ b \in ActType /\ SameFrame(a, b) /\ b.phase = ph /\ b.code = c /\ b.at = 1
         /\ b.next = n
<1>1. b = [[a EXCEPT !.next = n] EXCEPT !.phase = ph, !.code = c, !.at = 1]
  BY DEF Begin
<1>2. PICK s : s = [a EXCEPT !.next = n]
  OBVIOUS
<1>3. /\ s \in ActType /\ s.next = n
      /\ s.id = a.id /\ s.fn = a.fn /\ s.entry = a.entry /\ s.passed = a.passed
      /\ s.extra = a.extra /\ s.locals = a.locals /\ s.alloca = a.alloca
  BY <1>2 DEF ActType
<1>4. b = [s EXCEPT !.phase = ph, !.code = c, !.at = 1]
  BY <1>1, <1>2
<1>5. ASSUME NEW t \in ActType, NEW u, u = [t EXCEPT !.phase = ph, !.code = c, !.at = 1]
      PROVE  /\ u \in ActType /\ u.phase = ph /\ u.code = c /\ u.at = 1 /\ u.next = t.next
             /\ u.id = t.id /\ u.fn = t.fn /\ u.entry = t.entry /\ u.passed = t.passed
             /\ u.extra = t.extra /\ u.locals = t.locals /\ u.alloca = t.alloca
  BY ONLY <1>5 DEF ActType
<1>6. /\ b \in ActType /\ b.phase = ph /\ b.code = c /\ b.at = 1 /\ b.next = s.next
      /\ b.id = s.id /\ b.fn = s.fn /\ b.entry = s.entry /\ b.passed = s.passed
      /\ b.extra = s.extra /\ b.locals = s.locals /\ b.alloca = s.alloca
  BY Zenon, <1>3, <1>4, <1>5
<1>. QED
  BY <1>3, <1>6 DEF SameFrame, SameEntry

\* The activation b goes on where the body of a is.
Begun(a, r, m, b) ==
  /\ b \in ActType /\ SameFrame(a, b) /\ b.at = 1 /\ Len(b.code) \in Nat
  /\ b.next \in 1 .. Len(Func(a).calls) + 1 /\ BodyAt(a, r, m)

LEMMA BegunIs ==
  ASSUME NEW a, NEW r, NEW m, NEW b, Begun(a, r, m, b), Coded(b)
  PROVE  /\ Made(b) /\ Func(b) = Func(a) /\ b.entry = a.entry /\ End(b) = End(a) /\ b.id = a.id
         /\ BodySP(b) = BodySP(a) /\ r.sp = BodySP(b) /\ OwnFP(b, r) /\ OwnGP(b, r)
         /\ Unsaved(b, r, SavedSet) /\ FrameHeld(b, m) /\ Func(a) \in Program
         /\ SavedHeld(b, m, Len(SavedRegs(Func(b))))
<1>1. /\ a \in ActType /\ Made(a) /\ InItsBody(a, r, m) /\ b \in ActType /\ SameFrame(a, b)
      /\ b.next \in 1 .. Len(Func(a).calls) + 1 /\ Func(a) \in Program
  BY ActOf DEF BodyAt, Begun
<1>2. Made(b)
  BY <1>1, MadeSame
<1>3. SameEntry(a, b)
  BY <1>1 DEF SameFrame
<1>4. /\ r.sp = BodySP(a) /\ OwnFP(a, r) /\ OwnGP(a, r) /\ Unsaved(a, r, SavedSet) /\ FrameHeld(a, m)
  BY <1>1 DEF InItsBody
<1>5. OwnFP(b, r) /\ OwnGP(b, r) /\ Unsaved(b, r, SavedSet)
  BY <1>3, <1>4, SameEntryIs
<1>6. BodySP(b) = BodySP(a) /\ FrameHeld(b, m)
  BY <1>1, <1>4, SameFrameIs
<1>7. Func(b) = Func(a) /\ b.entry = a.entry /\ End(b) = End(a) /\ b.id = a.id
  BY <1>3, SameEntryIs DEF SameEntry
<1>8. SavedHeld(b, m, Len(SavedRegs(Func(b))))
  BY <1>6 DEF FrameHeld
<1>. QED
  BY <1>1, <1>2, <1>4, <1>5, <1>6, <1>7, <1>8

LEMMA BegunStepped ==
  ASSUME NEW a, NEW r, NEW m, NEW b, Begun(a, r, m, b), Coded(b), TopInv(b, r, m)
  PROVE  BodyStepped(a, m, b, r, m)
<1>1. Agree(m, m, End(a)) /\ r \in RegFile /\ m \in Memory /\ b \in ActType
  BY DEF Agree, Begun, BodyAt
<1>. QED
  BY <1>1, BegunIs DEF BodyStepped

LEMMA BodyCalls ==
  ASSUME NEW a, NEW r, NEW m, BodyAt(a, r, m), NEW k \in DOMAIN Func(a).calls, k = a.next,
         ~IsTail(Func(a), k), NEW b,
         b = Begin([a EXCEPT !.next = k + 1], "call", CallCode(Func(a), a.id, k))
  PROVE  BodyStepped(a, m, b, r, m)
<1> DEFINE f == Func(a)
           c == CallCode(f, a.id, k)
<1>1. a \in ActType /\ f \in Program /\ a.id \in Nat
  BY ActOf DEF BodyAt
<1>2. k \in Nat /\ k + 1 \in 1 .. Len(f.calls) + 1
  <2>1. f.calls \in Seq(CallType)
    BY <1>1, InProgram DEF FuncType
  <2>2. k \in 1 .. Len(f.calls) /\ Len(f.calls) \in Nat
    BY <2>1
  <2>. QED
    BY <2>2
<1>3. c \in Seq(InstrType) /\ Len(c) \in Nat
  BY <1>1, CallIs
<1>. HIDE DEF c
<1>4. /\ b \in ActType /\ SameFrame(a, b) /\ b.phase = "call" /\ b.code = c /\ b.at = 1
      /\ b.next = k + 1
  <2>1. k + 1 \in Nat /\ b = Begin([a EXCEPT !.next = k + 1], "call", c)
    BY <1>2 DEF c
  <2>. QED
    BY <1>1, <1>3, <2>1, BeginIs
<1>5. Begun(a, r, m, b)
  BY <1>2, <1>3, <1>4 DEF Begun
<1>6. CallSite(b) = k /\ Func(b) = f /\ b.id = a.id
  <2>1. (k + 1) - 1 = k
    BY <1>2
  <2>. QED
    BY <1>4, <2>1, SameEntryIs DEF CallSite, SameFrame, SameEntry
<1>7. Coded(b)
  <2>1. k \in RealCalls(f)
    BY DEF RealCalls
  <2>2. b.at \in 1 .. Len(b.code) + 1
    BY <1>3, <1>4
  <2>. QED
    BY <1>4, <1>6, <2>1, <2>2 DEF Coded, c
<1>8. /\ Made(b) /\ r.sp = BodySP(b) /\ OwnFP(b, r) /\ OwnGP(b, r)
      /\ Unsaved(b, r, SavedSet) /\ FrameHeld(b, m)
  BY <1>5, <1>7, BegunIs
<1>9. PICK x \in Nat, q \in Nat, t \in Nat, n \in Nat : CallPlaced(b, x, q, t, n)
  BY <1>4, <1>8, CallPlacedOf
<1>10. /\ x = AfterAdjust(f) /\ q = CallAt(f, k) /\ t = Len(c) /\ q = x + n + 1
       /\ (HasReservedCallFrame(f) => x = 0) /\ (~HasReservedCallFrame(f) => x = 1)
  BY <1>4, <1>6, <1>9 DEF CallPlaced
<1>11. 1 <= t
  <2>1. t = q + 1 + x \/ t = q + x
    BY <1>9 DEF CallPlaced
  <2>. QED
    BY <1>10, <2>1
<1>12. r.sp = IF 1 <= x \/ 1 > t THEN BodySP(b) ELSE CallSP(b)
  <2>1. CASE HasReservedCallFrame(f)
    <3>1. CallSP(b) = BodySP(b) - 0 /\ BodySP(b) \in Int
      BY <1>4, <1>6, <1>8, <2>1, ShapeOf DEF CallSP, Shape
    <3>. QED
      BY <1>8, <3>1
  <2>2. CASE ~HasReservedCallFrame(f)
    BY <1>8, <1>10, <2>2
  <2>. QED
    BY <2>1, <2>2
<1>13. WordsPlaced(b, r, m, CallSP(b), 1 - 1 - x)
  <2>1. 1 - 1 - x \in Int /\ 1 - 1 - x <= 0
    OBVIOUS
  <2>. QED
    BY <1>4, <1>6, <2>1, WordsPlacedIs
<1>14. Calling(b, 1, r, m)
  BY <1>4, <1>6, <1>8, <1>10, <1>12, <1>13 DEF Calling
<1>15. TopInv(b, r, m)
  <2>1. ~(b.at > Len(b.code))
    BY <1>4, <1>10, <1>11
  <2>. QED
    BY <1>4, <1>14, <2>1 DEF TopInv
<1>. QED
  BY <1>5, <1>7, <1>15, BegunStepped

LEMMA BodyTailCalls ==
  ASSUME NEW a, NEW r, NEW m, BodyAt(a, r, m), NEW k \in DOMAIN Func(a).calls, k = a.next,
         IsTail(Func(a), k), NEW b,
         b = Begin([a EXCEPT !.next = k + 1], "tail", TailCallCode(Func(a), a.id, k))
  PROVE  BodyStepped(a, m, b, r, m)
<1> DEFINE f == Func(a)
           c == TailCallCode(f, a.id, k)
<1>1. a \in ActType /\ f \in Program /\ a.id \in Nat
  BY ActOf DEF BodyAt
<1>2. k \in Nat /\ k + 1 \in 1 .. Len(f.calls) + 1
  <2>1. f.calls \in Seq(CallType)
    BY <1>1, InProgram DEF FuncType
  <2>2. k \in 1 .. Len(f.calls) /\ Len(f.calls) \in Nat
    BY <2>1
  <2>. QED
    BY <2>2
<1>3. /\ c \in Seq(InstrType) /\ Len(c) \in Nat /\ Turns(f, k) \in Nat
      /\ Len(c) = Turns(f, k) + AfterFree(f) + 1 /\ AfterFree(f) \in Nat
  BY SMTT(60), <1>1, TailIs, TurnOf, EndsOf DEF Ends
<1>. HIDE DEF c
<1>4. /\ b \in ActType /\ SameFrame(a, b) /\ b.phase = "tail" /\ b.code = c /\ b.at = 1
      /\ b.next = k + 1
  <2>1. k + 1 \in Nat /\ b = Begin([a EXCEPT !.next = k + 1], "tail", c)
    BY <1>2 DEF c
  <2>. QED
    BY <1>1, <1>3, <2>1, BeginIs
<1>5. Begun(a, r, m, b)
  BY <1>2, <1>3, <1>4 DEF Begun
<1>6. CallSite(b) = k /\ Func(b) = f /\ b.id = a.id
  <2>1. (k + 1) - 1 = k
    BY <1>2
  <2>. QED
    BY <1>4, <2>1, SameEntryIs DEF CallSite, SameFrame, SameEntry
<1>7. Coded(b)
  <2>1. b.at \in 1 .. Len(b.code) + 1
    BY <1>3, <1>4
  <2>. QED
    BY <1>4, <1>6, <2>1 DEF Coded, c
<1>8. /\ Made(b) /\ r.sp = BodySP(b) /\ OwnFP(b, r) /\ Unsaved(b, r, SavedSet)
      /\ SavedHeld(b, m, Len(SavedRegs(Func(b))))
  BY <1>5, <1>7, BegunIs
<1>9. PICK n \in Nat : n = Turns(f, k)
  BY <1>3
<1>10. Leaving(b, 1 - n, r, m, SavedSet)
  <2>1. 1 - n \in Int /\ 1 - n <= 1
    OBVIOUS
  <2>. QED
    BY <1>4, <1>8, <2>1, LeavingEarly
<1>11. WordsPlaced(b, r, m, b.entry.sp, 1 - 1)
  <2>1. 1 - 1 \in Int /\ 1 - 1 <= 0
    OBVIOUS
  <2>. QED
    BY <1>4, <1>6, <2>1, WordsPlacedIs
<1>12. TailCalling(b, 1, r, m)
  BY <1>6, <1>9, <1>10, <1>11, TailCallingIs
<1>13. TopInv(b, r, m)
  <2>1. ~(b.at > Len(b.code))
    BY <1>3, <1>4
  <2>. QED
    BY <1>4, <1>12, <2>1 DEF TopInv
<1>. QED
  BY <1>5, <1>7, <1>13, BegunStepped

\* Begin leaves the next call as it is.
LEMMA BeginSame ==
  ASSUME NEW a \in ActType, NEW ph, NEW c
  PROVE  Begin(a, ph, c) = Begin([a EXCEPT !.next = a.next], ph, c)
<1>1. a = [a EXCEPT !.next = a.next]
  BY DEF ActType
<1>. QED
  BY <1>1

LEMMA BodyReturns ==
  ASSUME NEW a, NEW r, NEW m, BodyAt(a, r, m), NEW b, b = Begin(a, "leave", LeaveCode(Func(a)))
  PROVE  BodyStepped(a, m, b, r, m)
<1> DEFINE f == Func(a)
<1>1. a \in ActType /\ f \in Program /\ a.next \in 1 .. Len(f.calls) + 1 /\ a.next \in Nat
  BY ActOf DEF BodyAt, Made
<1>2. PICK c \in Seq(InstrType), n \in Nat : c = LeaveCode(f) /\ Len(c) = n + 1
  BY <1>1, LeaveIs, EndsOf DEF Ends
<1>3. b = Begin([a EXCEPT !.next = a.next], "leave", c)
  BY <1>1, <1>2, BeginSame
<1>4. /\ b \in ActType /\ SameFrame(a, b) /\ b.phase = "leave" /\ b.code = c /\ b.at = 1
      /\ b.next = a.next
  BY <1>1, <1>2, <1>3, BeginIs
<1>5. Begun(a, r, m, b)
  BY <1>1, <1>2, <1>4 DEF Begun
<1>6. Func(b) = f
  BY <1>4, SameEntryIs DEF SameFrame
<1>7. Coded(b)
  <2>1. b.at \in 1 .. Len(b.code) + 1
    BY <1>2, <1>4
  <2>. QED
    BY <1>2, <1>4, <1>6, <2>1 DEF Coded
<1>8. /\ Made(b) /\ r.sp = BodySP(b) /\ OwnFP(b, r) /\ Unsaved(b, r, SavedSet)
      /\ SavedHeld(b, m, Len(SavedRegs(Func(b))))
  BY <1>5, <1>7, BegunIs
<1>9. Leaving(b, 1, r, m, SavedSet)
  <2>1. 1 \in Int /\ 1 <= 1
    OBVIOUS
  <2>. QED
    BY <1>4, <1>8, <2>1, LeavingEarly
<1>10. TopInv(b, r, m)
  <2>1. ~(b.at > Len(b.code))
    BY <1>2, <1>4
  <2>. QED
    BY <1>4, <1>9, <2>1 DEF TopInv
<1>. QED
  BY <1>5, <1>7, <1>10, BegunStepped

LEMMA BodyThrows ==
  ASSUME NEW a, NEW r, NEW m, BodyAt(a, r, m), Func(a).eh,
         NEW o \in {0, 8}, o <= IncomingArgSize(Func(a)),
         NEW r2, r2 = [r EXCEPT !.v0 = Handler, !.v1 = o],
         NEW b, b = Begin(a, "throw", EhReturnCode(Func(a)))
  PROVE  BodyStepped(a, m, b, r2, m)
<1> DEFINE f == Func(a)
<1>1. /\ a \in ActType /\ f \in Program /\ a.next \in 1 .. Len(f.calls) + 1 /\ a.next \in Nat
      /\ r \in RegFile
  BY ActOf DEF BodyAt, Made
<1>2. PICK c \in Seq(InstrType), n \in Nat :
        c = EhReturnCode(f) /\ Len(c) = n + 3 /\ n = AfterFree(f)
  BY <1>1, ThrowIs, EndsOf DEF Ends
<1>3. b = Begin([a EXCEPT !.next = a.next], "throw", c)
  BY <1>1, <1>2, BeginSame
<1>4. /\ b \in ActType /\ SameFrame(a, b) /\ b.phase = "throw" /\ b.code = c /\ b.at = 1
      /\ b.next = a.next
  BY <1>1, <1>2, <1>3, BeginIs
<1>5. r2 \in RegFile /\ r2.v0 = Handler /\ r2.v1 = o
      /\ \A y \in RegNames : y \notin {"v0", "v1"} => r2[y] = r[y]
  <2>1. Handler \in Int
    BY DEF Handler, Val
  <2>2. o \in Int
    OBVIOUS
  <2>. QED
    BY <1>1, <2>1, <2>2 DEF RegFile, RegNames
<1>6. BodyAt(a, r2, m)
  <2>1. /\ r2.sp = r.sp /\ r2.fp = r.fp /\ r2.gp = r.gp /\ r2.a0 = r.a0 /\ r2.a1 = r.a1
        /\ \A y \in SavedSet : r2[y] = r[y]
    BY <1>5 DEF RegNames, SavedSet, KeptRegs
  <2>2. InItsBody(a, r2, m)
    BY <2>1 DEF BodyAt, InItsBody, OwnFP, OwnGP, Unsaved
  <2>. QED
    BY <1>5, <2>2 DEF BodyAt
<1>7. Begun(a, r2, m, b)
  BY <1>1, <1>2, <1>4, <1>6 DEF Begun
<1>8. Func(b) = f
  BY <1>4, SameEntryIs DEF SameFrame
<1>9. Coded(b)
  <2>1. b.at \in 1 .. Len(b.code) + 1
    BY <1>2, <1>4
  <2>. QED
    BY <1>2, <1>4, <1>8, <2>1 DEF Coded
<1>10. /\ Made(b) /\ r2.sp = BodySP(b) /\ OwnFP(b, r2) /\ Unsaved(b, r2, SavedSet)
       /\ SavedHeld(b, m, Len(SavedRegs(Func(b))))
  BY ONLY <1>7, <1>9, BegunIs
<1>11. Leaving(b, 1, r2, m, SavedSet)
  <2>1. 1 \in Int /\ 1 <= 1
    OBVIOUS
  <2>. QED
    BY <1>4, <1>10, <2>1, LeavingEarly
<1>12. Throwing(b, 1, r2, m)
  <2>1. r2.v0 = Handler /\ r2.v1 \in {0, 8} /\ r2.v1 <= IncomingArgSize(f)
    BY <1>5
  <2>2. 1 <= n + 1 /\ 1 # n + 2 /\ ~(1 > n + 2) /\ ~(1 > n + 1)
    OBVIOUS
  <2>. QED
    BY <1>2, <1>8, <1>11, <2>1, <2>2 DEF Throwing
<1>13. TopInv(b, r2, m)
  <2>1. ~(b.at > Len(b.code))
    BY <1>2, <1>4
  <2>. QED
    BY <1>4, <1>12, <2>1 DEF TopInv
<1>. QED
  BY <1>7, <1>9, <1>13, BegunStepped

-----------------------------------------------------------------------------
(***************************************************************************)
(* The steps of the program.                                               *)
(***************************************************************************)
LEMMA TopOf ==
  ASSUME IInv, acts # <<>>
  PROVE  /\ acts \in Seq(ActType) /\ Len(acts) \in Nat /\ Len(acts) # 0
         /\ Top = acts[Len(acts)] /\ Top \in ActType /\ Made(Top)
         /\ TopInv(Top, regs, mem) /\ Stacked(acts, mem) /\ Handled
         /\ regs \in RegFile /\ mem \in Memory
         /\ writes \in 0 .. MaxWrites /\ interrupts \in 0 .. MaxInterrupts
<1>1. /\ acts \in Seq(ActType) /\ TopInv(Top, regs, mem) /\ Stacked(acts, mem) /\ Handled
      /\ regs \in RegFile /\ mem \in Memory
      /\ writes \in 0 .. MaxWrites /\ interrupts \in 0 .. MaxInterrupts
  BY DEF IInv, StateTyped, RegFile, Memory
<1>2. Len(acts) \in Nat /\ Len(acts) # 0
  BY <1>1
<1>3. Len(acts) \in 1 .. Len(acts)
  BY <1>2
<1>4. acts[Len(acts)] \in ActType /\ Made(acts[Len(acts)])
  BY <1>1, <1>3, StackedIs
<1>. QED
  BY <1>1, <1>2, <1>4 DEF Top

\* Bounds on what bodies and interrupts do.
BoundsKept == writes' \in 0 .. MaxWrites /\ interrupts' \in 0 .. MaxInterrupts

\* The running activation becomes b, or is replaced by it.
TopBecomes(b) ==
  /\ b \in ActType /\ Made(b) /\ SameKept(Top.entry, b.entry) /\ End(b) <= End(Top)
  /\ regs' \in RegFile /\ mem' \in Memory /\ Agree(mem, mem', End(Top))
  /\ TopInv(b, regs', mem') /\ acts' = SetTop(b)

LEMMA TopMoves ==
  ASSUME IInv, acts # <<>>, NEW b, TopBecomes(b), BoundsKept
  PROVE  IInv'
<1>1. /\ acts \in Seq(ActType) /\ Len(acts) \in Nat /\ Len(acts) # 0
      /\ Top = acts[Len(acts)] /\ Stacked(acts, mem) /\ Handled
  BY TopOf
<1>2. /\ b \in ActType /\ Made(b) /\ SameKept(acts[Len(acts)].entry, b.entry)
      /\ End(b) <= End(acts[Len(acts)])
      /\ regs' \in RegFile /\ mem' \in Memory /\ Agree(mem, mem', End(acts[Len(acts)]))
      /\ TopInv(b, regs', mem')
  BY <1>1 DEF TopBecomes
<1>3. acts' = [acts EXCEPT ![Len(acts)] = b]
  BY DEF TopBecomes, SetTop
<1>4. acts' \in Seq(ActType) /\ Len(acts') = Len(acts) /\ acts'[Len(acts)] = b
  BY <1>1, <1>2, <1>3
<1>5. Stacked(acts', mem')
  BY <1>1, <1>2, <1>3, StackedTop
<1>6. Top' = b
  BY <1>4 DEF Top
<1>7. regs'.sp \in Int /\ regs'.sp % 8 = 0 /\ regs'.sp <= MemTop
  BY <1>2, TopSP
<1>8. StateTyped'
  BY <1>2, <1>4, <1>7 DEF StateTyped, RegFile, Memory, BoundsKept
<1>. QED
  BY <1>1, <1>2, <1>5, <1>6, <1>8 DEF IInv

LEMMA InstrOf ==
  ASSUME NEW i \in InstrType
  PROVE  /\ i.op = "addsp" => i.imm \in Int
         /\ i.op \in {"st", "ld"} => i.reg \in RegNames /\ i.slot \in SlotType
         /\ i.op = "stv" => i.val \in Int /\ i.slot \in SlotType
         /\ i.op = "li" => i.reg \in RegNames /\ i.val \in Int
         /\ i.op = "copy" => i.reg \in RegNames /\ i.from \in RegNames
         /\ i.op \in {"call", "jump"} => i.site \in Nat
<1>1. CASE i \in [op : {"addsp"}, imm : Int]
  BY <1>1
<1>2. CASE i \in [op : {"st", "ld"}, reg : RegNames, slot : SlotType]
  BY <1>2
<1>3. CASE i \in [op : {"stv"}, val : Int, slot : SlotType]
  BY <1>3
<1>4. CASE i \in [op : {"li"}, reg : RegNames, val : Int]
  BY <1>4
<1>5. CASE i \in [op : {"copy"}, reg : RegNames, from : RegNames]
  BY <1>5
<1>6. CASE i \in [op : {"call", "jump"}, site : Nat]
  BY <1>6
<1>7. CASE i \in [op : {"addspv1", "ret"}]
  BY <1>7
<1>. QED
  BY <1>1, <1>2, <1>3, <1>4, <1>5, <1>6, <1>7 DEF InstrType

LEMMA SetsIs ==
  ASSUME NEW r \in RegFile, NEW x \in RegNames, NEW v \in Int
  PROVE  Sets(r, [r EXCEPT ![x] = v], x, v)
BY DEF Sets, RegFile

LEMMA PlaceTyped ==
  ASSUME NEW r \in RegFile, NEW s \in SlotType
  PROVE  Place1(r, s) \in Int
<1>1. s.base \in RegNames /\ s.off \in Int
  BY DEF SlotType, RegNames
<1>2. r[s.base] \in Int
  BY <1>1, RegInt
<1>. QED
  BY <1>1, <1>2 DEF Place1

LEMMA InstrTyped ==
  ASSUME IInv, acts # <<>>, Running
  PROVE  Instr \in InstrType /\ Instr = Top.code[Top.at] /\ Top.at <= Len(Top.code)
<1>1. Top \in ActType /\ Made(Top)
  BY TopOf
<1>2. Top.code \in Seq(InstrType) /\ Top.at \in 1 .. Len(Top.code)
  BY <1>1, AdvancedIs, ActOf DEF Running
<1>. QED
  BY <1>2 DEF Instr, Running

\* The straight-line instructions have the effect that the proofs use.
Straight ==
  \/ AdjustStackPtr \/ AddToStackPtr \/ LoadImmediate \/ CopyReg
  \/ LoadFromStack \/ StoreReg \/ StoreValue

LEMMA ComputesIs ==
  ASSUME IInv, acts # <<>>, NEW x \in RegNames, NEW v \in Int,
         Computes([regs EXCEPT ![x] = v])
  PROVE  /\ Sets(regs, regs', x, v) /\ mem' = mem /\ acts' = SetTop(Advanced(Top))
         /\ UNCHANGED <<writes, interrupts>>
<1>1. regs \in RegFile
  BY TopOf
<1>. QED
  BY <1>1, SetsIs DEF Computes

LEMMA StoresIs ==
  ASSUME IInv, acts # <<>>, NEW b, NEW v \in Int, Stores(b, v)
  PROVE  /\ Puts(mem, mem', b, v) /\ regs' = regs /\ acts' = SetTop(Advanced(Top))
         /\ UNCHANGED <<writes, interrupts>>
<1>1. mem \in Memory
  BY TopOf
<1>2. mem' = IF b \in Addresses THEN [mem EXCEPT ![b] = v] ELSE mem
  BY DEF Stores, Store
<1>3. Puts(mem, mem', b, v)
  <2>1. CASE b \in Addresses
    BY <1>1, <1>2, <2>1 DEF Memory, Puts
  <2>2. CASE b \notin Addresses
    BY <1>1, <1>2, <2>2 DEF Puts
  <2>. QED
    BY <2>1, <2>2
<1>. QED
  BY <1>3 DEF Stores

LEMMA StraightIs ==
  ASSUME IInv, Straight
  PROVE  /\ acts # <<>> /\ Running /\ Effect(Instr, regs, mem, regs', mem')
         /\ acts' = SetTop(Advanced(Top)) /\ UNCHANGED <<writes, interrupts>>
<1>1. acts # <<>> /\ Running
  BY DEF Straight, AdjustStackPtr, AddToStackPtr, LoadImmediate, CopyReg, LoadFromStack,
         StoreReg, StoreValue, Executes
<1>2. PICK i \in InstrType : i = Instr
  BY <1>1, InstrTyped
<1>3. regs \in RegFile /\ mem \in Memory
  BY <1>1, TopOf
<1>4. /\ "sp" \in RegNames /\ regs.sp \in Int /\ regs.v1 \in Int
      /\ \A x \in RegNames : regs[x] \in Int
  BY <1>3, RegInt DEF RegNames
<1>5. CASE AdjustStackPtr
  <2>1. i.op = "addsp" /\ Computes([regs EXCEPT !["sp"] = regs.sp + i.imm])
    BY <1>2, <1>5 DEF AdjustStackPtr, Executes
  <2>2. regs.sp + i.imm \in Int
    BY <1>4, <2>1, InstrOf
  <2>. QED
    BY <1>1, <1>2, <1>4, <2>1, <2>2, ComputesIs DEF Effect
<1>6. CASE AddToStackPtr
  <2>1. i.op = "addspv1" /\ Computes([regs EXCEPT !["sp"] = regs.sp + regs.v1])
    BY <1>2, <1>6 DEF AddToStackPtr, Executes
  <2>2. regs.sp + regs.v1 \in Int
    BY <1>4
  <2>. QED
    BY <1>1, <1>2, <1>4, <2>1, <2>2, ComputesIs DEF Effect
<1>7. CASE LoadImmediate
  <2>1. i.op = "li" /\ Computes([regs EXCEPT ![i.reg] = i.val])
    BY <1>2, <1>7 DEF LoadImmediate, Executes
  <2>2. i.reg \in RegNames /\ i.val \in Int
    BY <2>1, InstrOf
  <2>. QED
    BY <1>1, <1>2, <2>1, <2>2, ComputesIs DEF Effect
<1>8. CASE CopyReg
  <2>1. i.op = "copy" /\ Computes([regs EXCEPT ![i.reg] = regs[i.from]])
    BY <1>2, <1>8 DEF CopyReg, Executes
  <2>2. i.reg \in RegNames /\ regs[i.from] \in Int
    BY <1>4, <2>1, InstrOf
  <2>. QED
    BY <1>1, <1>2, <2>1, <2>2, ComputesIs DEF Effect
<1>9. CASE LoadFromStack
  <2>1. i.op = "ld" /\ Computes([regs EXCEPT ![i.reg] = Load(Place1(regs, i.slot))])
    BY <1>2, <1>9 DEF LoadFromStack, Executes, Address, Place1
  <2>2. PICK v \in Int : v = Load(Place1(regs, i.slot))
                         /\ (Place1(regs, i.slot) \in Addresses => v = mem[Place1(regs, i.slot)])
    BY <1>3 DEF Load, Memory, Junk
  <2>3. i.reg \in RegNames
    BY <2>1, InstrOf
  <2>4. Sets(regs, regs', i.reg, v) /\ mem' = mem /\ acts' = SetTop(Advanced(Top))
        /\ UNCHANGED <<writes, interrupts>>
    BY <1>1, <2>1, <2>2, <2>3, ComputesIs
  <2>5. Gets(regs, regs', i.reg, mem, Place1(regs, i.slot))
    BY <2>2, <2>4 DEF Gets
  <2>. QED
    BY <1>1, <1>2, <2>1, <2>4, <2>5 DEF Effect
<1>10. CASE StoreReg
  <2>1. i.op = "st" /\ Stores(Place1(regs, i.slot), regs[i.reg])
    BY <1>2, <1>10 DEF StoreReg, Executes, Address, Place1
  <2>2. regs[i.reg] \in Int
    BY <1>4, <2>1, InstrOf
  <2>. QED
    BY <1>1, <1>2, <2>1, <2>2, StoresIs DEF Effect
<1>11. CASE StoreValue
  <2>1. i.op = "stv" /\ Stores(Place1(regs, i.slot), i.val)
    BY <1>2, <1>11 DEF StoreValue, Executes, Address, Place1
  <2>2. i.val \in Int
    BY <2>1, InstrOf
  <2>. QED
    BY <1>1, <1>2, <2>1, <2>2, StoresIs DEF Effect
<1>. QED
  BY <1>5, <1>6, <1>7, <1>8, <1>9, <1>10, <1>11 DEF Straight

LEMMA SameKeptItself ==
  ASSUME NEW r
  PROVE  SameKept(r, r)
BY DEF SameKept

LEMMA RunningStepping ==
  ASSUME IInv, StackSuffices, acts # <<>>, Running
  PROVE  Stepping(Top, regs, mem)
<1>1. Top.at <= Len(Top.code)
  BY DEF Running
<1>. QED
  BY <1>1, TopOf DEF Stepping, StackSuffices

LEMMA StraightKeeps ==
  ASSUME IInv, StackSuffices, Straight
  PROVE  IInv'
<1>1. /\ acts # <<>> /\ Running /\ Effect(Top.code[Top.at], regs, mem, regs', mem')
      /\ acts' = SetTop(Advanced(Top)) /\ UNCHANGED <<writes, interrupts>>
  BY StraightIs DEF Instr
<1>2. Stepped(Top, mem, regs', mem')
  BY <1>1, RunningStepping, StepTop
<1>3. Advanced(Top) \in ActType /\ Made(Advanced(Top)) /\ SameBody(Top, Advanced(Top))
  BY <1>1, TopOf, AdvancedIs DEF Running
<1>4. Advanced(Top).entry = Top.entry /\ End(Advanced(Top)) = End(Top) /\ End(Top) \in Int
  <2>1. SameEntry(Top, Advanced(Top))
    BY <1>3 DEF SameBody, SameFrame
  <2>. QED
    BY <1>1, <2>1, TopOf, SameEntryIs, ShapeOf DEF SameEntry, Shape
<1>5. TopBecomes(Advanced(Top))
  BY <1>1, <1>2, <1>3, <1>4, SameKeptItself DEF TopBecomes, Stepped
<1>6. BoundsKept
  BY <1>1, TopOf DEF BoundsKept
<1>. QED
  BY <1>1, <1>5, <1>6, TopMoves

LEMMA EnteredIs ==
  ASSUME NEW k, k = CallSite(Top), NEW r
  PROVE  EntersFrom(Top, r, Entered(k, r))
BY DEF EntersFrom, Entered

LEMMA JumpAndLinkKeeps ==
  ASSUME IInv, StackSuffices, JumpAndLink
  PROVE  IInv'
<1> DEFINE b == Advanced(Top)
           c == Entered(CallSite(Top), regs')
           s == SetTop(b)
<1>1. acts # <<>> /\ Running /\ Instr.op = "call"
  BY DEF JumpAndLink, Executes
<1>2. /\ Stepping(Top, regs, mem) /\ Top.code[Top.at].op = "call" /\ Instr = Top.code[Top.at]
      /\ Top.at <= Len(Top.code)
  BY <1>1, RunningStepping, InstrTyped
<1>3. /\ acts \in Seq(ActType) /\ Len(acts) \in Nat /\ Len(acts) # 0 /\ Top = acts[Len(acts)]
      /\ Top \in ActType /\ Made(Top) /\ Stacked(acts, mem) /\ Handled
      /\ regs \in RegFile /\ mem \in Memory
      /\ writes \in 0 .. MaxWrites /\ interrupts \in 0 .. MaxInterrupts
  BY <1>1, TopOf
<1>4. Instr.site = CallSite(Top)
  <2>1. Top.code[Top.at].op \in Leaves
    BY <1>2 DEF Leaves
  <2>2. LeavesAt(Top)
    BY <1>2, <1>3, <2>1, LeavesAtOf
  <2>. QED
    BY <1>2, <2>2 DEF LeavesAt
<1>5. /\ regs' = [regs EXCEPT !["lr"] = ReturnTo(Top.id, CallSite(Top))]
      /\ acts' = Append(s, c) /\ UNCHANGED <<mem, writes, interrupts>>
  BY <1>4 DEF JumpAndLink
<1>6. regs' \in RegFile /\ \A x \in RegNames : x # "lr" => regs'[x] = regs[x]
  <2>1. Top.id \in Int /\ CallSite(Top) \in Int
    BY <1>3, ActOf DEF CallSite
  <2>2. ReturnTo(Top.id, CallSite(Top)) \in Int
    BY <2>1, ValsTyped
  <2>. QED
    BY <1>3, <1>5, <2>2 DEF RegFile
<1>7. EntersFrom(Top, regs', c)
  BY EnteredIs
<1>. HIDE DEF c
<1>8. /\ b \in ActType /\ Made(b) /\ SameBody(Top, b) /\ Waiting(b, regs', mem)
      /\ c \in ActType /\ Made(c) /\ c.entry = regs' /\ TopInv(c, regs', mem)
      /\ End(c) <= Guard(b)
  BY <1>2, <1>6, <1>7, CallsOut
<1>. HIDE DEF b
<1>9. b.entry = Top.entry /\ End(b) = End(Top) /\ End(Top) \in Int
  <2>1. SameEntry(Top, b)
    BY <1>8 DEF SameBody, SameFrame
  <2>. QED
    BY <1>3, <2>1, SameEntryIs, ShapeOf DEF SameEntry, Shape
<1>10. s = [acts EXCEPT ![Len(acts)] = b]
  BY DEF SetTop
<1>. HIDE DEF s
<1>11. s \in Seq(ActType) /\ Len(s) = Len(acts) /\ s[Len(acts)] = b
  BY <1>3, <1>8, <1>10
<1>12. Stacked(s, mem)
  <2>1. SameKept(acts[Len(acts)].entry, b.entry) /\ End(b) <= End(acts[Len(acts)])
        /\ Agree(mem, mem, End(acts[Len(acts)]))
    BY <1>3, <1>9, SameKeptItself DEF Agree
  <2>. QED
    BY <1>3, <1>8, <1>10, <2>1, StackedTop
<1>13. Stacked(acts', mem')
  <2>1. Waiting(s[Len(s)], c.entry, mem) /\ End(c) <= Guard(s[Len(s)]) /\ Len(s) # 0
    BY <1>3, <1>8, <1>11
  <2>. QED
    BY <1>5, <1>8, <1>11, <1>12, <2>1, StackedPush
<1>14. acts' \in Seq(ActType) /\ acts'[Len(acts')] = c
  BY <1>5, <1>8, <1>11
<1>15. Top' = c
  BY <1>14 DEF Top
<1>16. regs'.sp \in Int /\ regs'.sp % 8 = 0 /\ regs'.sp <= MemTop
  BY <1>8, TopSP
<1>17. StateTyped'
  BY <1>3, <1>5, <1>6, <1>14, <1>16 DEF StateTyped, RegFile, Memory
<1>. QED
  BY <1>3, <1>5, <1>8, <1>13, <1>15, <1>17 DEF IInv

LEMMA TailJumpKeeps ==
  ASSUME IInv, StackSuffices, TailJump
  PROVE  IInv'
<1> DEFINE c == Entered(CallSite(Top), regs)
<1>1. acts # <<>> /\ Running /\ Instr.op = "jump"
  BY DEF TailJump, Executes
<1>2. Stepping(Top, regs, mem) /\ Top.code[Top.at].op = "jump" /\ Instr = Top.code[Top.at]
  BY <1>1, RunningStepping, InstrTyped
<1>3. /\ SameKept(Top.entry, regs) /\ Instr.site = CallSite(Top)
      /\ \A d : EntersFrom(Top, regs, d) =>
           d \in ActType /\ Made(d) /\ d.entry = regs /\ TopInv(d, regs, mem) /\ End(d) <= End(Top)
  BY <1>2, JumpsOut
<1>4. acts' = SetTop(c) /\ UNCHANGED <<regs, mem, writes, interrupts>>
  BY <1>3 DEF TailJump
<1>5. EntersFrom(Top, regs, c)
  BY EnteredIs
<1>. HIDE DEF c
<1>6. /\ regs \in RegFile /\ mem \in Memory
      /\ writes \in 0 .. MaxWrites /\ interrupts \in 0 .. MaxInterrupts
  BY <1>1, TopOf
<1>7. TopBecomes(c)
  BY <1>3, <1>4, <1>5, <1>6 DEF TopBecomes, Agree
<1>8. BoundsKept
  BY <1>4, <1>6 DEF BoundsKept
<1>. QED
  BY <1>1, <1>7, <1>8, TopMoves

LEMMA RetLRKeeps ==
  ASSUME IInv, StackSuffices, RetLR
  PROVE  IInv'
<1>1. /\ acts # <<>> /\ Running /\ Instr.op = "ret"
      /\ acts' = (IF Top.phase = "throw" THEN <<>> ELSE Front(acts))
      /\ UNCHANGED <<regs, mem, writes, interrupts>>
  BY DEF RetLR, Executes
<1>2. Stepping(Top, regs, mem) /\ Top.code[Top.at].op = "ret"
  BY <1>1, RunningStepping, InstrTyped
<1>3. /\ acts \in Seq(ActType) /\ Len(acts) \in Nat /\ Len(acts) # 0 /\ Top = acts[Len(acts)]
      /\ Stacked(acts, mem) /\ Handled
  BY <1>1, TopOf
<1>4. StateTyped
  BY DEF IInv
<1>5. CASE acts' = <<>>
  <2>1. Stacked(acts', mem') /\ acts' \in Seq(ActType)
    BY <1>5 DEF Stacked
  <2>2. StateTyped'
    BY <1>1, <1>4, <2>1 DEF StateTyped
  <2>. QED
    BY <1>3, <1>5, <2>1, <2>2 DEF IInv
<1>6. CASE acts' # <<>>
  <2>1. acts' = Front(acts) /\ Top.phase # "throw"
    BY <1>1, <1>6
  <2>2. PICK n \in Nat : n = Len(acts) - 1
    BY <1>3
  <2>3. acts' \in Seq(ActType) /\ Len(acts') = n /\ \A d \in 1 .. n : acts'[d] = acts[d]
    BY <1>3, <2>1, <2>2, FrontIs
  <2>4. n # 0 /\ n \in 1 .. Len(acts) /\ n < Len(acts) /\ n + 1 = Len(acts) /\ n \in 1 .. n
    BY <1>3, <1>6, <2>2, <2>3
  <2>5. Stacked(acts', mem')
    BY <1>1, <1>3, <2>1, StackedPop
  <2>6. /\ acts[n] \in ActType /\ Made(acts[n]) /\ Waiting(acts[n], Top.entry, mem)
        /\ CallSite(acts[n]) \in RealCalls(Func(acts[n]))
    <3>1. Made(acts[n]) /\ Waiting(acts[n], acts[n + 1].entry, mem) /\ acts[n] \in ActType
      BY <1>3, <2>4, StackedIs
    <3>2. acts[n].phase = "call" /\ acts[n].at = CallAt(Func(acts[n]), CallSite(acts[n])) + 1
      BY <3>1 DEF Waiting
    <3>. QED
      BY <1>3, <2>4, <3>1, <3>2, WaitingIs
  <2>7. SameKept(Top.entry, regs)
    BY <1>2, <2>1, Returns
  <2>8. Waiting(acts[n], regs, mem)
    <3>1. Agree(mem, mem, Guard(acts[n]))
      BY DEF Agree
    <3>. QED
      BY <1>3, <2>6, <2>7, <3>1, WaitingStays
  <2>9. TopInv(acts[n], regs, mem)
    BY <2>6, <2>8, WaitingTop
  <2>10. Top' = acts[n]
    BY <2>3, <2>4 DEF Top
  <2>11. StateTyped'
    BY <1>1, <1>4, <2>3 DEF StateTyped
  <2>. QED
    BY <1>1, <1>3, <2>5, <2>9, <2>10, <2>11 DEF IInv
<1>. QED
  BY <1>5, <1>6

LEMMA InterruptKeeps ==
  ASSUME IInv, StackSuffices, Interrupt
  PROVE  IInv'
<1>1. /\ acts # <<>> /\ interrupts > 0 /\ interrupts' = interrupts - 1
      /\ mem' = [b \in Addresses |-> IF b < regs.sp THEN Junk ELSE mem[b]]
      /\ UNCHANGED <<regs, acts, writes>>
  BY DEF Interrupt
<1>2. /\ acts \in Seq(ActType) /\ Len(acts) \in Nat /\ Len(acts) # 0 /\ Top = acts[Len(acts)]
      /\ Top \in ActType /\ Made(Top) /\ TopInv(Top, regs, mem) /\ Handled
      /\ regs \in RegFile /\ mem \in Memory
      /\ writes \in 0 .. MaxWrites /\ interrupts \in 0 .. MaxInterrupts
  BY <1>1, TopOf
<1>3. regs.sp \in Int /\ regs.sp <= End(Top) /\ End(Top) \in Int /\ regs.sp >= 0
  BY <1>2, TopSP, ShapeOf DEF Shape, StackSuffices
<1>4. mem' \in Memory
  BY <1>1, <1>2 DEF Memory, Junk
<1>5. Agree(mem, mem', regs.sp)
  <2>1. ASSUME NEW b \in Addresses, b >= regs.sp PROVE mem'[b] = mem[b]
    <3>1. ~(b < regs.sp)
      BY <1>3, <2>1, AddressIs
    <3>. QED
      BY <1>1, <3>1
  <2>. QED
    BY <2>1 DEF Agree
<1>6. Agree(mem, mem', End(Top))
  BY <1>3, <1>5, AgreeAbove
<1>7. TopInv(Top, regs, mem')
  BY <1>2, <1>3, <1>5, TopStays
<1>8. acts' = SetTop(Top)
  <2>1. [acts EXCEPT ![Len(acts)] = acts[Len(acts)]] = acts
    BY <1>2
  <2>. QED
    BY <1>1, <1>2, <2>1 DEF SetTop
<1>9. TopBecomes(Top)
  BY <1>1, <1>2, <1>3, <1>4, <1>6, <1>7, <1>8, SameKeptItself DEF TopBecomes
<1>10. BoundsKept
  <2>1. PICK i \in Nat, j \in Nat : i = interrupts /\ j = MaxInterrupts
    BY <1>2, BoundsAssumption
  <2>2. i - 1 \in 0 .. j
    BY <1>1, <1>2, <2>1
  <2>. QED
    BY <1>1, <1>2, <2>1, <2>2 DEF BoundsKept
<1>. QED
  BY <1>1, <1>9, <1>10, TopMoves

\* The steps of a body.
LEMMA BodyKeeps ==
  ASSUME IInv, InBody, NEW b, BodyStepped(Top, mem, b, regs', mem'), acts' = SetTop(b),
         BoundsKept
  PROVE  IInv'
<1>1. acts # <<>>
  BY DEF InBody
<1>2. Top \in ActType /\ Made(Top)
  BY <1>1, TopOf
<1>3. End(Top) \in Int
  BY <1>2, ShapeOf DEF Shape
<1>4. TopBecomes(b)
  BY <1>3, SameKeptItself DEF TopBecomes, BodyStepped
<1>. QED
  BY <1>1, <1>4, TopMoves

LEMMA InBodyAt ==
  ASSUME IInv, InBody
  PROVE  /\ BodyAt(Top, regs, mem) /\ Top \in ActType /\ Func(Top) \in Program /\ Top.id \in Int
         /\ Top.next \in Nat /\ regs.sp \in Int
         /\ writes \in 0 .. MaxWrites /\ interrupts \in 0 .. MaxInterrupts
<1>1. acts # <<>> /\ ~(Top.at <= Len(Top.code))
  BY DEF InBody, Running
<1>2. /\ Top \in ActType /\ Made(Top) /\ TopInv(Top, regs, mem) /\ Handled
      /\ regs \in RegFile /\ mem \in Memory
      /\ writes \in 0 .. MaxWrites /\ interrupts \in 0 .. MaxInterrupts
  BY <1>1, TopOf
<1>3. BodyAt(Top, regs, mem)
  BY <1>1, <1>2, BodyIs
<1>. QED
  BY <1>2, <1>3, ActOf, RegInt

LEMMA SetTopItself ==
  ASSUME IInv, InBody
  PROVE  acts = SetTop(Top)
<1>1. acts \in Seq(ActType) /\ Top = acts[Len(acts)]
  BY TopOf DEF InBody
<1>. QED
  BY <1>1 DEF SetTop

\* One write less is left.
LEMMA OneWrite ==
  ASSUME writes \in 0 .. MaxWrites, interrupts \in 0 .. MaxInterrupts, writes > 0,
         writes' = writes - 1, interrupts' = interrupts
  PROVE  BoundsKept
<1>1. PICK i \in Nat, j \in Nat : i = writes /\ j = MaxWrites
  BY BoundsAssumption
<1>2. i - 1 \in 0 .. j
  BY <1>1
<1>. QED
  BY <1>1, <1>2 DEF BoundsKept

LEMMA WriteLocalKeeps ==
  ASSUME IInv, WriteLocal
  PROVE  IInv'
<1>1. InBody /\ writes > 0 /\ writes' = writes - 1 /\ UNCHANGED <<regs, interrupts>>
  BY DEF WriteLocal
<1>2. PICK k \in DOMAIN Top.locals, y \in Addresses :
        /\ y = regs[FrameReg(Func(Top))] + (StackSize(Func(Top)) + LocalOffset(Func(Top), k))
        /\ mem' = [mem EXCEPT ![y] = LocalVal(Top.id, k)]
        /\ acts' = SetTop([Top EXCEPT !.locals[k] = LocalVal(Top.id, k)])
  BY DEF WriteLocal, Store, Address, ObjSlot, Slot
<1>3. /\ BodyAt(Top, regs, mem) /\ Top.id \in Int /\ Top \in ActType
      /\ writes \in 0 .. MaxWrites /\ interrupts \in 0 .. MaxInterrupts
  BY <1>1, InBodyAt
<1>4. LocalAt(Top, regs, k, y)
  BY <1>2 DEF LocalAt
<1>5. LocalVal(Top.id, k) \in Int
  <2>1. Top.locals \in Seq(Int)
    BY <1>3, ActOf
  <2>2. k \in Int
    BY <2>1
  <2>. QED
    BY <1>3, <2>2, ValsTyped
<1>6. PICK b : b = [Top EXCEPT !.locals[k] = LocalVal(Top.id, k)]
  OBVIOUS
<1>7. BodyStepped(Top, mem, b, regs, [mem EXCEPT ![y] = LocalVal(Top.id, k)])
  BY <1>3, <1>4, <1>5, <1>6, BodyWrites
<1>8. BodyStepped(Top, mem, b, regs', mem') /\ acts' = SetTop(b)
  BY <1>1, <1>2, <1>6, <1>7
<1>9. BoundsKept
  BY <1>1, <1>3, OneWrite
<1>. QED
  BY ONLY IInv, <1>1, <1>8, <1>9, BodyKeeps

LEMMA UseCalleeSavedKeeps ==
  ASSUME IInv, UseCalleeSaved
  PROVE  IInv'
<1>1. InBody /\ writes > 0 /\ writes' = writes - 1 /\ UNCHANGED <<mem, acts, interrupts>>
  BY DEF UseCalleeSaved
<1>2. PICK x \in Func(Top).uses \ (IF HasFP(Func(Top)) THEN {"fp"} ELSE {}) :
        regs' = [regs EXCEPT ![x] = RegVal(Top.id, x)]
  BY DEF UseCalleeSaved
<1>3. /\ BodyAt(Top, regs, mem) /\ Top.id \in Int /\ Func(Top) \in Program
      /\ writes \in 0 .. MaxWrites /\ interrupts \in 0 .. MaxInterrupts
  BY <1>1, InBodyAt
<1>4. x \in KeptRegs
  BY <1>3, InProgram DEF FuncType, KeptRegs
<1>5. RegVal(Top.id, x) \in Int
  BY <1>3, <1>4, ValsTyped
<1>6. BodyStepped(Top, mem, Top, regs', mem')
  <2>1. BodyStepped(Top, mem, Top, [regs EXCEPT ![x] = RegVal(Top.id, x)], mem)
    BY <1>3, <1>5, BodyUses
  <2>. QED
    BY <1>1, <1>2, <2>1
<1>7. acts' = SetTop(Top)
  BY <1>1, SetTopItself
<1>8. BoundsKept
  BY <1>1, <1>3, OneWrite
<1>. QED
  BY ONLY IInv, <1>1, <1>6, <1>7, <1>8, BodyKeeps

LEMMA AllocaKeeps ==
  ASSUME IInv, StackSuffices', Alloca
  PROVE  IInv'
<1>1. InBody /\ Func(Top).dyn /\ Top.alloca = NoSpace /\ UNCHANGED <<writes, interrupts>>
  BY DEF Alloca
<1>2. /\ BodyAt(Top, regs, mem) /\ regs.sp \in Int /\ regs \in RegFile
      /\ writes \in 0 .. MaxWrites /\ interrupts \in 0 .. MaxInterrupts
  BY <1>1, InBodyAt DEF BodyAt
<1>3. PICK z \in Int : z = regs.sp - 8
  BY <1>2
<1>4. /\ regs' = [regs EXCEPT !.sp = z]
      /\ mem'  = [mem EXCEPT ![z] = AllocaVal(Top.id), ![z + 4] = AllocaVal(Top.id)]
      /\ acts' = SetTop([Top EXCEPT !.alloca = z])
  BY <1>3 DEF Alloca
<1>5. z >= 0
  <2>1. regs'.sp = z
    BY <1>2, <1>4 DEF RegFile, RegNames
  <2>. QED
    BY <2>1 DEF StackSuffices
<1>6. PICK b : b = [Top EXCEPT !.alloca = z]
  OBVIOUS
<1>7. BodyStepped(Top, mem, b, regs', mem')
  BY <1>1, <1>2, <1>3, <1>4, <1>5, <1>6, BodyAllocates
<1>8. acts' = SetTop(b)
  BY <1>4, <1>6
<1>9. BoundsKept
  BY <1>1, <1>2 DEF BoundsKept
<1>. QED
  BY ONLY IInv, <1>1, <1>7, <1>8, <1>9, BodyKeeps

LEMMA BeginCallKeeps ==
  ASSUME IInv, BeginCall
  PROVE  IInv'
<1>1. InBody /\ Top.next \in DOMAIN Func(Top).calls /\ UNCHANGED <<regs, mem, writes, interrupts>>
  BY DEF BeginCall
<1>2. /\ BodyAt(Top, regs, mem) /\ Top \in ActType
      /\ writes \in 0 .. MaxWrites /\ interrupts \in 0 .. MaxInterrupts
  BY <1>1, InBodyAt
<1>3. PICK k \in DOMAIN Func(Top).calls : k = Top.next
  BY <1>1
<1>4. PICK a : a = [Top EXCEPT !.next = k + 1]
  OBVIOUS
<1>5. a.id = Top.id
  BY <1>2, <1>4 DEF ActType
<1>6. acts' = SetTop(IF IsTail(Func(Top), k)
                      THEN Begin(a, "tail", TailCallCode(Func(Top), Top.id, k))
                      ELSE Begin(a, "call", CallCode(Func(Top), Top.id, k)))
  BY <1>3, <1>4, <1>5 DEF BeginCall
<1>7. BoundsKept
  BY <1>1, <1>2 DEF BoundsKept
<1>8. CASE IsTail(Func(Top), k)
  <2>1. PICK b : b = Begin([Top EXCEPT !.next = k + 1], "tail", TailCallCode(Func(Top), Top.id, k))
    OBVIOUS
  <2>2. BodyStepped(Top, mem, b, regs, mem)
    BY <1>2, <1>3, <1>8, <2>1, BodyTailCalls
  <2>3. BodyStepped(Top, mem, b, regs', mem') /\ acts' = SetTop(b)
    BY <1>1, <1>4, <1>6, <1>8, <2>1, <2>2
  <2>. QED
    BY ONLY IInv, <1>1, <1>7, <2>3, BodyKeeps
<1>9. CASE ~IsTail(Func(Top), k)
  <2>1. PICK b : b = Begin([Top EXCEPT !.next = k + 1], "call", CallCode(Func(Top), Top.id, k))
    OBVIOUS
  <2>2. BodyStepped(Top, mem, b, regs, mem)
    BY <1>2, <1>3, <1>9, <2>1, BodyCalls
  <2>3. BodyStepped(Top, mem, b, regs', mem') /\ acts' = SetTop(b)
    BY <1>1, <1>4, <1>6, <1>9, <2>1, <2>2
  <2>. QED
    BY ONLY IInv, <1>1, <1>7, <2>3, BodyKeeps
<1>. QED
  BY <1>8, <1>9

LEMMA ReturnKeeps ==
  ASSUME IInv, Return
  PROVE  IInv'
<1>1. PICK b : b = Begin(Top, "leave", LeaveCode(Func(Top)))
  OBVIOUS
<1>2. InBody /\ acts' = SetTop(b) /\ UNCHANGED <<regs, mem, writes, interrupts>>
  BY <1>1 DEF Return, LeaveCode
<1>3. /\ BodyAt(Top, regs, mem)
      /\ writes \in 0 .. MaxWrites /\ interrupts \in 0 .. MaxInterrupts
  BY <1>2, InBodyAt
<1>4. BodyStepped(Top, mem, b, regs', mem')
  <2>1. BodyStepped(Top, mem, b, regs, mem)
    BY <1>1, <1>3, BodyReturns
  <2>. QED
    BY <1>2, <2>1
<1>5. BoundsKept
  BY <1>2, <1>3 DEF BoundsKept
<1>. QED
  BY <1>2, <1>4, <1>5, BodyKeeps

LEMMA EhReturnKeeps ==
  ASSUME IInv, EhReturn
  PROVE  IInv'
<1>1. PICK b : b = Begin(Top, "throw", EhReturnCode(Func(Top)))
  OBVIOUS
<1>2. InBody /\ Func(Top).eh /\ acts' = SetTop(b) /\ UNCHANGED <<mem, writes, interrupts>>
  BY <1>1 DEF EhReturn
<1>3. PICK o \in {0, 8} : /\ o <= IncomingArgSize(Func(Top))
                          /\ regs' = [regs EXCEPT !.v0 = Handler, !.v1 = o]
  BY DEF EhReturn
<1>4. /\ BodyAt(Top, regs, mem)
      /\ writes \in 0 .. MaxWrites /\ interrupts \in 0 .. MaxInterrupts
  BY <1>2, InBodyAt
<1>5. BodyStepped(Top, mem, b, regs', mem')
  <2>1. BodyStepped(Top, mem, b, regs', mem)
    BY Zenon, <1>1, <1>2, <1>3, <1>4, BodyThrows
  <2>. QED
    BY <1>2, <2>1
<1>6. BoundsKept
  BY <1>2, <1>4 DEF BoundsKept
<1>. QED
  BY ONLY IInv, <1>2, <1>5, <1>6, BodyKeeps

-----------------------------------------------------------------------------
(***************************************************************************)
(* The invariant holds at first, and each step keeps it.                   *)
(***************************************************************************)
LEMMA InitHolds ==
  ASSUME Handled, Init
  PROVE  IInv
<1>1. /\ regs = InitRegs(MemTop - 16) /\ mem = [x \in Addresses |-> Junk]
      /\ writes = MaxWrites /\ interrupts = MaxInterrupts
  BY DEF Init
<1>2. PICK main \in Entries : acts = <<NewAct(1, main, regs, <<>>, <<>>)>>
  BY DEF Init
<1>3. PICK t \in Nat : t = MemTop /\ t >= 16 /\ t % 8 = 0
  BY BoundsAssumption
<1>4. PICK z \in Int : z = MemTop - 16 /\ z = t - 16
  BY <1>3
<1>5. regs \in RegFile /\ regs.sp = z
  <2>1. /\ \A x \in {"fp", "s0", "s1"} : RegVal(0, x) \in Int
        /\ GPVal(0) \in Int /\ ReturnTo(0, 0) \in Int /\ Junk \in Int
    BY DEF RegVal, GPVal, ReturnTo, Val, Junk
  <2>2. \A x \in RegNames :
          (CASE x = "sp" -> z
             [] x \in {"fp", "s0", "s1"} -> RegVal(0, x)
             [] x = "gp" -> GPVal(0)
             [] x = "lr" -> ReturnTo(0, 0)
             [] OTHER -> Junk) \in Int
    BY <2>1 DEF RegNames
  <2>3. InitRegs(z) \in RegFile
    BY <2>2 DEF InitRegs, RegFile
  <2>4. InitRegs(z).sp = z
    BY DEF InitRegs, RegNames
  <2>. QED
    BY <1>1, <1>4, <2>3, <2>4
<1>6. mem \in Memory
  BY <1>1 DEF Memory, Junk
<1>7. main \in DOMAIN Funcs /\ Funcs[main].args = <<>>
  BY FuncsAssumption
<1>8. PICK b : b = NewAct(1, main, regs, <<>>, <<>>)
  OBVIOUS
<1>9. PICK p \in Seq(Int), x \in Seq(Extras) : p = <<>> /\ x = <<>>
  <2>1. <<>> \in Seq(Int) /\ <<>> \in Seq(Extras)
    OBVIOUS
  <2>. QED
    BY <2>1, Zenon
<1>22. b = NewAct(1, main, regs, p, x)
  BY <1>8, <1>9
<1>10. /\ b \in ActType /\ b.entry = regs /\ b.passed = <<>> /\ b.extra = <<>>
       /\ b.at = 1 /\ b.phase = "enter" /\ Func(b) = Funcs[main] /\ Func(b) \in Program
       /\ Unused(b)
  <2>1. /\ b \in ActType /\ b.entry = regs /\ b.passed = p /\ b.extra = x
        /\ b.at = 1 /\ b.phase = "enter" /\ Func(b) = Funcs[main] /\ Funcs[main] \in Program
        /\ Unused(b)
    BY <1>5, <1>7, <1>22, NewActIs
  <2>. QED
    BY <1>9, <2>1
<1>11. PICK c \in ConvType : c = Cc(Func(b))
  BY <1>10, ConvOf
<1>12. GotWords(b) = <<>>
  <2>1. Func(b).args \o b.extra = <<>>
    BY <1>7, <1>10
  <2>. QED
    BY <1>11, <2>1, PartsEmpty, EmptyParts DEF GotWords, CallerWords
<1>13. Passes(b) /\ ArgsHeld(b, mem)
  <2>1. DOMAIN <<>> = {} /\ Len(<<>>) = 0
    OBVIOUS
  <2>. QED
    BY <1>10, <1>12, <2>1 DEF Passes, ArgsHeld
<1>14. End(b) <= MemTop
  <2>1. IncomingArgSize(Func(b)) = ReservedArgArea(c)
    <3>1. Analyze(c, <<>>) = [regs |-> 0, stack |-> ReservedArgArea(c), locs |-> <<>>]
      BY PartsEmpty, RunEmpty DEF Analyze
    <3>. QED
      BY <1>7, <1>10, <1>11, <3>1 DEF IncomingArgSize
  <2>2. PICK n \in Nat : n = ReservedArgArea(c) /\ n <= 8
    BY DEF ReservedArgArea
  <2>3. End(b) = z + n
    BY <1>5, <1>10, <2>1, <2>2 DEF End
  <2>4. z + n <= t
    BY <1>4, <2>2
  <2>. QED
    BY <1>3, <2>3, <2>4
<1>15. z >= 0 /\ z % 8 = 0 /\ z <= MemTop
  BY <1>3, <1>4
<1>16. Made(b)
  BY <1>5, <1>7, <1>22, <1>13, <1>14, <1>15, NewActMade
<1>17. TopInv(b, b.entry, mem)
  BY <1>10, <1>13, <1>16, NewActStarts
<1>18. acts = <<b>>
  BY <1>2, <1>8
<1>19. Top = b
  BY <1>18 DEF Top
<1>20. Stacked(acts, mem)
  <2>1. PICK s \in Seq(ActType) : s = <<b>>
    <3>1. <<b>> \in Seq(ActType)
      BY <1>10
    <3>. QED
      BY <3>1, Zenon
  <2>2. Len(s) = 1 /\ s[1] = b
    BY <2>1
  <2>3. \A d \in 1 .. 1 : Made(s[d])
    BY <1>16, <2>2
  <2>4. \A d \in 1 .. 1 : ~(d < 1)
    OBVIOUS
  <2>5. \A c1, d \in 1 .. 1 : ~(c1 < d)
    OBVIOUS
  <2>6. Stacked(s, mem)
    BY <2>2, <2>3, <2>4, <2>5, StackedIs
  <2>. QED
    BY <1>18, <2>1, <2>6
<1>21. StateTyped
  <2>1. writes \in 0 .. MaxWrites /\ interrupts \in 0 .. MaxInterrupts
    BY <1>1, BoundsAssumption
  <2>2. acts \in Seq(ActType)
    BY <1>10, <1>18
  <2>. QED
    BY <1>5, <1>6, <1>15, <2>1, <2>2 DEF StateTyped, RegFile, Memory
<1>. QED
  BY <1>10, <1>17, <1>19, <1>20, <1>21 DEF IInv

LEMMA StutterKeeps ==
  ASSUME IInv, UNCHANGED vars
  PROVE  IInv'
<1>1. /\ regs' = regs /\ mem' = mem /\ acts' = acts /\ writes' = writes
      /\ interrupts' = interrupts
  BY DEF vars
<1>2. Top' = Top
  BY <1>1 DEF Top
<1>3. StateTyped'
  BY <1>1 DEF IInv, StateTyped
<1>. QED
  BY <1>1, <1>2, <1>3 DEF IInv

LEMMA NextKeeps ==
  ASSUME IInv, StackSuffices, StackSuffices', [Next]_vars
  PROVE  IInv'
<1>1. CASE Straight
  BY <1>1, StraightKeeps
<1>2. CASE JumpAndLink
  BY <1>2, JumpAndLinkKeeps
<1>3. CASE TailJump
  BY <1>3, TailJumpKeeps
<1>4. CASE RetLR
  BY <1>4, RetLRKeeps
<1>5. CASE WriteLocal
  BY <1>5, WriteLocalKeeps
<1>6. CASE UseCalleeSaved
  BY <1>6, UseCalleeSavedKeeps
<1>7. CASE Alloca
  BY <1>7, AllocaKeeps
<1>8. CASE BeginCall
  BY <1>8, BeginCallKeeps
<1>9. CASE Return
  BY <1>9, ReturnKeeps
<1>10. CASE EhReturn
  BY <1>10, EhReturnKeeps
<1>11. CASE Interrupt
  BY <1>11, InterruptKeeps
<1>12. CASE UNCHANGED vars
  BY <1>12, StutterKeeps
<1>. QED
  BY <1>1, <1>2, <1>3, <1>4, <1>5, <1>6, <1>7, <1>8, <1>9, <1>10, <1>11, <1>12
  DEF Next, Step, Body, Straight

(***************************************************************************)
(* As long as the stack suffices, the invariant holds: for any functions   *)
(* that the lowering handles, any calls among them and any interrupts.     *)
(***************************************************************************)
THEOREM Invariant ==
  ASSUME Handled
  PROVE  Spec /\ []StackSuffices => []IInv
<1>1. Init => IInv
  BY InitHolds
<1>2. IInv /\ StackSuffices /\ StackSuffices' /\ [Next]_vars => IInv'
  BY NextKeeps
<1>. QED
  BY <1>1, <1>2, PTL DEF Spec

-----------------------------------------------------------------------------
(***************************************************************************)
(* What the invariant says of every activation whose frame is complete,    *)
(* running or waiting for its callee.                                      *)
(***************************************************************************)
LEMMA ActsOf ==
  ASSUME IInv, NEW d \in DOMAIN acts
  PROVE  acts[d] \in ActType /\ Made(acts[d]) /\ acts \in Seq(ActType) /\ d \in 1 .. Len(acts)
         /\ (d # Len(acts) => d < Len(acts)) /\ Stacked(acts, mem)
<1>1. acts \in Seq(ActType) /\ Stacked(acts, mem)
  BY DEF IInv, StateTyped
<1>2. d \in 1 .. Len(acts) /\ Len(acts) \in Nat
  BY <1>1
<1>3. d # Len(acts) => d < Len(acts)
  BY <1>2
<1>. QED
  BY <1>1, <1>2, <1>3, StackedIs

LEMMA EstablishedHeld ==
  ASSUME IInv, NEW d \in DOMAIN acts, Established(acts[d])
  PROVE  FrameHeld(acts[d], mem)
<1>1. /\ acts[d] \in ActType /\ acts \in Seq(ActType) /\ d \in 1 .. Len(acts)
      /\ (d # Len(acts) => d < Len(acts)) /\ Stacked(acts, mem)
  BY ActsOf
<1>2. CASE d # Len(acts)
  <2>1. Waiting(acts[d], acts[d + 1].entry, mem)
    BY <1>1, <1>2, StackedIs
  <2>. QED
    BY <2>1 DEF Waiting, Calling
<1>3. CASE d = Len(acts)
  <2>1. acts # <<>>
    BY <1>1
  <2>2. TopInv(acts[d], regs, mem)
    BY <1>3, <2>1 DEF IInv, Top
  <2>3. CASE acts[d].at > Len(acts[d].code)
    BY <2>2, <2>3 DEF TopInv, InItsBody
  <2>4. CASE ~(acts[d].at > Len(acts[d].code))
    BY <2>2, <2>4 DEF Established, TopInv, Calling
  <2>. QED
    BY <2>3, <2>4
<1>. QED
  BY <1>2, <1>3

LEMMA BodyIsTop ==
  ASSUME IInv, InBody
  PROVE  InItsBody(Top, regs, mem)
<1>1. acts # <<>> /\ ~(Top.at <= Len(Top.code))
  BY DEF InBody, Running
<1>2. TopInv(Top, regs, mem) /\ Top \in ActType
  BY <1>1, TopOf
<1>3. Top.at > Len(Top.code)
  BY <1>1, <1>2, ActOf
<1>. QED
  BY <1>2, <1>3 DEF TopInv

LEMMA HoldsLoad ==
  ASSUME NEW b, NEW v, Holds(mem, b, v)
  PROVE  Load(b) = v
BY DEF Holds, Load

LEMMA FrameKeptHolds ==
  ASSUME IInv
  PROVE  FrameKept
<1>1. SUFFICES ASSUME NEW d \in DOMAIN acts, Established(acts[d])
               PROVE  /\ \A k \in DOMAIN acts[d].locals :
                           acts[d].locals[k] # Junk =>
                             AtEntry(acts[d], LocalOffset(Func(acts[d]), k)) = acts[d].locals[k]
                      /\ acts[d].alloca # NoSpace =>
                           \A at \in {acts[d].alloca, acts[d].alloca + 4} :
                             Load(at) = AllocaVal(acts[d].id)
  BY DEF FrameKept
<1>2. LocalsHeld(acts[d], mem) /\ SpaceHeld(acts[d], mem)
  BY <1>1, EstablishedHeld DEF FrameHeld
<1>3. ASSUME NEW k \in DOMAIN acts[d].locals, acts[d].locals[k] # Junk
      PROVE  AtEntry(acts[d], LocalOffset(Func(acts[d]), k)) = acts[d].locals[k]
  BY <1>2, <1>3, HoldsLoad DEF LocalsHeld, AtEntry
<1>4. ASSUME acts[d].alloca # NoSpace
      PROVE  \A at \in {acts[d].alloca, acts[d].alloca + 4} : Load(at) = AllocaVal(acts[d].id)
  BY <1>2, <1>4, HoldsLoad DEF SpaceHeld
<1>. QED
  BY <1>3, <1>4

LEMMA CalleeWordsTyped ==
  ASSUME NEW c \in ConvType, NEW v \in BOOLEAN, v => c.conv # "fast",
         NEW l \in Seq(ArgType), NEW e \in Seq(Extras), ~v => e = <<>>
  PROVE  CalleeWords(c, l, e) \in Seq(WordType)
<1>1. ListInv(c, v, l, e) /\ PartsInv(c, Parts(l))
  BY EveryList DEF ListInv
<1>2. FixedWords(c, Parts(l)) \in Seq(WordType)
  BY <1>1 DEF PartsInv
<1>3. Analyze(c, l) \in StateType(c)
  BY <1>1, AnalyzeTyped
<1>4. PICK f : f \in [0 .. Len(e) -> VaType] /\ VaArgs(c, l, e) = f[Len(e)]
  BY <1>3, VaArgsIs
<1>5. VaArgs(c, l, e).words \in Seq(WordType)
  <2>1. Len(e) \in 0 .. Len(e)
    OBVIOUS
  <2>. QED
    BY <1>4, <2>1 DEF VaType
<1>. QED
  BY <1>2, <1>5, ConcatProperties DEF CalleeWords

\* The words of an activation, as its caller passed them and as it finds them.
LEMMA FoundWordsOf ==
  ASSUME NEW a \in ActType, Made(a), NEW words,
         words = CalleeWords(Cc(Func(a)), Func(a).args, a.extra)
  PROVE  /\ Len(words) = Len(a.passed)
         /\ \A i \in DOMAIN words :
              \/ i \in DOMAIN GotWords(a) /\ words[i] = GotWords(a)[i]
              \/ \E k \in DOMAIN Homed(Func(a)) :
                   /\ words[i].reg = -1 /\ words[i].off = Homed(Func(a))[k].off
                   /\ a.entry[ArgReg(Homed(Func(a))[k].reg)] = a.passed[i]
<1> DEFINE f == Func(a)
           sent == GotWords(a)
           homes == ToSet(HomedRegs(Cc(f), f.args, f.vararg))
<1>1. Passes(a) /\ f \in Program
  BY ActOf DEF Made
<1>2. sent \in Seq(WordType) /\ FoundInv(Cc(f), f.vararg, f.args, a.extra)
  BY <1>1, GotWordsOf
<1>3. sent = CallerWords(Cc(f), f.args \o a.extra)
  BY DEF GotWords
<1>9. GotWords(a) = sent
  OBVIOUS
<1>. HIDE DEF sent
<1>4. Len(words) = Len(sent)
      /\ \A i \in 1 .. Len(sent) :
           \/ words[i] = sent[i]
           \/ \E h \in homes : sent[i] = InReg(h.reg) /\ words[i] = OnStack(h.off)
  BY <1>2, <1>3 DEF FoundInv, Matched
<1>5. Len(a.passed) = Len(sent)
      /\ \A i \in DOMAIN sent : sent[i].reg # -1 => a.entry[ArgReg(sent[i].reg)] = a.passed[i]
  BY <1>1, <1>9 DEF Passes
<1>6. Homed(f) \in Seq(HomeType(Cc(f))) /\ homes = {Homed(f)[k] : k \in DOMAIN Homed(f)}
  BY <1>1, Incoming, ToSetIs DEF Homed
<1>7. ASSUME NEW i \in 1 .. Len(sent), NEW h \in homes, sent[i] = InReg(h.reg),
             words[i] = OnStack(h.off)
      PROVE  \E k \in DOMAIN Homed(f) :
               /\ words[i].reg = -1 /\ words[i].off = Homed(f)[k].off
               /\ a.entry[ArgReg(Homed(f)[k].reg)] = a.passed[i]
  <2>1. PICK k \in DOMAIN Homed(f) : h = Homed(f)[k]
    BY <1>6
  <2>2. h.reg \in {0, 1}
    BY <2>1, HomesAt
  <2>3. sent[i].reg = h.reg /\ words[i].reg = -1 /\ words[i].off = h.off
    BY <1>7 DEF InReg, OnStack
  <2>4. i \in DOMAIN sent /\ h.reg # -1
    BY <1>2, <2>2
  <2>. QED
    BY <1>5, <2>1, <2>3, <2>4
<1>8. DOMAIN words = 1 .. Len(sent) /\ DOMAIN sent = 1 .. Len(sent)
  <2>1. DOMAIN sent = 1 .. Len(sent)
    BY <1>2
  <2>2. CalleeWords(Cc(f), f.args, a.extra) \in Seq(WordType)
    <3>1. /\ Cc(f) \in ConvType /\ f.vararg \in BOOLEAN /\ f.args \in Seq(ArgType)
          /\ (f.vararg => Cc(f).conv # "fast") /\ a.extra \in Seq(Extras)
          /\ (~f.vararg => a.extra = <<>>)
      BY <1>1, ActOf, ConvOf DEF Passes
    <3>. QED
      BY <3>1, CalleeWordsTyped
  <2>. QED
    BY <1>4, <2>1, <2>2
<1>. QED
  BY <1>4, <1>5, <1>7, <1>8, <1>9

LEMMA ArgumentsArriveHolds ==
  ASSUME IInv
  PROVE  ArgumentsArrive
<1>1. SUFFICES ASSUME NEW d \in DOMAIN acts, Established(acts[d]), NEW words,
                      words = CalleeWords(Cc(Func(acts[d])), Func(acts[d]).args, acts[d].extra)
               PROVE  /\ Len(words) = Len(acts[d].passed)
                      /\ \A i \in DOMAIN words :
                           IF words[i].reg = -1
                             THEN AtEntry(acts[d], words[i].off) = acts[d].passed[i]
                             ELSE d = Len(acts) /\ InBody /\ acts[d].next = 1 =>
                                    regs[ArgReg(words[i].reg)] = acts[d].passed[i]
  BY DEF ArgumentsArrive
<1>2. acts[d] \in ActType /\ Made(acts[d]) /\ FrameHeld(acts[d], mem)
  BY <1>1, ActsOf, EstablishedHeld
<1>3. PICK a \in ActType : a = acts[d] /\ Made(a) /\ FrameHeld(a, mem)
  BY <1>2
<1>4. /\ Len(words) = Len(a.passed)
      /\ \A i \in DOMAIN words :
           \/ i \in DOMAIN GotWords(a) /\ words[i] = GotWords(a)[i]
           \/ \E k \in DOMAIN Homed(Func(a)) :
                /\ words[i].reg = -1 /\ words[i].off = Homed(Func(a))[k].off
                /\ a.entry[ArgReg(Homed(Func(a))[k].reg)] = a.passed[i]
  BY <1>1, <1>3, FoundWordsOf
<1>5. /\ Passes(a)
      /\ \A i \in DOMAIN GotWords(a) : GotWords(a)[i].reg \in {-1, 0, 1}
  <2>1. Passes(a)
    BY <1>3 DEF Made
  <2>. QED
    BY <2>1, GotWordsOf
<1>6. ASSUME NEW i \in DOMAIN words, words[i].reg = -1
      PROVE  AtEntry(a, words[i].off) = a.passed[i]
  <2>1. CASE i \in DOMAIN GotWords(a) /\ words[i] = GotWords(a)[i]
    <3>1. Holds(mem, a.entry.sp + words[i].off, a.passed[i])
      BY <1>3, <1>6, <2>1 DEF FrameHeld, ArgsHeld
    <3>. QED
      BY <3>1, HoldsLoad DEF AtEntry
  <2>2. CASE \E k \in DOMAIN Homed(Func(a)) :
               /\ words[i].off = Homed(Func(a))[k].off
               /\ a.entry[ArgReg(Homed(Func(a))[k].reg)] = a.passed[i]
    <3>1. PICK k \in DOMAIN Homed(Func(a)) :
               /\ words[i].off = Homed(Func(a))[k].off
               /\ a.entry[ArgReg(Homed(Func(a))[k].reg)] = a.passed[i]
      BY <2>2
    <3>2. k <= Len(Homed(Func(a)))
      <4>1. Homed(Func(a)) \in Seq(HomeType(Cc(Func(a))))
        BY ActOf, Incoming DEF Homed
      <4>2. k \in 1 .. Len(Homed(Func(a))) /\ Len(Homed(Func(a))) \in Nat
        BY <4>1
      <4>. QED
        BY <4>2
    <3>3. Holds(mem, a.entry.sp + words[i].off, a.passed[i])
      BY <1>3, <3>1, <3>2 DEF FrameHeld, HomesHeld
    <3>. QED
      BY <3>3, HoldsLoad DEF AtEntry
  <2>. QED
    BY <1>4, <2>1, <2>2
<1>7. ASSUME NEW i \in DOMAIN words, words[i].reg # -1, d = Len(acts), InBody, a.next = 1
      PROVE  regs[ArgReg(words[i].reg)] = a.passed[i]
  <2>1. i \in DOMAIN GotWords(a) /\ words[i] = GotWords(a)[i]
    BY <1>4, <1>7
  <2>2. a.entry[ArgReg(words[i].reg)] = a.passed[i] /\ words[i].reg \in {0, 1}
    BY <1>5, <1>7, <2>1 DEF Passes
  <2>3. a = Top
    BY <1>3, <1>7 DEF Top
  <2>4. regs.a0 = a.entry.a0 /\ regs.a1 = a.entry.a1
    BY <1>7, <2>3, BodyIsTop DEF InItsBody
  <2>. QED
    BY <2>2, <2>4 DEF ArgReg
<1>. QED
  BY <1>3, <1>4, <1>6, <1>7

LEMMA CalleeSavedKeptHolds ==
  ASSUME IInv, StackSuffices
  PROVE  CalleeSavedKept
<1>1. SUFFICES ASSUME acts # <<>>, Running, Instr.op \in {"ret", "jump"}
               PROVE  /\ \A r \in {"fp", "s0", "s1"} : regs[r] = Top.entry[r]
                      /\ IF Top.phase = "throw"
                           THEN regs.lr = Handler /\ regs.sp = Top.entry.sp + regs.v1
                           ELSE regs.lr = Top.entry.lr /\ regs.sp = Top.entry.sp
  BY DEF CalleeSavedKept
<1>2. Stepping(Top, regs, mem) /\ Top.code[Top.at].op \in {"ret", "jump"}
  BY <1>1, RunningStepping, InstrTyped
<1>3. CASE Top.code[Top.at].op = "jump"
  <2>1. /\ regs.sp = Top.entry.sp /\ regs.lr = Top.entry.lr /\ SameKept(Top.entry, regs)
        /\ Top.phase = "tail"
    BY <1>2, <1>3, JumpsOut
  <2>. QED
    BY <2>1 DEF SameKept, KeptRegs
<1>4. CASE Top.code[Top.at].op = "ret"
  <2>1. \/ /\ Top.phase = "leave" /\ regs.sp = Top.entry.sp /\ regs.lr = Top.entry.lr
           /\ SameKept(Top.entry, regs)
        \/ /\ Top.phase = "throw" /\ regs.sp = Top.entry.sp + regs.v1 /\ regs.lr = Handler
           /\ \A x \in KeptRegs : regs[x] = Top.entry[x]
    BY <1>2, <1>4, Returns
  <2>. QED
    BY <2>1 DEF SameKept, KeptRegs
<1>. QED
  BY <1>2, <1>3, <1>4

LEMMA TypeOKHolds ==
  ASSUME IInv, StackSuffices
  PROVE  TypeOK
<1>1. /\ regs \in [RegNames -> Int] /\ regs.sp % 8 = 0 /\ regs.sp <= MemTop
      /\ mem \in [Addresses -> Int]
      /\ writes \in 0 .. MaxWrites /\ interrupts \in 0 .. MaxInterrupts
  BY DEF IInv, StateTyped
<1>2. MemTop \in Nat
  BY BoundsAssumption
<1>3. regs.sp \in Addresses
  <2>1. regs.sp \in Int /\ regs.sp >= 0
    BY <1>1 DEF StackSuffices, RegNames
  <2>2. regs.sp \in 0 .. MemTop /\ regs.sp % 4 = 0
    BY <1>1, <1>2, <2>1
  <2>. QED
    BY <2>2 DEF Addresses
<1>4. ASSUME NEW d \in DOMAIN acts
      PROVE  /\ acts[d].fn \in DOMAIN Funcs
             /\ acts[d].phase \in {"enter", "call", "tail", "leave", "throw"}
             /\ acts[d].at \in 1 .. Len(acts[d].code) + 1
             /\ acts[d].next \in 1 .. Len(Func(acts[d]).calls) + 1
             /\ DOMAIN acts[d].locals = 1 .. Func(acts[d]).locals
             /\ acts[d].alloca \in Addresses \cup {NoSpace}
  <2>1. PICK a \in ActType : a = acts[d] /\ Made(a)
    BY ActsOf
  <2>2. /\ a.fn \in DOMAIN Funcs /\ a.phase \in {"enter", "call", "tail", "leave", "throw"}
        /\ a.at \in 1 .. Len(a.code) + 1 /\ a.next \in 1 .. Len(Func(a).calls) + 1
        /\ DOMAIN a.locals = 1 .. Func(a).locals
    BY <2>1 DEF ActType, Made, Coded
  <2>3. CASE a.alloca # NoSpace
    <3>1. a.alloca = Bottom(a) - 8 /\ a.alloca >= 0
      BY <2>1, <2>3 DEF Made
    <3>2. PICK b \in Int, e \in Nat, n \in Nat, z \in Int, o \in Nat :
            /\ b = Bottom(a) /\ e = a.entry.sp /\ n = IncomingArgSize(Func(a)) /\ z = End(a)
            /\ o = Objects(Func(a)) /\ b % 8 = 0 /\ b + 4 * o <= e /\ z = e + n /\ z <= MemTop
      BY <2>1, ShapeOf DEF Shape
    <3>3. b - 8 >= 0 /\ b - 8 <= MemTop /\ (b - 8) % 4 = 0
      BY <1>2, <3>1, <3>2
    <3>4. b - 8 \in Addresses
      BY <1>2, <3>2, <3>3 DEF Addresses
    <3>. QED
      BY <2>1, <2>2, <3>1, <3>2, <3>4
  <2>. QED
    BY <2>1, <2>2, <2>3
<1>. QED
  BY <1>1, <1>3, <1>4 DEF TypeOK

-----------------------------------------------------------------------------
(***************************************************************************)
(* The properties of Cpu0Frames, for any functions that the lowering       *)
(* handles, any calls among them and any bounds, as long as the stack      *)
(* suffices.                                                               *)
(***************************************************************************)

(***************************************************************************)
(* The stack pointer stays in the stack and aligned, and every activation  *)
(* is well made, its allocated space inside the stack.                     *)
(***************************************************************************)
THEOREM Typed ==
  ASSUME Handled
  PROVE  Spec /\ []StackSuffices => []TypeOK
<1>1. IInv /\ StackSuffices => TypeOK
  BY TypeOKHolds
<1>2. Spec /\ []StackSuffices => []IInv
  BY Invariant
<1>. QED
  BY <1>1, <1>2, PTL

(***************************************************************************)
(* When control leaves a function, by ret, by a tail call or by            *)
(* llvm.eh.return, the callee-saved registers, sp and lr are what the      *)
(* caller, or the handler, counts on: the prologue stored them where the   *)
(* epilogue loads them, and nothing in between wrote there.                *)
(***************************************************************************)
THEOREM CalleeSavedAreKept ==
  ASSUME Handled
  PROVE  Spec /\ []StackSuffices => []CalleeSavedKept
<1>1. IInv /\ StackSuffices => CalleeSavedKept
  BY CalleeSavedKeptHolds
<1>2. Spec /\ []StackSuffices => []IInv
  BY Invariant
<1>. QED
  BY <1>1, <1>2, PTL

(***************************************************************************)
(* No callee, no outgoing argument, no saved register, no slot of gp and   *)
(* no interrupt changes a local word of an activation or the space that it *)
(* allocated.                                                              *)
(***************************************************************************)
THEOREM FramesAreKept ==
  ASSUME Handled
  PROVE  Spec /\ []StackSuffices => []FrameKept
<1>1. IInv => FrameKept
  BY FrameKeptHolds
<1>2. Spec /\ []StackSuffices => []IInv
  BY Invariant
<1>. QED
  BY <1>1, <1>2, PTL

(***************************************************************************)
(* Every word that a call passes is where the callee looks for it, for     *)
(* every list of arguments, byval and variable ones included, and both for *)
(* normal calls and for tail calls.                                        *)
(***************************************************************************)
THEOREM EveryArgumentArrives ==
  ASSUME Handled
  PROVE  Spec /\ []StackSuffices => []ArgumentsArrive
<1>1. IInv => ArgumentsArrive
  BY ArgumentsArriveHolds
<1>2. Spec /\ []StackSuffices => []IInv
  BY Invariant
<1>. QED
  BY <1>1, <1>2, PTL
=============================================================================
