--------------------------- MODULE Cpu0FramesInv ---------------------------
(***************************************************************************)
(* The inductive invariant of Cpu0Frames: for each instruction that an     *)
(* activation may be about to execute, what its registers and its part of  *)
(* the stack hold, and that the parts of the activations lie one below the *)
(* other.                                                                  *)
(***************************************************************************)
EXTENDS Cpu0Frames

One(cond) == IF cond THEN 1 ELSE 0

(***************************************************************************)
(* The functions that the frame lowering handles: where the slot that      *)
(* .cprestore uses is, it overlaps nothing else and is found again; and a  *)
(* function that spills the eh data registers has no frame pointer, and    *)
(* passes nothing in these registers to a function it tail-calls.          *)
(***************************************************************************)
Objects(f) == Len(SavedRegs(f)) + f.locals + EhSlots(f)

GPSlotApart(f) ==
  HasFrame(f) /\ NeedsGPSlot(f) =>
    /\ HasReservedCallFrame(f) \/ HasFP(f)
    /\ HasReservedCallFrame(f) =>
         \A k \in RealCalls(f) : NextStackOffset(f, k) <= GPSlot(f).off
    /\ GPSlot(f).off + 4 + 4 * Objects(f) <= StackSize(f)

EhDataApart(f) ==
  EhRegs(f) # <<>> =>
    /\ ~HasFP(f)
    /\ \A k \in DOMAIN f.calls :
         IsTail(f, k) => \A i \in DOMAIN SentWords(f, k) : SentWords(f, k)[i].reg = -1

Handled ==
  \A n \in DOMAIN Funcs : GPSlotApart(Funcs[n]) /\ EhDataApart(Funcs[n])

\* The stack does not run out.
StackSuffices == regs.sp >= 0

-----------------------------------------------------------------------------
(***************************************************************************)
(* Addresses of an activation: the stack pointer behind its prologue, in   *)
(* its body and during a call; the end of the arguments it was passed; and *)
(* the end of those it passes, below which its callees may write.          *)
(***************************************************************************)
Bottom(a)   == a.entry.sp - StackSize(Func(a))
BodySP(a)   == IF a.alloca = NoSpace THEN Bottom(a) ELSE Bottom(a) - 8
CallSite(a) == a.next - 1
CallSP(a) ==
  BodySP(a) - IF HasReservedCallFrame(Func(a)) THEN 0 ELSE CallFrame(Func(a), CallSite(a))
End(a)   == a.entry.sp + IncomingArgSize(Func(a))
Guard(a) == CallSP(a) + NextStackOffset(Func(a), CallSite(a))

\* Where the parts of a prologue, of an epilogue and of a call end.
Homed(f)         == HomedRegs(Cc(f), f.args, f.vararg)
AfterCpload(f)   == One(f.pic)
AfterAllocate(f) == AfterCpload(f) + One(HasFrame(f))
AfterSaves(f)    == AfterAllocate(f) + Len(SavedRegs(f))
AfterEh(f)       == AfterSaves(f) + Len(EhRegs(f))
AfterFP(f)       == AfterEh(f) + One(HasFP(f))
AfterGP(f)       == AfterFP(f) + One(HasFrame(f) /\ NeedsGPSlot(f))

AfterSP(f)      == One(HasFP(f))
AfterEhLoads(f) == AfterSP(f) + Len(EhRegs(f))
AfterLoads(f)   == AfterEhLoads(f) + Len(SavedRegs(f))
AfterFree(f)    == AfterLoads(f) + One(StackSize(f) # 0)

AfterAdjust(f)  == One(~HasReservedCallFrame(f))
CallAt(f, k)    == AfterAdjust(f) + Len(Order(SentWords(f, k))) + 1

-----------------------------------------------------------------------------
(***************************************************************************)
(* What the stack m holds of an activation: the first n registers saved,   *)
(* eh data registers and argument registers stored; gp; the arguments      *)
(* passed on the stack; what the body has stored.                          *)
(***************************************************************************)
Holds(m, addr, v) == addr \in Addresses /\ m[addr] = v

SavedHeld(a, m, n) ==
  \A k \in DOMAIN SavedRegs(Func(a)) :
    k <= n => Holds(m, a.entry.sp - 4 * k, a.entry[SavedRegs(Func(a))[k]])

EhHeld(a, m, n) ==
  \A k \in DOMAIN EhRegs(Func(a)) :
    k <= n => Holds(m, a.entry.sp + EhOffset(Func(a), k), a.entry[EhRegs(Func(a))[k]])

HomesHeld(a, m, n) ==
  \A k \in DOMAIN Homed(Func(a)) :
    k <= n => Holds(m, a.entry.sp + Homed(Func(a))[k].off,
                    a.entry[ArgReg(Homed(Func(a))[k].reg)])

GPHeld(a, m) ==
  HasFrame(Func(a)) /\ NeedsGPSlot(Func(a)) =>
    Holds(m, Bottom(a) + GPSlot(Func(a)).off, GPVal(a.id))

GotWords(a) == CallerWords(Cc(Func(a)), Func(a).args \o a.extra)

ArgsHeld(a, m) ==
  \A i \in DOMAIN GotWords(a) :
    GotWords(a)[i].reg = -1 => Holds(m, a.entry.sp + GotWords(a)[i].off, a.passed[i])

LocalsHeld(a, m) ==
  \A k \in DOMAIN a.locals :
    a.locals[k] # Junk => Holds(m, a.entry.sp + LocalOffset(Func(a), k), a.locals[k])

SpaceHeld(a, m) ==
  a.alloca # NoSpace =>
    Holds(m, a.alloca, AllocaVal(a.id)) /\ Holds(m, a.alloca + 4, AllocaVal(a.id))

FrameHeld(a, m) ==
  /\ SavedHeld(a, m, Len(SavedRegs(Func(a))))
  /\ EhHeld(a, m, Len(EhRegs(Func(a))))
  /\ HomesHeld(a, m, Len(Homed(Func(a))))
  /\ GPHeld(a, m) /\ ArgsHeld(a, m) /\ LocalsHeld(a, m) /\ SpaceHeld(a, m)

\* The registers of X that the function does not save are as on entry.
Unsaved(a, r, X) ==
  \A x \in X : x \notin ToSet(SavedRegs(Func(a))) => r[x] = a.entry[x]

KeptRegs  == {"fp", "s0", "s1"}
SavedSet  == KeptRegs \cup {"lr"}
OwnGP(a, r) == Func(a).pic => r.gp = GPVal(a.id)
OwnFP(a, r) == HasFP(Func(a)) => r.fp = Bottom(a)

\* The first n words of a call are in their registers and behind base.
WordPlaced(w, v, r, m, base) ==
  IF w.reg = -1 THEN Holds(m, base + w.off, v) ELSE r[ArgReg(w.reg)] = v

WordsPlaced(a, r, m, base, n) ==
  LET f     == Func(a)
      k     == CallSite(a)
      words == SentWords(f, k)
      order == Order(words)
  IN  \A j \in DOMAIN order :
        j <= n => WordPlaced(words[order[j]], ArgVal(a.id, k, order[j]), r, m, base)

-----------------------------------------------------------------------------
(***************************************************************************)
(* The running activation in each of its phases, about to execute its p-th *)
(* instruction with the registers r and the stack m.                       *)
(***************************************************************************)
EnteringRegs(a, p, r) ==
  LET f == Func(a)
  IN  /\ r.sp = IF p <= AfterAllocate(f) THEN a.entry.sp ELSE Bottom(a)
      /\ r.fp = IF HasFP(f) /\ p > AfterFP(f) THEN Bottom(a) ELSE a.entry.fp
      /\ \A x \in {"lr", "s0", "s1", "a0", "a1"} : r[x] = a.entry[x]
      /\ p > AfterCpload(f) => OwnGP(a, r)

EnteringStack(a, p, m) ==
  LET f == Func(a)
  IN  /\ SavedHeld(a, m, p - 1 - AfterAllocate(f))
      /\ EhHeld(a, m, p - 1 - AfterSaves(f))
      /\ p > AfterGP(f) => GPHeld(a, m)
      /\ HomesHeld(a, m, p - 1 - AfterGP(f))
      /\ ArgsHeld(a, m)

Unused(a) ==
  (\A k \in DOMAIN a.locals : a.locals[k] = Junk) /\ a.alloca = NoSpace /\ a.next = 1

Entering(a, p, r, m) == EnteringRegs(a, p, r) /\ EnteringStack(a, p, m) /\ Unused(a)

InItsBody(a, r, m) ==
  /\ r.sp = BodySP(a)
  /\ OwnFP(a, r) /\ OwnGP(a, r) /\ Unsaved(a, r, SavedSet) /\ FrameHeld(a, m)
  /\ a.next = 1 => r.a0 = a.entry.a0 /\ r.a1 = a.entry.a1

Calling(a, p, r, m) ==
  LET f == Func(a)
      q == CallAt(f, CallSite(a))
  IN  /\ r.sp = IF p <= AfterAdjust(f) \/ p > Len(a.code) THEN BodySP(a) ELSE CallSP(a)
      /\ OwnFP(a, r) /\ Unsaved(a, r, SavedSet) /\ FrameHeld(a, m)
      /\ p <= q => WordsPlaced(a, r, m, CallSP(a), p - 1 - AfterAdjust(f))
      /\ p # q + 1 => OwnGP(a, r)

\* The epilogue is about to execute its q-th instruction, and has loaded
\* those registers of X that come before.
Leaving(a, q, r, m, X) ==
  LET f     == Func(a)
      saved == SavedRegs(f)
  IN  /\ r.sp = IF q <= AfterSP(f) THEN BodySP(a)
                ELSE IF q <= AfterFree(f) THEN Bottom(a) ELSE a.entry.sp
      /\ q <= AfterSP(f) => OwnFP(a, r)
      /\ Unsaved(a, r, X)
      /\ q <= AfterFree(f) => SavedHeld(a, m, Len(saved))
      /\ \A k \in DOMAIN saved :
           saved[k] \in X /\ q > AfterLoads(f) + 1 - k => r[saved[k]] = a.entry[saved[k]]

TailCalling(a, p, r, m) ==
  LET n == Len(Order(SentWords(Func(a), CallSite(a))))
  IN  /\ Leaving(a, p - n, r, m, SavedSet)
      /\ WordsPlaced(a, r, m, a.entry.sp, p - 1)

Throwing(a, p, r, m) ==
  LET n == AfterFree(Func(a))
  IN  /\ r.v0 = Handler /\ r.v1 \in {0, 8} /\ r.v1 <= IncomingArgSize(Func(a))
      /\ p <= n + 1 => Leaving(a, p, r, m, SavedSet)
      /\ p = n + 2 => Leaving(a, p, r, m, KeptRegs)
      /\ p > n + 2 => r.sp = a.entry.sp + r.v1 /\ \A x \in KeptRegs : r[x] = a.entry[x]
      /\ p > n + 1 => r.lr = Handler

TopInv(a, r, m) ==
  LET done == a.at > Len(a.code)
  IN  /\ a.phase = "enter" /\ ~done => Entering(a, a.at, r, m)
      /\ a.phase = "call" /\ ~done => Calling(a, a.at, r, m)
      /\ done => a.phase \in {"enter", "call"} /\ InItsBody(a, r, m)
      /\ a.phase = "tail" => TailCalling(a, a.at, r, m)
      /\ a.phase = "leave" => Leaving(a, a.at, r, m, SavedSet)
      /\ a.phase = "throw" => Throwing(a, a.at, r, m)

(***************************************************************************)
(* An activation that waits for its callee, which was entered with the     *)
(* registers r.                                                            *)
(***************************************************************************)
Waiting(a, r, m) ==
  a.phase = "call" /\ a.at = CallAt(Func(a), CallSite(a)) + 1 /\ Calling(a, a.at, r, m)

-----------------------------------------------------------------------------
(***************************************************************************)
(* What never changes of an activation, or only between its phases.        *)
(***************************************************************************)
SlotType  == [base : {"sp", "fp"}, off : Int]
InstrType ==
  [op : {"addsp"}, imm : Int]
    \cup [op : {"st", "ld"}, reg : RegNames, slot : SlotType]
    \cup [op : {"stv"}, val : Int, slot : SlotType]
    \cup [op : {"li"}, reg : RegNames, val : Int]
    \cup [op : {"copy"}, reg : RegNames, from : RegNames]
    \cup [op : {"call", "jump"}, site : Nat]
    \cup [op : {"addspv1", "ret"}]

ActType ==
  [id : Nat, fn : DOMAIN Funcs, entry : [RegNames -> Int], passed : Seq(Int),
   extra : Seq({I32, I64}), phase : {"enter", "call", "tail", "leave", "throw"},
   code : Seq(InstrType), at : Nat, next : Nat, locals : Seq(Int), alloca : Int]

EnterCode(f, d)  == Prologue(f, d) \o HomeArgs(f)
LeaveCode(f)     == Epilogue(f) \o <<Ret>>

Coded(a) ==
  LET f == Func(a)
      k == CallSite(a)
  IN  /\ a.phase = "enter" => a.code = EnterCode(f, a.id)
      /\ a.phase = "call"  => k \in RealCalls(f) /\ a.code = CallCode(f, a.id, k)
      /\ a.phase = "tail"  => /\ k \in DOMAIN f.calls /\ IsTail(f, k)
                              /\ a.code = TailCallCode(f, a.id, k)
      /\ a.phase = "leave" => a.code = LeaveCode(f)
      /\ a.phase = "throw" => f.eh /\ a.code = EhReturnCode(f)
      /\ a.at \in 1 .. Len(a.code) + 1

Passes(a) ==
  /\ ~Func(a).vararg => a.extra = <<>>
  /\ Len(a.passed) = Len(GotWords(a))
  /\ \A i \in DOMAIN GotWords(a) :
       GotWords(a)[i].reg # -1 => a.entry[ArgReg(GotWords(a)[i].reg)] = a.passed[i]

Made(a) ==
  /\ a.next \in 1 .. Len(Func(a).calls) + 1
  /\ DOMAIN a.locals = 1 .. Func(a).locals
  /\ a.alloca # NoSpace => Func(a).dyn /\ a.alloca = Bottom(a) - 8 /\ a.alloca >= 0
  /\ a.entry.sp >= 0 /\ a.entry.sp % 8 = 0 /\ End(a) <= MemTop
  /\ Passes(a) /\ Coded(a)

StateTyped ==
  /\ regs \in [RegNames -> Int] /\ regs.sp % 8 = 0 /\ regs.sp <= MemTop
  /\ mem \in [Addresses -> Int]
  /\ acts \in Seq(ActType)
  /\ writes \in 0 .. MaxWrites /\ interrupts \in 0 .. MaxInterrupts

\* The activations s, whose parts of the stack m lie one below the other.
Stacked(s, m) ==
  /\ \A d \in DOMAIN s : Made(s[d])
  /\ \A d \in DOMAIN s : d < Len(s) => Waiting(s[d], s[d + 1].entry, m)
  /\ \A c, d \in DOMAIN s : c < d => End(s[d]) <= Guard(s[c])

IInv ==
  /\ StateTyped /\ Handled /\ Stacked(acts, mem)
  /\ acts # <<>> => TopInv(Top, regs, mem)
=============================================================================
