----------------------------- MODULE Cpu0Frames -----------------------------
(***************************************************************************)
(* Functions compiled by the Cpu0 back end call one another: the code that *)
(* LowerCall and LowerFormalArguments, Cpu0SEFrameLowering, the            *)
(* elimination of frame indices and the GP-restore pass give a function,   *)
(* executed one instruction at a time on the registers and the stack.      *)
(*                                                                         *)
(* Programs are sets of functions, each with the traits that decide its    *)
(* frame.  The body of a function is left open: it may write its local     *)
(* variables, use the callee-saved registers it saves and allocate stack   *)
(* space, in any order; its calls come in the order they have in the code. *)
(***************************************************************************)
EXTENDS Cpu0CallConv, FiniteSets

CONSTANTS
  Funcs,          \* the functions of the programs to run, by name
  Entries,        \* the names of those that a program starts with
  MemTop,         \* the address behind the stack
  MaxWrites,      \* bound on writes of locals and callee-saved registers
  MaxInterrupts,  \* bound on interrupts
  MaxImm          \* the largest immediate, 32767 on the machine

(***************************************************************************)
(* A function is compiled for an ABI, position-independent or not, perhaps *)
(* with -enable-cpu0-tail-calls.  It has a convention and arguments, may   *)
(* be variadic, has a number of local words, uses callee-saved registers,  *)
(* may allocate stack space, need a frame pointer for another reason or    *)
(* call llvm.eh.return, and has calls, each with the variable arguments    *)
(* that it passes.                                                         *)
(***************************************************************************)
CallType == [callee : DOMAIN Funcs, tail : BOOLEAN, extra : Seq({I32, I64})]
FuncType ==
  [abi : {"O32", "S32"}, pic : BOOLEAN, tails : BOOLEAN,
   conv : {"C", "fast"}, args : Seq(ArgType), vararg : BOOLEAN, locals : Nat,
   uses : SUBSET {"fp", "s0", "s1"}, dyn : BOOLEAN, frameAddr : BOOLEAN, eh : BOOLEAN,
   calls : Seq(CallType)]

\* A variadic function has the convention "C"; a function calls functions of
\* its own program, and passes more than the fixed arguments to variadic ones.
WellFormed(f) ==
  /\ f.vararg => f.conv = "C"
  /\ \A k \in DOMAIN f.calls :
       LET g == Funcs[f.calls[k].callee]
       IN  /\ g.abi = f.abi /\ g.pic = f.pic /\ g.tails = f.tails
           /\ ~g.vararg => f.calls[k].extra = <<>>

\* The function that a program starts with is passed nothing.
ASSUME FuncsAssumption ==
  /\ \A n \in DOMAIN Funcs : Funcs[n] \in FuncType /\ WellFormed(Funcs[n])
  /\ \A n \in Entries : n \in DOMAIN Funcs /\ Funcs[n].args = <<>>
ASSUME BoundsAssumption ==
  /\ {MemTop, MaxWrites, MaxInterrupts, MaxImm} \subseteq Nat
  /\ MemTop >= 16 /\ MemTop % 8 = 0

VARIABLES
  regs,         \* the registers
  mem,          \* the words of the stack
  acts,         \* the activations, the running one last
  writes,       \* writes of the bodies left
  interrupts    \* interrupts left

vars == <<regs, mem, acts, writes, interrupts>>

RegNames  == {"sp", "fp", "lr", "s0", "s1", "a0", "a1", "v0", "v1", "gp"}
Addresses == {a \in 0 .. MemTop : a % 4 = 0}

(***************************************************************************)
(* Values other than addresses: those of the activation d (a counter),     *)
(* and what an interrupt leaves behind.                                    *)
(***************************************************************************)
Val(d, k)       == -(1000 * d + k)
LocalVal(d, k)  == Val(d, k)
RegVal(d, r)    == Val(d, CASE r = "s0" -> 101 [] r = "s1" -> 102 [] r = "fp" -> 103)
GPVal(d)        == Val(d, 110)
AllocaVal(d)    == Val(d, 111)
Handler         == Val(0, 112)
ReturnTo(d, k)  == Val(d, 200 + k)
ArgVal(d, k, i) == Val(d, 300 + 20 * k + i)
Junk            == 1
NoSpace         == -1   \* no stack space allocated

If(cond, code) == IF cond THEN code ELSE <<>>

-----------------------------------------------------------------------------
(***************************************************************************)
(* LowerCall: what the k-th call of f passes, and the size of its frame.   *)
(***************************************************************************)
Cc(f)        == [abi |-> f.abi, conv |-> f.conv]
Callee(f, k) == Funcs[f.calls[k].callee]
Passed(f, k) == Callee(f, k).args \o f.calls[k].extra

NextStackOffset(f, k) == Analyze(Cc(Callee(f, k)), Passed(f, k)).stack
IncomingArgSize(f)    == Analyze(Cc(f), f.args).stack

\* Mutant: the outgoing area is as large as the arguments.
CallFrameUnaligned(f, k) == NextStackOffset(f, k)

CallFrame(f, k) == AlignTo(NextStackOffset(f, k), 8)

\* isEligibleForTailCallOptimization.
IsTail(f, k) ==
  /\ f.tails /\ f.calls[k].tail
  /\ ~HasByVal(Passed(f, k)) /\ ~HasByVal(f.args)
  /\ NextStackOffset(f, k) <= IncomingArgSize(f)

RealCalls(f)    == {k \in DOMAIN f.calls : ~IsTail(f, k)}
MaxCallFrame(f) == Max({0} \cup {CallFrame(f, k) : k \in RealCalls(f)})
AdjustsStack(f) == f.dyn \/ RealCalls(f) # {}

(***************************************************************************)
(* The frame: what PrologEpilogInserter makes of the answers of            *)
(* Cpu0SEFrameLowering.  Offsets are from the stack pointer on entry.      *)
(***************************************************************************)
HasFP(f) == f.dyn \/ f.frameAddr

\* Mutant: variable-sized objects are forgotten.
HasReservedCallFrameDyn(f) == MaxCallFrame(f) + 8 <= MaxImm

HasReservedCallFrame(f) == MaxCallFrame(f) + 8 <= MaxImm /\ ~f.dyn

\* determineCalleeSaves, in the order of CSR_O32.
SavedRegs(f) ==
  If(RealCalls(f) # {}, <<"lr">>)
    \o If(HasFP(f) \/ "fp" \in f.uses, <<"fp">>)
    \o If("s1" \in f.uses, <<"s1">>)
    \o If("s0" \in f.uses, <<"s0">>)
\* GetEhDataReg; createEhDataRegsFI makes both slots under either ABI.
EhRegs(f)  == IF f.eh /\ f.abi = "O32" THEN <<"a0", "a1">> ELSE <<>>
EhSlots(f) == IF f.eh THEN 2 ELSE 0

LocalOffset(f, k) == -4 * (Len(SavedRegs(f)) + k)
EhOffset(f, k)    == -4 * (Len(SavedRegs(f)) + f.locals + k)

StackSize(f) ==
  AlignTo(4 * (Len(SavedRegs(f)) + f.locals + EhSlots(f))
            + IF AdjustsStack(f) /\ HasReservedCallFrame(f) THEN MaxCallFrame(f) ELSE 0,
          8)

(***************************************************************************)
(* eliminateFrameIndex: callee-saved registers relative to sp, everything  *)
(* else relative to fp when there is one.  The slot that .cprestore saves  *)
(* gp in has the offset that LowerCall gave it at the last call.           *)
(***************************************************************************)
Slot(base, off) == [base |-> base, off |-> off]
FrameReg(f)     == IF HasFP(f) THEN "fp" ELSE "sp"

SavedSlot(f, k)  == Slot("sp", StackSize(f) - 4 * k)
ObjSlot(f, off)  == Slot(FrameReg(f), StackSize(f) + off)
NeedsGPSlot(f)   == f.pic /\ f.calls # <<>>
GPSlot(f)        == Slot(FrameReg(f), NextStackOffset(f, Len(f.calls)))

-----------------------------------------------------------------------------
(***************************************************************************)
(* Instructions.                                                           *)
(***************************************************************************)
AddSP(n)     == [op |-> "addsp", imm |-> n]
St(r, slot)  == [op |-> "st", reg |-> r, slot |-> slot]
Ld(r, slot)  == [op |-> "ld", reg |-> r, slot |-> slot]
StV(v, slot) == [op |-> "stv", val |-> v, slot |-> slot]
Li(r, v)     == [op |-> "li", reg |-> r, val |-> v]
Copy(r, s)   == [op |-> "copy", reg |-> r, from |-> s]
Call(k)      == [op |-> "call", site |-> k]
Jump(k)      == [op |-> "jump", site |-> k]
AddSPV1      == [op |-> "addspv1"]
Ret          == [op |-> "ret"]

ArgReg(r)      == IF r = 0 THEN "a0" ELSE "a1"

\* emitFunctionBodyStart: .cpload, which a position-independent function needs
\* for any global.
Cpload(f, d) == If(f.pic, <<Li("gp", GPVal(d))>>)

\* What the prologue is made of.  Without a frame there is nothing to save.
HasFrame(f)      == StackSize(f) # 0 \/ AdjustsStack(f)
AllocateFrame(f) == If(HasFrame(f), <<AddSP(-StackSize(f))>>)
SaveRegs(f) ==
  [k \in DOMAIN SavedRegs(f) |-> St(SavedRegs(f)[k], SavedSlot(f, k))]
SaveEhData(f) ==
  [k \in DOMAIN EhRegs(f) |-> St(EhRegs(f)[k], ObjSlot(f, EhOffset(f, k)))]
SetFP(f)     == If(HasFP(f), <<Copy("fp", "sp")>>)
CpRestore(f) == If(HasFrame(f) /\ NeedsGPSlot(f), <<St("gp", Slot("sp", GPSlot(f).off))>>)

\* Mutant: the eh data registers are not stored.
PrologueNoEh(f, d) ==
  Cpload(f, d) \o AllocateFrame(f) \o SaveRegs(f) \o SetFP(f) \o CpRestore(f)

\* emitPrologue around the stores of spillCalleeSavedRegisters.
Prologue(f, d) ==
  Cpload(f, d) \o AllocateFrame(f) \o SaveRegs(f) \o SaveEhData(f) \o SetFP(f) \o CpRestore(f)

\* LowerFormalArguments: the argument registers that belong in memory.
HomeArgs(f) ==
  LET homed == HomedRegs(Cc(f), f.args, f.vararg)
  IN  [k \in DOMAIN homed |-> St(ArgReg(homed[k].reg), ObjSlot(f, homed[k].off))]

\* What the epilogue is made of.
RestoreSP(f) == If(HasFP(f), <<Copy("sp", "fp")>>)
LoadEhData(f) ==
  [k \in DOMAIN EhRegs(f) |-> Ld(EhRegs(f)[k], ObjSlot(f, EhOffset(f, k)))]
LoadRegs(f) ==
  Reverse([k \in DOMAIN SavedRegs(f) |-> Ld(SavedRegs(f)[k], SavedSlot(f, k))])
FreeFrame(f) == If(StackSize(f) # 0, <<AddSP(StackSize(f))>>)

\* Mutant: the frame is popped before the registers are loaded.
EpiloguePopsFirst(f) ==
  RestoreSP(f) \o FreeFrame(f)
    \o [k \in DOMAIN EhRegs(f) |-> Ld(EhRegs(f)[k], Slot("sp", EhOffset(f, k)))]
    \o [k \in DOMAIN SavedRegs(f) |-> Ld(SavedRegs(f)[k], Slot("sp", -4 * k))]

\* emitEpilogue around the loads of restoreCalleeSavedRegisters.
Epilogue(f) == RestoreSP(f) \o LoadEhData(f) \o LoadRegs(f) \o FreeFrame(f)

\* The indexes of the words in places of S, in order.
Chosen(words, S) ==
  LET upTo[n \in 0 .. Len(words)] ==
        IF n = 0 THEN <<>>
        ELSE IF words[n].reg \in S THEN Append(upTo[n - 1], n) ELSE upTo[n - 1]
  IN  upTo[Len(words)]

\* The arguments of call k: those in the area on the stack first, then those
\* in registers.
Order(words) == Chosen(words, {-1}) \o Chosen(words, {0, 1})

PassWord(w, v, area) ==
  IF w.reg = -1 THEN StV(v, Slot(area.base, area.off + w.off)) ELSE Li(ArgReg(w.reg), v)

SentWords(f, k) == CallerWords(Cc(Callee(f, k)), Passed(f, k))

PassArgs(f, d, k, area) ==
  LET words == SentWords(f, k)
      order == Order(words)
  IN  [j \in DOMAIN order |-> PassWord(words[order[j]], ArgVal(d, k, order[j]), area)]

\* The ADJCALLSTACKDOWN and ADJCALLSTACKUP of a call.
AdjustForCall(f, n) == If(~HasReservedCallFrame(f), <<AddSP(n)>>)

\* Mutant: the GP-restore pass finds no jalr.
RestoreGPNever(f) == <<>>

\* Behind every jalr, the pass Cpu0EmitGPRestore loads gp from its slot.
RestoreGP(f) == If(f.pic, <<Ld("gp", GPSlot(f))>>)

\* LowerCall.
CallCode(f, d, k) ==
  AdjustForCall(f, -CallFrame(f, k)) \o PassArgs(f, d, k, Slot("sp", 0))
    \o <<Call(k)>> \o RestoreGP(f) \o AdjustForCall(f, CallFrame(f, k))

\* The arguments of a tail call replace those of the function itself.
TailCallCode(f, d, k) ==
  PassArgs(f, d, k, ObjSlot(f, 0)) \o Epilogue(f) \o <<Jump(k)>>

\* expandEhReturn: lowerEH_RETURN left the handler in v0, the offset in v1.
EhReturnCode(f) ==
  Epilogue(f) \o <<Copy("lr", "v0"), AddSPV1, Ret>>

-----------------------------------------------------------------------------
(***************************************************************************)
(* An activation: its number, its function, the registers and the argument *)
(* words it was entered with, the instructions it is executing and which   *)
(* is next, its next call, and what its body has stored: the values of its *)
(* local words (Junk for none yet) and the address of the space it         *)
(* allocated.  An activation that enters or calls is in its body behind    *)
(* the last of these instructions; one that leaves does not get there.     *)
(***************************************************************************)
Func(a)  == Funcs[a.fn]
Top      == acts[Len(acts)]
Running  == Top.at <= Len(Top.code)
Instr    == Top.code[Top.at]
Address(slot) == regs[slot.base] + slot.off

Advanced(a) == [a EXCEPT !.at = @ + 1]
SetTop(a)   == [acts EXCEPT ![Len(acts)] = a]
Begin(a, phase, code) == [a EXCEPT !.phase = phase, !.code = code, !.at = 1]

NewAct(id, fn, entry, passed, extra) ==
  LET f == Funcs[fn]
  IN  [id |-> id, fn |-> fn, entry |-> entry, passed |-> passed, extra |-> extra,
       phase |-> "enter", code |-> Prologue(f, id) \o HomeArgs(f), at |-> 1,
       next |-> 1, locals |-> [k \in 1 .. f.locals |-> Junk], alloca |-> NoSpace]

\* The activation that the k-th call of the running one enters.
Entered(k, entry) ==
  LET f == Func(Top)
  IN  NewAct(Top.id + 1, f.calls[k].callee, entry,
             [i \in DOMAIN SentWords(f, k) |-> ArgVal(Top.id, k, i)], f.calls[k].extra)

InitRegs(sp) ==
  [r \in RegNames |-> CASE r = "sp" -> sp
                       [] r \in {"fp", "s0", "s1"} -> RegVal(0, r)
                       [] r = "gp" -> GPVal(0)
                       [] r = "lr" -> ReturnTo(0, 0)
                       [] OTHER -> Junk]

Init ==
  /\ regs = InitRegs(MemTop - 16)
  /\ mem = [a \in Addresses |-> Junk]
  /\ \E main \in Entries : acts = <<NewAct(1, main, regs, <<>>, <<>>)>>
  /\ writes = MaxWrites
  /\ interrupts = MaxInterrupts

-----------------------------------------------------------------------------
(***************************************************************************)
(* One instruction of the running activation.  Memory outside the stack is *)
(* not modelled: a store there is lost, a load yields Junk.                *)
(***************************************************************************)
Executes(op) == acts # <<>> /\ Running /\ Instr.op = op

Store(addr, v) == [mem EXCEPT ![addr] = v]
Load(addr)     == IF addr \in Addresses THEN mem[addr] ELSE Junk

Computes(newRegs) ==
  /\ regs' = newRegs
  /\ acts' = SetTop(Advanced(Top))
  /\ UNCHANGED <<mem, writes, interrupts>>

Stores(addr, v) ==
  /\ mem' = IF addr \in Addresses THEN Store(addr, v) ELSE mem
  /\ acts' = SetTop(Advanced(Top))
  /\ UNCHANGED <<regs, writes, interrupts>>

AdjustStackPtr == Executes("addsp") /\ Computes([regs EXCEPT !.sp = @ + Instr.imm])
AddToStackPtr  == Executes("addspv1") /\ Computes([regs EXCEPT !.sp = @ + regs.v1])
LoadImmediate  == Executes("li") /\ Computes([regs EXCEPT ![Instr.reg] = Instr.val])
CopyReg        == Executes("copy") /\ Computes([regs EXCEPT ![Instr.reg] = regs[Instr.from]])
LoadFromStack  ==
  Executes("ld") /\ Computes([regs EXCEPT ![Instr.reg] = Load(Address(Instr.slot))])
StoreReg   == Executes("st") /\ Stores(Address(Instr.slot), regs[Instr.reg])
StoreValue == Executes("stv") /\ Stores(Address(Instr.slot), Instr.val)

JumpAndLink ==
  /\ Executes("call")
  /\ regs' = [regs EXCEPT !.lr = ReturnTo(Top.id, Instr.site)]
  /\ acts' = Append(SetTop(Advanced(Top)), Entered(Instr.site, regs'))
  /\ UNCHANGED <<mem, writes, interrupts>>

TailJump ==
  /\ Executes("jump")
  /\ acts' = SetTop(Entered(Instr.site, regs))
  /\ UNCHANGED <<regs, mem, writes, interrupts>>

\* That lr leads back to the caller is a property, not a guard.  A handler
\* that llvm.eh.return enters belongs to no activation of the program.
RetLR ==
  /\ Executes("ret")
  /\ acts' = IF Top.phase = "throw" THEN <<>> ELSE Front(acts)
  /\ UNCHANGED <<regs, mem, writes, interrupts>>

-----------------------------------------------------------------------------
(***************************************************************************)
(* The body of a function, between its prologue and its epilogue.          *)
(***************************************************************************)
InBody == acts # <<>> /\ ~Running

WriteLocal ==
  /\ InBody /\ writes > 0
  /\ \E k \in DOMAIN Top.locals :
       LET at == Address(ObjSlot(Func(Top), LocalOffset(Func(Top), k)))
       IN  /\ at \in Addresses
           /\ mem' = Store(at, LocalVal(Top.id, k))
           /\ acts' = SetTop([Top EXCEPT !.locals[k] = LocalVal(Top.id, k)])
  /\ writes' = writes - 1
  /\ UNCHANGED <<regs, interrupts>>

\* fp is an allocatable register in a function without a frame pointer.
UseCalleeSaved ==
  /\ InBody /\ writes > 0
  /\ \E r \in Func(Top).uses \ (IF HasFP(Func(Top)) THEN {"fp"} ELSE {}) :
       regs' = [regs EXCEPT ![r] = RegVal(Top.id, r)]
  /\ writes' = writes - 1
  /\ UNCHANGED <<mem, acts, interrupts>>

\* DYNAMIC_STACKALLOC of two words, in a function whose calls reserve no frame.
Alloca ==
  /\ InBody /\ Func(Top).dyn /\ Top.alloca = NoSpace
  /\ LET sp == regs.sp - 8
     IN  /\ regs' = [regs EXCEPT !.sp = sp]
         /\ mem'  = [mem EXCEPT ![sp] = AllocaVal(Top.id), ![sp + 4] = AllocaVal(Top.id)]
         /\ acts' = SetTop([Top EXCEPT !.alloca = sp])
  /\ UNCHANGED <<writes, interrupts>>

BeginCall ==
  /\ InBody /\ Top.next \in DOMAIN Func(Top).calls
  /\ LET f == Func(Top)
         k == Top.next
         a == [Top EXCEPT !.next = k + 1]
     IN  acts' = SetTop(IF IsTail(f, k) THEN Begin(a, "tail", TailCallCode(f, a.id, k))
                                        ELSE Begin(a, "call", CallCode(f, a.id, k)))
  /\ UNCHANGED <<regs, mem, writes, interrupts>>

Return ==
  /\ InBody /\ Top.next \notin DOMAIN Func(Top).calls
  /\ acts' = SetTop(Begin(Top, "leave", Epilogue(Func(Top)) \o <<Ret>>))
  /\ UNCHANGED <<regs, mem, writes, interrupts>>

\* lowerEH_RETURN: the offset is 0, or 8 bytes of the area that the caller
\* has for the arguments of the function.
EhReturn ==
  /\ InBody /\ Func(Top).eh /\ Top.next \notin DOMAIN Func(Top).calls
  /\ \E offset \in {o \in {0, 8} : o <= IncomingArgSize(Func(Top))} :
       regs' = [regs EXCEPT !.v0 = Handler, !.v1 = offset]
  /\ acts' = SetTop(Begin(Top, "throw", EhReturnCode(Func(Top))))
  /\ UNCHANGED <<mem, writes, interrupts>>

\* An interrupt service routine uses the stack below sp.
Interrupt ==
  /\ acts # <<>> /\ interrupts > 0
  /\ mem' = [a \in Addresses |-> IF a < regs.sp THEN Junk ELSE mem[a]]
  /\ interrupts' = interrupts - 1
  /\ UNCHANGED <<regs, acts, writes>>

Step ==
  \/ AdjustStackPtr \/ AddToStackPtr \/ LoadImmediate \/ CopyReg
  \/ LoadFromStack \/ StoreReg \/ StoreValue
  \/ JumpAndLink \/ TailJump \/ RetLR

Body == WriteLocal \/ UseCalleeSaved \/ Alloca \/ BeginCall \/ Return \/ EhReturn

Next == Step \/ Body \/ Interrupt

Spec == Init /\ [][Next]_vars

-----------------------------------------------------------------------------
(***************************************************************************)
(* The stack pointer stays in the stack and every activation is well made. *)
(***************************************************************************)
TypeOK ==
  /\ DOMAIN regs = RegNames /\ \A r \in RegNames : regs[r] \in Int
  /\ regs.sp \in Addresses /\ regs.sp % 8 = 0
  /\ DOMAIN mem = Addresses /\ \A a \in Addresses : mem[a] \in Int
  /\ \A d \in DOMAIN acts :
       /\ acts[d].fn \in DOMAIN Funcs
       /\ acts[d].phase \in {"enter", "call", "tail", "leave", "throw"}
       /\ acts[d].at \in 1 .. Len(acts[d].code) + 1
       /\ acts[d].next \in 1 .. Len(Func(acts[d]).calls) + 1
       /\ DOMAIN acts[d].locals = 1 .. Func(acts[d]).locals
       /\ acts[d].alloca \in Addresses \cup {NoSpace}
  /\ writes \in 0 .. MaxWrites /\ interrupts \in 0 .. MaxInterrupts

\* The frame of the activation is complete.
Established(a) == a.phase = "call" \/ (a.phase = "enter" /\ a.at > Len(a.code))
AtEntry(a, off) == Load(a.entry.sp + off)

(***************************************************************************)
(* Caller and callee agree: every word that the call passed is where the   *)
(* callee looks for it.  LowerCall and passByValArg put the words in A0,   *)
(* A1 and the outgoing area; LowerFormalArguments, copyByValRegs and       *)
(* writeVarArgRegs find them there, from another prologue's stack pointer, *)
(* for normal and for tail calls.                                          *)
(***************************************************************************)
ArgumentsArrive ==
  \A d \in DOMAIN acts :
    LET a     == acts[d]
        words == CalleeWords(Cc(Func(a)), Func(a).args, a.extra)
    IN  Established(a) =>
          /\ Len(words) = Len(a.passed)
          /\ \A i \in DOMAIN words :
               IF words[i].reg = -1
                 THEN AtEntry(a, words[i].off) = a.passed[i]
                 ELSE d = Len(acts) /\ InBody /\ a.next = 1 =>
                        regs[ArgReg(words[i].reg)] = a.passed[i]

(***************************************************************************)
(* When control leaves a function, by ret, by the jump of a tail call or   *)
(* by llvm.eh.return, fp, s0 and s1 are as on entry, and so are sp and lr, *)
(* except that llvm.eh.return goes to its handler with its stack offset.   *)
(***************************************************************************)
CalleeSavedKept ==
  acts # <<>> /\ Running /\ Instr.op \in {"ret", "jump"} =>
    /\ \A r \in {"fp", "s0", "s1"} : regs[r] = Top.entry[r]
    /\ IF Top.phase = "throw"
         THEN regs.lr = Handler /\ regs.sp = Top.entry.sp + regs.v1
         ELSE regs.lr = Top.entry.lr /\ regs.sp = Top.entry.sp

(***************************************************************************)
(* Nothing but the function itself changes its local words and its         *)
(* allocated space while it runs: no callee, no outgoing argument, no      *)
(* saved register and no interrupt is given an address of theirs.          *)
(***************************************************************************)
FrameKept ==
  \A d \in DOMAIN acts :
    LET a == acts[d]
    IN  Established(a) =>
          /\ \A k \in DOMAIN a.locals :
               a.locals[k] # Junk => AtEntry(a, LocalOffset(Func(a), k)) = a.locals[k]
          /\ a.alloca # NoSpace =>
               \A at \in {a.alloca, a.alloca + 4} : Load(at) = AllocaVal(a.id)

(***************************************************************************)
(* The eh data registers that emitPrologue spills are in the slots that    *)
(* its .cfi_offset directives and the epilogue's loads refer to.           *)
(***************************************************************************)
EhDataSaved ==
  \A d \in DOMAIN acts :
    Established(acts[d]) =>
      \A k \in DOMAIN EhRegs(Func(acts[d])) :
        AtEntry(acts[d], EhOffset(Func(acts[d]), k))
          = acts[d].entry[EhRegs(Func(acts[d]))[k]]

(***************************************************************************)
(* In position-independent code, gp is the function's own whenever its     *)
(* body runs, although the functions it calls load theirs.                 *)
(***************************************************************************)
GPRestored ==
  InBody /\ Func(Top).pic => regs.gp = GPVal(Top.id)
=============================================================================
