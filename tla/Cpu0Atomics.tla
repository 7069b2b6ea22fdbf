----------------------------- MODULE Cpu0Atomics -----------------------------
(***************************************************************************)
(* The load-linked / store-conditional loops that Cpu0TargetLowering       *)
(* expands the atomicrmw and cmpxchg instructions into, run by several     *)
(* threads over one memory.                                                *)
(*                                                                         *)
(* Only LL and SC touch memory, so a step of a thread is an LL or an SC    *)
(* together with the register instructions and the branch that follow it.  *)
(* An instruction is a record: its operation, its size in bytes, the word  *)
(* and the byte in the word its pointer holds, its operand and, for        *)
(* cmpxchg, the value to compare with.                                     *)
(***************************************************************************)
EXTENDS Cpu0Words

CONSTANTS
  Threads,      \* hardware threads
  Addrs,        \* word addresses
  Insts,        \* the atomic instructions the threads may issue
  IsLittle,     \* Subtarget.isLittle()
  InitWords,    \* what a word of memory may hold at first
  MaxDisturb,   \* bound on interrupts and plain stores, taken together
  NoAddr,       \* "no reservation"
  NoValue       \* what a register holds that was not written yet

BinaryOps == {"add", "sub", "and", "or", "xor", "nand", "swap"}
InstType == [op : BinaryOps \cup {"cmpswap"}, size : {1, 2, 4}, word : Addrs,
             lsb : 0 .. 3, arg : Word, cmp : Word]

ASSUME AtomicsAssumption ==
  /\ \A i \in Insts : i \in InstType /\ i.lsb % i.size = 0
  /\ IsLittle \in BOOLEAN
  /\ InitWords \subseteq Word
  /\ MaxDisturb \in Nat
  /\ NoAddr \notin Addrs
  /\ NoValue \notin Word

VARIABLES
  mem,      \* contents of the memory
  pc,       \* "idle", "ll": in front of the LL, "sc": in front of the SC
  inst,     \* the instruction the thread executes, or executed last
  oldval,   \* the register the LL loaded
  dest,     \* the result register of the pseudo instruction
  link,     \* the word the thread holds a reservation on, or NoAddr
  disturb   \* interrupts and plain stores left

vars == <<mem, pc, inst, oldval, dest, link, disturb>>

-----------------------------------------------------------------------------
(***************************************************************************)
(* thisMBB of the partword expansions: where the field lies in its word.   *)
(***************************************************************************)
\* Mutant: without the XORi of the big-endian case.
ShiftAmtNoXori(i) == ByteBits * i.lsb

ShiftAmt(i) ==
  ByteBits * (IF IsLittle THEN i.lsb
              ELSE IF i.size = 1 THEN 3 - i.lsb       \* xori off, ptrlsb2, 3
                                 ELSE 2 - i.lsb)      \* xori off, ptrlsb2, 2

MaskImm(i) == LowBits(ByteBits * i.size)
Mask(i)    == SHL(MaskImm(i), ShiftAmt(i))
Mask2(i)   == XOR(Zero, Mask(i))
Mask3(i)   == XOR(Zero, Mask2(i))

(***************************************************************************)
(* The opcode EmitInstrWithCustomInserter passes for an operation.         *)
(***************************************************************************)
BinOpcode(op, a, b) ==
  CASE op = "add" -> ADDu(a, b)
    [] op = "sub" -> SUBu(a, b)
    [] op = "and" -> AND(a, b)
    [] op = "or"  -> OR(a, b)
    [] op = "xor" -> XOR(a, b)

(***************************************************************************)
(* The word the SC of emitAtomicBinary stores, and the one of              *)
(* emitAtomicBinaryPartword.                                               *)
(***************************************************************************)
\* Mutant: without StoreVal = Incr, the SC of a swap stores a register that
\* nothing has written.
BinaryStoreValNoIncr(i, old) ==
  CASE i.op = "nand" -> XOR(Zero, AND(old, i.arg))
    [] i.op = "swap" -> NoValue
    [] OTHER         -> BinOpcode(i.op, old, i.arg)

BinaryStoreVal(i, old) ==
  CASE i.op = "nand" -> XOR(Zero, AND(old, i.arg))
    [] i.op = "swap" -> i.arg
    [] OTHER         -> BinOpcode(i.op, old, i.arg)

PartwordStoreVal(i, old) ==
  LET incr2  == SHL(i.arg, ShiftAmt(i))
      newval == CASE i.op = "nand" -> AND(XOR(Zero, AND(old, incr2)), Mask(i))
                  [] i.op = "swap" -> AND(incr2, Mask(i))
                  [] OTHER         -> AND(BinOpcode(i.op, old, incr2), Mask(i))
  IN  OR(AND(old, Mask2(i)), newval)

(***************************************************************************)
(* The comparison and the stored word of emitAtomicCmpSwap and             *)
(* emitAtomicCmpSwapPartword.                                              *)
(***************************************************************************)
\* Mutant: the BNE of loop1MBB is missing.
CmpSwapMatchesAlways(i, old) == TRUE

CmpSwapMatches(i, old) ==
  IF i.size = 4
    THEN old = i.cmp
    ELSE AND(old, Mask(i)) = SHL(AND(i.cmp, MaskImm(i)), ShiftAmt(i))

CmpSwapStoreVal(i, old) ==
  IF i.size = 4
    THEN i.arg
    ELSE OR(AND(old, Mask3(i)), SHL(AND(i.arg, MaskImm(i)), ShiftAmt(i)))

StoreVal(i, old) ==
  IF i.op = "cmpswap" THEN CmpSwapStoreVal(i, old)
  ELSE IF i.size = 4  THEN BinaryStoreVal(i, old)
                      ELSE PartwordStoreVal(i, old)

(***************************************************************************)
(* The result register: the loaded word, or what sinkMBB makes of it with  *)
(* emitSignExtendToI32InReg.                                               *)
(***************************************************************************)
DestVal(i, old) ==
  IF i.size = 4
    THEN old
    ELSE SignExtended(SHR(AND(old, Mask(i)), ShiftAmt(i)), ByteBits * i.size)

-----------------------------------------------------------------------------
(***************************************************************************)
(* The hardware.  LL takes a reservation on the word it loads.  SC         *)
(* stores only under that reservation.  A store to a word ends every       *)
(* thread's reservation on it.                                             *)
(***************************************************************************)
LL(t, a) == link' = [link EXCEPT ![t] = a]

Store(a, w) ==
  /\ mem' = [mem EXCEPT ![a] = w]
  /\ link' = [u \in Threads |-> IF link[u] = a THEN NoAddr ELSE link[u]]

\* Mutant: an ST in place of the SC.
SCStoresAlways(t, a) == TRUE

SCStores(t, a) == link[t] = a

-----------------------------------------------------------------------------
TypeOK ==
  /\ mem \in [Addrs -> Word]
  /\ pc \in [Threads -> {"idle", "ll", "sc"}]
  /\ inst \in [Threads -> Insts]
  /\ oldval \in [Threads -> Word]
  /\ dest \in [Threads -> Word \cup {NoValue}]
  /\ link \in [Threads -> Addrs \cup {NoAddr}]
  /\ disturb \in 0 .. MaxDisturb

Init ==
  /\ mem \in [Addrs -> InitWords]
  /\ pc = [t \in Threads |-> "idle"]
  /\ inst \in [Threads -> Insts]
  /\ oldval = [t \in Threads |-> Zero]
  /\ dest = [t \in Threads |-> NoValue]
  /\ link = [t \in Threads |-> NoAddr]
  /\ disturb = MaxDisturb

\* Control reaches an atomic instruction: thisMBB falls through to the loop.
Issue(t, i) ==
  /\ pc[t] = "idle"
  /\ pc' = [pc EXCEPT ![t] = "ll"]
  /\ inst' = [inst EXCEPT ![t] = i]
  /\ dest' = [dest EXCEPT ![t] = NoValue]
  /\ UNCHANGED <<mem, oldval, link, disturb>>

\* The thread leaves the loop for exitMBB, by way of sinkMBB.
Exit(t, old) ==
  /\ pc' = [pc EXCEPT ![t] = "idle"]
  /\ oldval' = [oldval EXCEPT ![t] = Zero]      \* the register is dead
  /\ dest' = [dest EXCEPT ![t] = DestVal(inst[t], old)]

\* loopMBB up to the SC.
BinaryLL(t) ==
  /\ pc[t] = "ll"
  /\ inst[t].op # "cmpswap"
  /\ LL(t, inst[t].word)
  /\ oldval' = [oldval EXCEPT ![t] = mem[inst[t].word]]
  /\ pc' = [pc EXCEPT ![t] = "sc"]
  /\ UNCHANGED <<mem, inst, dest, disturb>>

\* Mutant: a BEQ leaves the loop, on a match.
CmpSwapLLInverted(t) ==
  /\ pc[t] = "ll"
  /\ inst[t].op = "cmpswap"
  /\ LL(t, inst[t].word)
  /\ IF ~CmpSwapMatches(inst[t], mem[inst[t].word])
       THEN /\ pc' = [pc EXCEPT ![t] = "sc"]
            /\ oldval' = [oldval EXCEPT ![t] = mem[inst[t].word]]
            /\ UNCHANGED dest
       ELSE Exit(t, mem[inst[t].word])
  /\ UNCHANGED <<mem, inst, disturb>>

\* loop1MBB: the LL, and the BNE that leaves the loop on a mismatch.
CmpSwapLL(t) ==
  /\ pc[t] = "ll"
  /\ inst[t].op = "cmpswap"
  /\ LL(t, inst[t].word)
  /\ IF CmpSwapMatches(inst[t], mem[inst[t].word])
       THEN /\ pc' = [pc EXCEPT ![t] = "sc"]
            /\ oldval' = [oldval EXCEPT ![t] = mem[inst[t].word]]
            /\ UNCHANGED dest
       ELSE Exit(t, mem[inst[t].word])
  /\ UNCHANGED <<mem, inst, disturb>>

\* The SC, and the BEQ back to the LL when it did not store: the end of
\* loopMBB, and loop2MBB.
ScSucceeds(t) ==
  /\ pc[t] = "sc"
  /\ SCStores(t, inst[t].word)
  /\ Store(inst[t].word, StoreVal(inst[t], oldval[t]))
  /\ Exit(t, oldval[t])
  /\ UNCHANGED <<inst, disturb>>

\* Mutant: the BEQ goes back to the SC, not to the LL.
ScFailsRetriesSC(t) ==
  /\ pc[t] = "sc"
  /\ ~SCStores(t, inst[t].word)
  /\ link' = [link EXCEPT ![t] = NoAddr]
  /\ UNCHANGED <<mem, pc, inst, oldval, dest, disturb>>

\* Mutant: the BEQ back to the LL is missing.
ScFailsGivesUp(t) ==
  /\ pc[t] = "sc"
  /\ ~SCStores(t, inst[t].word)
  /\ link' = [link EXCEPT ![t] = NoAddr]
  /\ Exit(t, oldval[t])
  /\ UNCHANGED <<mem, inst, disturb>>

ScFails(t) ==
  /\ pc[t] = "sc"
  /\ ~SCStores(t, inst[t].word)
  /\ pc' = [pc EXCEPT ![t] = "ll"]
  /\ link' = [link EXCEPT ![t] = NoAddr]
  /\ oldval' = [oldval EXCEPT ![t] = Zero]      \* the LL loads it anew
  /\ UNCHANGED <<mem, inst, dest, disturb>>

\* An interrupt or a context switch takes the reservation away.
Interrupt(t) ==
  /\ disturb > 0
  /\ link[t] # NoAddr
  /\ link' = [link EXCEPT ![t] = NoAddr]
  /\ disturb' = disturb - 1
  /\ UNCHANGED <<mem, pc, inst, oldval, dest>>

\* The words a plain byte store (sb) of all zeros or all ones can leave.
ByteStores(w) ==
  UNION {{w \ SHL(LowBits(ByteBits), ByteBits * k),
          w \cup SHL(LowBits(ByteBits), ByteBits * k)} : k \in 0 .. 3}

\* Code that is not atomic stores a byte.
PlainStore(a) ==
  /\ disturb > 0
  /\ \E w \in ByteStores(mem[a]) : Store(a, w)
  /\ disturb' = disturb - 1
  /\ UNCHANGED <<pc, inst, oldval, dest>>

Step(t) == BinaryLL(t) \/ CmpSwapLL(t) \/ ScSucceeds(t) \/ ScFails(t)

Next ==
  \/ \E t \in Threads : Step(t) \/ Interrupt(t)
  \/ \E t \in Threads, i \in Insts : Issue(t, i)
  \/ \E a \in Addrs : PlainStore(a)

Spec == Init /\ [][Next]_vars

(***************************************************************************)
(* Every thread keeps executing its instructions.                          *)
(***************************************************************************)
FairSpec == Spec /\ \A t \in Threads : WF_vars(Step(t))

-----------------------------------------------------------------------------
(***************************************************************************)
(* What the instructions mean.  Byte k of a word is memory byte k; the     *)
(* bytes lsb .. lsb + size - 1 are the field of an instruction, and no     *)
(* other byte is its business.                                             *)
(***************************************************************************)
FieldBits(i) == ByteBits * i.size
FieldBase(i) == ByteBits * (IF IsLittle THEN i.lsb ELSE 4 - i.size - i.lsb)

Low(i, w)      == {b \in Bits : b < FieldBits(i) /\ b \in w}
Field(i, w)    == {b \in Bits : b < FieldBits(i) /\ b + FieldBase(i) \in w}
Put(i, w, val) == {b \in Bits : IF b - FieldBase(i) \in 0 .. FieldBits(i) - 1
                                  THEN b - FieldBase(i) \in val
                                  ELSE b \in w}

IntendedOp(i, val) ==
  CASE i.op = "nand" -> NOT(AND(val, i.arg))
    [] i.op = "swap" -> i.arg
    [] OTHER         -> BinOpcode(i.op, val, i.arg)

IntendedUpdate(i, w) ==
  IF i.op = "cmpswap"
    THEN IF Field(i, w) = Low(i, i.cmp) THEN Put(i, w, i.arg) ELSE w
    ELSE Put(i, w, IntendedOp(i, Field(i, w)))

\* The old contents of the field, with its sign bit above it.
IntendedResult(i, w) ==
  {b \in Bits : IF b < FieldBits(i) THEN b \in Field(i, w)
                                    ELSE FieldBits(i) - 1 \in Field(i, w)}

\* The word a partword loop leaves: a cmpxchg compares the field as intended,
\* and what is stored is StoreVal.
CodedUpdate(i, w) ==
  IF i.op = "cmpswap" /\ Field(i, w) # Low(i, i.cmp) THEN w ELSE StoreVal(i, w)

InFlight   == {t \in Threads : pc[t] # "idle"}
WordOf(i)  == i.word

Intended == INSTANCE AtomicRMW WITH
  Words <- Word, busy <- InFlight, AddrOf <- WordOf,
  Result <- IntendedResult, Updated <- IntendedUpdate,
  PlainStores <- ByteStores

Coded == INSTANCE AtomicRMW WITH
  Words <- Word, busy <- InFlight, AddrOf <- WordOf,
  Result <- IntendedResult, Updated <- CodedUpdate,
  PlainStores <- ByteStores

-----------------------------------------------------------------------------
(***************************************************************************)
(* A step that completes an instruction leaves the bytes outside its field *)
(* as they are: an i8 instruction of the tests is one on its byte only.    *)
(* The partword loops violate it: mask2 and mask3 are xors with $0, that   *)
(* is, copies of mask.                                                     *)
(***************************************************************************)
NeighboursKept ==
  [][\A t \in Threads :
       pc[t] = "sc" /\ pc'[t] = "idle"
         => LET i == inst[t]
            IN  \A b \in Bits :
                  b - FieldBase(i) \notin 0 .. FieldBits(i) - 1
                    => (b \in mem'[i.word] <=> b \in mem[i.word])]_vars

(***************************************************************************)
(* Every atomic instruction takes effect at one instant and does to its    *)
(* field, and to nothing else, what the operation means; it returns the    *)
(* field as it was.  Holds of the 32-bit add, sub, and, or, xor, swap and  *)
(* cmpxchg loops of emitAtomicBinary and emitAtomicCmpSwap.                *)
(***************************************************************************)
RefinesRMW == Intended!Spec

(***************************************************************************)
(* The partword loops of emitAtomicBinaryPartword and                      *)
(* emitAtomicCmpSwapPartword take effect at one instant, decide a cmpxchg  *)
(* on the addressed field alone and return that field sign-extended, at    *)
(* either byte order; the word they leave is the one their code computes.  *)
(***************************************************************************)
PartwordAtomicAsCoded == Coded!Spec

(***************************************************************************)
(* While a thread in front of its SC holds the reservation of its word,    *)
(* the word is as its LL loaded it; and a cmpxchg that got there found     *)
(* what it expected.  StoreVal, computed from the loaded word, is then     *)
(* right for the word that the SC replaces.                                *)
(***************************************************************************)
Reservation ==
  \A t \in Threads :
    pc[t] = "sc"
      => /\ link[t] = inst[t].word => oldval[t] = mem[inst[t].word]
         /\ inst[t].op = "cmpswap" => CmpSwapMatches(inst[t], oldval[t])

(***************************************************************************)
(* A thread leaves the loop past its SC only if the word still holds what  *)
(* its LL read: no store of another thread between the two is overwritten. *)
(***************************************************************************)
NoLostUpdate ==
  [][\A t \in Threads : pc[t] = "sc" /\ pc'[t] = "idle"
                          => oldval[t] = mem[inst[t].word]]_vars

(***************************************************************************)
(* The loops are lock-free: when every thread is inside one, some thread   *)
(* gets out, whatever the interleaving of their LLs and SCs.               *)
(***************************************************************************)
LockFree ==
  (\A t \in Threads : pc[t] # "idle") ~> (\E t \in Threads : pc[t] = "idle")
=============================================================================
