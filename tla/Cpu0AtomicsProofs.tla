-------------------------- MODULE Cpu0AtomicsProofs --------------------------
(***************************************************************************)
(* Proofs about Cpu0Atomics for any number of threads, words, instructions *)
(* and bits of a byte: its invariants, and that it implements AtomicRMW.   *)
(***************************************************************************)
EXTENDS Cpu0Atomics, TLAPS

-----------------------------------------------------------------------------
(***************************************************************************)
(* Register instructions yield words.                                      *)
(***************************************************************************)
LEMMA AddCWord == \A a, b, c : AddC(a, b, c) \in Word
  BY DEF AddC, Word

LEMMA BinOpcodeWord ==
  ASSUME NEW op \in BinaryOps \ {"nand", "swap"}, NEW a \in Word, NEW b \in Word
  PROVE  BinOpcode(op, a, b) \in Word
<1>1. ADDu(a, b) \in Word /\ SUBu(a, b) \in Word
  BY AddCWord DEF ADDu, SUBu
<1>2. AND(a, b) \in Word /\ OR(a, b) \in Word /\ XOR(a, b) \in Word
  BY DEF AND, OR, XOR, Word
<1>. QED
  BY <1>1, <1>2 DEF BinOpcode, BinaryOps

\* The helpers that build masks and shifted values.
LEMMA ShiftWord ==
  ASSUME NEW a, NEW n
  PROVE  SHL(a, n) \in Word /\ SHR(a, n) \in Word /\ SRA(a, n) \in Word
BY DEF SHL, SHR, SRA, Word

LEMMA LogicWord ==
  ASSUME NEW a, NEW b \in Word
  PROVE  /\ AND(a, b) \in Word /\ AND(b, a) \in Word
         /\ a \in Word => OR(a, b) \in Word /\ XOR(a, b) \in Word
BY DEF AND, OR, XOR, Word

LEMMA ZeroWord == Zero \in Word
BY DEF Zero, Word

(***************************************************************************)
(* What an instruction stores and returns is a word.                       *)
(***************************************************************************)
LEMMA StoreValWord ==
  ASSUME NEW i \in InstType, NEW old \in Word
  PROVE  StoreVal(i, old) \in Word
<1>1. i.arg \in Word /\ i.op \in BinaryOps \cup {"cmpswap"}
  BY DEF InstType
<1>2. Mask(i) \in Word /\ Mask2(i) \in Word /\ Mask3(i) \in Word
  <2>1. Mask(i) \in Word
    BY ShiftWord DEF Mask
  <2>2. Mask2(i) \in Word
    BY <2>1, ZeroWord, LogicWord DEF Mask2
  <2>. QED
    BY <2>1, <2>2, ZeroWord, LogicWord DEF Mask3
<1>3. CASE i.op = "cmpswap"
  <2>1. OR(AND(old, Mask3(i)), SHL(AND(i.arg, MaskImm(i)), ShiftAmt(i))) \in Word
    BY <1>2, ShiftWord, LogicWord
  <2>. QED
    BY <1>1, <1>3, <2>1 DEF StoreVal, CmpSwapStoreVal
<1>4. CASE i.op # "cmpswap" /\ i.size = 4
  <2>1. CASE i.op = "nand"
    BY <1>1, <1>4, <2>1, ZeroWord, LogicWord DEF StoreVal, BinaryStoreVal
  <2>2. CASE i.op = "swap"
    BY <1>1, <1>4, <2>2 DEF StoreVal, BinaryStoreVal
  <2>3. CASE i.op \in BinaryOps \ {"nand", "swap"}
    <3>1. BinaryStoreVal(i, old) = BinOpcode(i.op, old, i.arg)
      BY <2>3 DEF BinaryStoreVal
    <3>. QED
      BY <1>1, <1>4, <2>3, <3>1, BinOpcodeWord DEF StoreVal
  <2>. QED
    BY <1>1, <1>4, <2>1, <2>2, <2>3
<1>5. CASE i.op # "cmpswap" /\ i.size # 4
  <2>1. \A x : AND(x, Mask(i)) \in Word
    BY <1>2, LogicWord
  <2>2. \A x : OR(AND(old, Mask2(i)), AND(x, Mask(i))) \in Word
    BY <1>2, <2>1, LogicWord
  <2>3. PartwordStoreVal(i, old) \in Word
    BY <2>2 DEF PartwordStoreVal
  <2>. QED
    BY <1>5, <2>3 DEF StoreVal
<1>. QED
  BY <1>3, <1>4, <1>5

LEMMA DestValWord ==
  ASSUME NEW i, NEW old \in Word
  PROVE  DestVal(i, old) \in Word
BY ShiftWord DEF DestVal, SignExtended

LEMMA ByteStoresWord ==
  ASSUME NEW w \in Word, NEW v \in ByteStores(w)
  PROVE  v \in Word
<1>1. \A n : SHL(LowBits(ByteBits), n) \in Word
  BY ShiftWord
<1>. QED
  BY <1>1 DEF ByteStores, Word

-----------------------------------------------------------------------------
(***************************************************************************)
(* Type correctness, of every thread, word, instruction and step.          *)
(***************************************************************************)
LEMMA InitTypeOK == Init => TypeOK
BY AtomicsAssumption, ZeroWord DEF Init, TypeOK

LEMMA NextTypeOK == TypeOK /\ [Next]_vars => TypeOK'
<1>. SUFFICES ASSUME TypeOK, [Next]_vars PROVE TypeOK'
  OBVIOUS
<1>. USE DEF TypeOK
<1>w. \A t \in Threads : inst[t] \in InstType /\ inst[t].word \in Addrs
                         /\ mem[inst[t].word] \in Word
  BY AtomicsAssumption DEF InstType
<1>1. ASSUME NEW t \in Threads, BinaryLL(t) PROVE TypeOK'
  BY <1>1, <1>w DEF BinaryLL, LL
<1>2. ASSUME NEW t \in Threads, CmpSwapLL(t) PROVE TypeOK'
  <2>1. DestVal(inst[t], mem[inst[t].word]) \in Word
    BY <1>w, DestValWord
  <2>. QED
    BY <1>2, <1>w, <2>1, ZeroWord DEF CmpSwapLL, LL, Exit
<1>3. ASSUME NEW t \in Threads, ScSucceeds(t) PROVE TypeOK'
  <2>1. StoreVal(inst[t], oldval[t]) \in Word
    BY <1>w, StoreValWord
  <2>2. DestVal(inst[t], oldval[t]) \in Word
    BY DestValWord
  <2>. QED
    BY <1>3, <1>w, <2>1, <2>2, ZeroWord DEF ScSucceeds, Store, Exit
<1>4. ASSUME NEW t \in Threads, ScFails(t) PROVE TypeOK'
  BY <1>4, ZeroWord DEF ScFails
<1>5. ASSUME NEW t \in Threads, Interrupt(t) PROVE TypeOK'
  BY <1>5, AtomicsAssumption DEF Interrupt
<1>6. ASSUME NEW t \in Threads, NEW i \in Insts, Issue(t, i) PROVE TypeOK'
  BY <1>6 DEF Issue
<1>7. ASSUME NEW a \in Addrs, PlainStore(a) PROVE TypeOK'
  <2>1. PICK w \in ByteStores(mem[a]) : Store(a, w)
    BY <1>7 DEF PlainStore
  <2>2. w \in Word
    BY <2>1, ByteStoresWord
  <2>. QED
    BY <1>7, <2>1, <2>2, AtomicsAssumption DEF PlainStore, Store
<1>8. CASE UNCHANGED vars
  BY <1>8 DEF vars
<1>. QED
  BY <1>1, <1>2, <1>3, <1>4, <1>5, <1>6, <1>7, <1>8 DEF Next, Step

THEOREM TypeCorrect == Spec => []TypeOK
BY InitTypeOK, NextTypeOK, PTL DEF Spec

-----------------------------------------------------------------------------
(***************************************************************************)
(* The reservation invariant, and what it is needed for: no update is      *)
(* lost.  A store to a word takes every reservation on the word, so the    *)
(* invariant survives the steps of the other threads.                      *)
(***************************************************************************)
LEMMA NextReservation == TypeOK /\ Reservation /\ [Next]_vars => Reservation'
<1>. DEFINE Holds(u) ==
       pc[u] = "sc"
         => /\ link[u] = inst[u].word => oldval[u] = mem[inst[u].word]
            /\ inst[u].op = "cmpswap" => CmpSwapMatches(inst[u], oldval[u])
<1>. SUFFICES ASSUME TypeOK, Reservation, [Next]_vars, NEW u \in Threads
              PROVE  Holds(u)'
  BY DEF Reservation
<1>u. Holds(u)
  BY DEF Reservation
<1>w. \A t \in Threads : inst[t] \in InstType /\ inst[t].word \in Addrs
  BY AtomicsAssumption DEF InstType, TypeOK
<1>n. NoAddr \notin Addrs
  BY AtomicsAssumption
<1>. USE DEF TypeOK
<1>1. ASSUME NEW t \in Threads, BinaryLL(t) PROVE Holds(u)'
  BY <1>1, <1>u DEF BinaryLL, LL
<1>2. ASSUME NEW t \in Threads, CmpSwapLL(t) PROVE Holds(u)'
  <2>1. CASE CmpSwapMatches(inst[t], mem[inst[t].word])
    BY <1>2, <2>1, <1>u DEF CmpSwapLL, LL
  <2>2. CASE ~CmpSwapMatches(inst[t], mem[inst[t].word])
    BY <1>2, <2>2, <1>u DEF CmpSwapLL, LL, Exit
  <2>. QED
    BY <2>1, <2>2
<1>3. ASSUME NEW t \in Threads, ScSucceeds(t) PROVE Holds(u)'
  BY <1>3, <1>u, <1>w, <1>n DEF ScSucceeds, Store, Exit
<1>4. ASSUME NEW t \in Threads, ScFails(t) PROVE Holds(u)'
  BY <1>4, <1>u DEF ScFails
<1>5. ASSUME NEW t \in Threads, Interrupt(t) PROVE Holds(u)'
  BY <1>5, <1>u, <1>w, <1>n DEF Interrupt
<1>6. ASSUME NEW t \in Threads, NEW i \in Insts, Issue(t, i) PROVE Holds(u)'
  BY <1>6, <1>u DEF Issue
<1>7. ASSUME NEW a \in Addrs, PlainStore(a) PROVE Holds(u)'
  BY <1>7, <1>u, <1>w, <1>n DEF PlainStore, Store
<1>8. CASE UNCHANGED vars
  BY <1>8, <1>u DEF vars
<1>. QED
  BY <1>1, <1>2, <1>3, <1>4, <1>5, <1>6, <1>7, <1>8 DEF Next, Step

\* The word in front of a reserved SC is the loaded one, for any number of
\* threads and any interleaving of their loops.
THEOREM ReservationInvariant == Spec => []Reservation
<1>1. Init => Reservation
  BY DEF Init, Reservation
<1>. QED
  BY <1>1, TypeCorrect, NextReservation, PTL DEF Spec

\* The loops never overwrite a store made between their LL and their SC.
THEOREM UpdatesKept == Spec => NoLostUpdate
<1>1. TypeOK /\ Reservation /\ [Next]_vars
        => [\A t \in Threads : pc[t] = "sc" /\ pc'[t] = "idle"
                                 => oldval[t] = mem[inst[t].word]]_vars
  <2>. SUFFICES ASSUME TypeOK, Reservation, Next, NEW t \in Threads,
                       pc[t] = "sc", pc'[t] = "idle"
                PROVE  oldval[t] = mem[inst[t].word]
    OBVIOUS
  <2>1. ASSUME NEW s \in Threads, ScSucceeds(s) PROVE s = t
    BY <2>1 DEF ScSucceeds, Exit, TypeOK
  <2>2. ASSUME NEW s \in Threads, BinaryLL(s) \/ CmpSwapLL(s) \/ ScFails(s)
        PROVE  FALSE
    BY <2>2 DEF BinaryLL, CmpSwapLL, ScFails, Exit, TypeOK
  <2>3. ASSUME NEW s \in Threads, NEW i \in Insts, Issue(s, i) PROVE FALSE
    BY <2>3 DEF Issue, TypeOK
  <2>4. ASSUME NEW s \in Threads, Interrupt(s) PROVE FALSE
    BY <2>4 DEF Interrupt
  <2>5. ASSUME NEW a \in Addrs, PlainStore(a) PROVE FALSE
    BY <2>5 DEF PlainStore
  <2>6. ScSucceeds(t)
    BY <2>1, <2>2, <2>3, <2>4, <2>5 DEF Next, Step
  <2>. QED
    BY <2>6 DEF ScSucceeds, SCStores, Reservation
<1>. QED
  BY <1>1, TypeCorrect, ReservationInvariant, PTL DEF Spec, NoLostUpdate

-----------------------------------------------------------------------------
(***************************************************************************)
(* The LL/SC loops implement an atomic read-modify-write: the partword     *)
(* loops the one their code computes, and the 32-bit loops, nand left      *)
(* aside, the one that their instructions mean.                            *)
(***************************************************************************)

\* An instruction of the program: its field does not cross its word.
Aligned(i) == i \in InstType /\ i.lsb % i.size = 0

LEMMA InstsAligned == \A i \in Insts : Aligned(i)
BY AtomicsAssumption DEF Aligned

-----------------------------------------------------------------------------
(***************************************************************************)
(* Where the code puts a field is where the field is.                      *)
(***************************************************************************)
LEMMA FieldPlace ==
  ASSUME NEW i, Aligned(i)
  PROVE  /\ FieldBase(i) \in Nat /\ FieldBits(i) \in Nat \ {0}
         /\ FieldBase(i) + FieldBits(i) <= WordBits
         /\ i.size = 4 => FieldBase(i) = 0 /\ FieldBits(i) = WordBits
         /\ i.size # 4 => ShiftAmt(i) = FieldBase(i)
<1>1. ByteBits \in Nat \ {0} /\ IsLittle \in BOOLEAN
  BY ByteBitsAssumption, AtomicsAssumption
<1>2. \/ i.size = 1 /\ i.lsb \in 0 .. 3
      \/ i.size = 2 /\ i.lsb \in {0, 2}
      \/ i.size = 4 /\ i.lsb = 0
  BY DEF Aligned, InstType
<1>3. CASE i.size = 4 /\ i.lsb = 0
  BY <1>1, <1>3 DEF FieldBase, FieldBits, WordBits
<1>4. CASE i.size = 2 /\ i.lsb \in {0, 2}
  <2>1. FieldBits(i) = 2 * ByteBits /\ FieldBase(i) \in {0, 2 * ByteBits}
    BY <1>1, <1>4 DEF FieldBase, FieldBits
  <2>2. ShiftAmt(i) = FieldBase(i)
    BY <1>1, <1>4 DEF FieldBase, ShiftAmt
  <2>. QED
    BY <1>1, <1>4, <2>1, <2>2 DEF WordBits
<1>5. CASE i.size = 1 /\ i.lsb \in 0 .. 3
  <2>1. /\ FieldBits(i) = ByteBits
        /\ FieldBase(i) \in {0, ByteBits, 2 * ByteBits, 3 * ByteBits}
    <3>1. i.lsb \in {0, 1, 2, 3}
      BY <1>5
    <3>. QED
      BY <1>1, <1>5, <3>1 DEF FieldBase, FieldBits
  <2>2. ShiftAmt(i) = FieldBase(i)
    BY <1>1, <1>5 DEF FieldBase, ShiftAmt
  <2>. QED
    BY <1>1, <1>5, <2>1, <2>2 DEF WordBits
<1>. QED
  BY <1>2, <1>3, <1>4, <1>5

LEMMA WordBitsNat == WordBits \in Nat \ {0}
BY ByteBitsAssumption DEF WordBits

LEMMA MaskIsField ==
  ASSUME NEW i, Aligned(i), i.size # 4
  PROVE  \A b : b \in Mask(i) <=> b \in FieldBase(i) .. FieldBase(i) + FieldBits(i) - 1
<1>1. /\ FieldBase(i) \in Nat /\ FieldBits(i) \in Nat \ {0}
      /\ FieldBase(i) + FieldBits(i) <= WordBits /\ ShiftAmt(i) = FieldBase(i)
  BY FieldPlace
<1>2. ByteBits * i.size = FieldBits(i)
  BY DEF FieldBits
<1>. QED
  BY <1>1, <1>2, WordBitsNat DEF Mask, MaskImm, LowBits, SHL, Bits

(***************************************************************************)
(* Shifting up and down again reads a value of n bits with its sign.       *)
(***************************************************************************)
LEMMA SignExtension ==
  ASSUME NEW x \in Word, NEW n \in 1 .. WordBits
  PROVE  SignExtended(x, n)
           = {b \in Bits : IF b < n THEN b \in x ELSE n - 1 \in x}
<1>1. \A b \in Bits : b + (WordBits - n) \in SHL(x, WordBits - n)
                        <=> b < n /\ b \in x
  BY WordBitsNat DEF SHL, Bits, Word
<1>2. WordBits - 1 \in SHL(x, WordBits - n) <=> n - 1 \in x
  BY WordBitsNat DEF SHL, Bits, Word
<1>3. \A b \in Bits : b + (WordBits - n) \in Bits <=> b < n
  BY WordBitsNat DEF Bits
<1>. QED
  BY <1>1, <1>2, <1>3 DEF SignExtended, SRA

(***************************************************************************)
(* The result register gets the field, sign-extended.                      *)
(***************************************************************************)
LEMMA DestValIsField ==
  ASSUME NEW i, Aligned(i), NEW w \in Word
  PROVE  DestVal(i, w) = IntendedResult(i, w)
<1>1. /\ FieldBase(i) \in Nat /\ FieldBits(i) \in Nat \ {0}
      /\ FieldBase(i) + FieldBits(i) <= WordBits
  BY FieldPlace
<1>2. CASE i.size = 4
  <2>1. FieldBase(i) = 0 /\ FieldBits(i) = WordBits
    BY <1>2, FieldPlace
  <2>2. \A b \in Bits : b < WordBits /\ (b \in Field(i, w) <=> b \in w)
    BY <2>1, WordBitsNat DEF Field, Bits
  <2>3. IntendedResult(i, w) = {b \in Bits : b \in w}
    BY <2>1, <2>2 DEF IntendedResult
  <2>. QED
    BY <1>2, <2>3 DEF DestVal, Word
<1>3. CASE i.size # 4
  <2>1. ShiftAmt(i) = FieldBase(i)
    BY <1>3, FieldPlace
  <2>2. SHR(AND(w, Mask(i)), ShiftAmt(i)) = Field(i, w)
    <3>1. \A b \in Bits : b + FieldBase(i) \in Mask(i) <=> b < FieldBits(i)
      BY <1>1, <1>3, MaskIsField, WordBitsNat DEF Bits
    <3>. QED
      BY <2>1, <3>1 DEF SHR, AND, Field
  <2>3. Field(i, w) \in Word /\ FieldBits(i) \in 1 .. WordBits
    BY <1>1, WordBitsNat DEF Field, Word
  <2>4. ByteBits * i.size = FieldBits(i)
    BY DEF FieldBits
  <2>5. SignExtended(Field(i, w), FieldBits(i)) = IntendedResult(i, w)
    BY <2>3, SignExtension DEF IntendedResult
  <2>. QED
    BY <1>3, <2>2, <2>4, <2>5 DEF DestVal
<1>. QED
  BY <1>2, <1>3

(***************************************************************************)
(* A cmpxchg compares the field, whatever the rest of the word holds.      *)
(***************************************************************************)
LEMMA CmpSwapMatchesField ==
  ASSUME NEW i, Aligned(i), NEW w \in Word
  PROVE  CmpSwapMatches(i, w) <=> Field(i, w) = Low(i, i.cmp)
<1>0. i.cmp \in Word
  BY DEF Aligned, InstType
<1>1. /\ FieldBase(i) \in Nat /\ FieldBits(i) \in Nat \ {0}
      /\ FieldBase(i) + FieldBits(i) <= WordBits
  BY FieldPlace
<1>2. CASE i.size = 4
  <2>1. FieldBase(i) = 0 /\ FieldBits(i) = WordBits
    BY <1>2, FieldPlace
  <2>2. Field(i, w) = w
    <3>1. \A b \in Bits : b < WordBits /\ b + 0 = b
      BY WordBitsNat DEF Bits
    <3>. QED
      BY <2>1, <3>1 DEF Field, Word
  <2>3. Low(i, i.cmp) = i.cmp
    BY <1>0, <2>1, WordBitsNat DEF Low, Bits, Word
  <2>. QED
    BY <1>2, <2>2, <2>3 DEF CmpSwapMatches
<1>3. CASE i.size # 4
  <2>. DEFINE base == FieldBase(i)
              n    == FieldBits(i)
              sh   == SHL(AND(i.cmp, MaskImm(i)), base)
  <2>1. ShiftAmt(i) = base
    BY <1>3, FieldPlace
  <2>2. \A b \in Bits : b \in AND(w, Mask(i)) <=> b \in w /\ b \in base .. base + n - 1
    BY <1>3, MaskIsField DEF AND
  <2>3. \A b \in Bits : b \in sh <=> b - base \in i.cmp /\ b \in base .. base + n - 1
    <3>1. ByteBits * i.size = n
      BY DEF FieldBits
    <3>. QED
      BY <1>0, <1>1, <3>1, WordBitsNat DEF SHL, AND, MaskImm, LowBits, Bits, Word
  <2>4. AND(w, Mask(i)) \subseteq Bits /\ sh \subseteq Bits
    BY DEF AND, SHL, Word
  <2>5. AND(w, Mask(i)) = sh
          <=> \A b \in base .. base + n - 1 : b \in w <=> b - base \in i.cmp
    <3>1. base .. base + n - 1 \subseteq Bits
      BY <1>1, WordBitsNat DEF Bits
    <3>. HIDE DEF base, n, sh
    <3>. QED
      BY <2>2, <2>3, <2>4, <3>1
  <2>6. Field(i, w) = Low(i, i.cmp)
          <=> \A c \in 0 .. n - 1 : c + base \in w <=> c \in i.cmp
    <3>1. \A c \in 0 .. n - 1 : c \in Bits /\ c < n
      BY <1>1, WordBitsNat DEF Bits
    <3>2. \A c \in Bits : c < n => c \in 0 .. n - 1
      BY <1>1, WordBitsNat DEF Bits
    <3>. QED
      BY <3>1, <3>2 DEF Field, Low
  <2>7. (\A b \in base .. base + n - 1 : b \in w <=> b - base \in i.cmp)
          <=> (\A c \in 0 .. n - 1 : c + base \in w <=> c \in i.cmp)
    <3>1. \A b \in base .. base + n - 1 : b - base \in 0 .. n - 1 /\ (b - base) + base = b
      BY <1>1
    <3>2. \A c \in 0 .. n - 1 : c + base \in base .. base + n - 1 /\ (c + base) - base = c
      BY <1>1
    <3>. HIDE DEF base, n
    <3>. QED
      BY <3>1, <3>2
  <2>. QED
    BY <1>3, <2>1, <2>5, <2>6, <2>7 DEF CmpSwapMatches
<1>. QED
  BY <1>2, <1>3

-----------------------------------------------------------------------------
(***************************************************************************)
(* Steps of the loops.  A thread's instruction is in flight from its issue *)
(* to the step that leaves the loop.                                       *)
(***************************************************************************)
LEMMA LeavesFlight ==
  ASSUME TypeOK, NEW t \in Threads, pc[t] # "idle",
         pc' = [pc EXCEPT ![t] = "idle"]
  PROVE  t \in InFlight /\ InFlight' = InFlight \ {t}
BY DEF TypeOK, InFlight

LEMMA StaysInFlight ==
  ASSUME TypeOK, NEW t \in Threads, NEW c \in {"ll", "sc"}, pc[t] # "idle",
         pc' = [pc EXCEPT ![t] = c]
  PROVE  InFlight' = InFlight
BY DEF TypeOK, InFlight

\* Leaving the loop is the instant at which the instruction takes effect.
LEMMA PerformStep ==
  ASSUME TypeOK, Reservation, NEW t \in Threads,
         ScSucceeds(t) \/ (CmpSwapLL(t) /\ pc'[t] = "idle")
  PROVE  /\ t \in InFlight /\ InFlight' = InFlight \ {t}
         /\ mem' = [mem EXCEPT ![inst[t].word] = CodedUpdate(inst[t], @)]
         /\ dest' = [dest EXCEPT ![t] = IntendedResult(inst[t], mem[inst[t].word])]
         /\ inst' = inst
<1>. DEFINE i == inst[t]
            w == mem[i.word]
<1>1. Aligned(i) /\ i.word \in Addrs /\ w \in Word
  BY InstsAligned DEF TypeOK, Aligned, InstType
<1>2. DestVal(i, w) = IntendedResult(i, w)
  BY <1>1, DestValIsField
<1>3. CmpSwapMatches(i, w) <=> Field(i, w) = Low(i, i.cmp)
  BY <1>1, CmpSwapMatchesField
<1>4. CASE ScSucceeds(t)
  <2>1. oldval[t] = w /\ (i.op = "cmpswap" => CmpSwapMatches(i, w))
    BY <1>4 DEF ScSucceeds, SCStores, Reservation
  <2>2. CodedUpdate(i, w) = StoreVal(i, w)
    BY <2>1, <1>3 DEF CodedUpdate
  <2>. QED
    BY <1>2, <1>4, <2>1, <2>2, LeavesFlight DEF ScSucceeds, Store, Exit
<1>5. CASE CmpSwapLL(t) /\ pc'[t] = "idle"
  <2>1. ~CmpSwapMatches(i, w)
    BY <1>5 DEF CmpSwapLL, TypeOK
  <2>2. CodedUpdate(i, w) = w
    BY <1>3, <1>5, <2>1 DEF CodedUpdate, CmpSwapLL
  <2>3. mem = [mem EXCEPT ![i.word] = CodedUpdate(i, w)]
    BY <1>1, <2>2 DEF TypeOK
  <2>4. Exit(t, w) /\ pc[t] # "idle" /\ UNCHANGED <<mem, inst>>
    BY <1>5, <2>1 DEF CmpSwapLL
  <2>. QED
    BY <1>2, <2>3, <2>4, LeavesFlight DEF Exit
<1>. QED
  BY <1>4, <1>5

\* No other step of a loop shows.
LEMMA HiddenStep ==
  ASSUME TypeOK, NEW t \in Threads,
         \/ BinaryLL(t) \/ ScFails(t) \/ Interrupt(t)
         \/ CmpSwapLL(t) /\ pc'[t] # "idle"
  PROVE  UNCHANGED <<mem, InFlight, inst, dest>>
<1>1. CASE BinaryLL(t)
  BY <1>1, StaysInFlight DEF BinaryLL
<1>2. CASE ScFails(t)
  BY <1>2, StaysInFlight DEF ScFails
<1>3. CASE Interrupt(t)
  BY <1>3 DEF Interrupt, InFlight
<1>4. CASE CmpSwapLL(t) /\ pc'[t] # "idle"
  <2>1. CmpSwapMatches(inst[t], mem[inst[t].word])
    BY <1>4 DEF CmpSwapLL, Exit, TypeOK
  <2>. QED
    BY <1>4, <2>1, StaysInFlight DEF CmpSwapLL
<1>. QED
  BY <1>1, <1>2, <1>3, <1>4

LEMMA IssueStep ==
  ASSUME TypeOK, NEW t \in Threads, NEW i \in Insts, Issue(t, i)
  PROVE  t \notin InFlight /\ InFlight' = InFlight \cup {t}
BY DEF Issue, InFlight, TypeOK

LEMMA PlainStoreStep ==
  ASSUME NEW a \in Addrs, PlainStore(a)
  PROVE  /\ \E w \in ByteStores(mem[a]) : mem' = [mem EXCEPT ![a] = w]
         /\ UNCHANGED <<InFlight, inst, dest>>
BY DEF PlainStore, Store, InFlight

-----------------------------------------------------------------------------
(***************************************************************************)
(* At every size and byte order the loops are atomic, decide on the field  *)
(* and return it; the word they leave is what the code computes.           *)
(***************************************************************************)
THEOREM AtomicAsCoded == Spec => PartwordAtomicAsCoded
<1>1. Init => Coded!Init
  BY AtomicsAssumption DEF Init, Coded!Init, InFlight
<1>2. TypeOK /\ Reservation /\ [Next]_vars => [Coded!Next]_(Coded!vars)
  <2>. SUFFICES ASSUME TypeOK, Reservation, [Next]_vars
                PROVE  Coded!Next \/ UNCHANGED Coded!vars
    OBVIOUS
  <2>1. ASSUME NEW t \in Threads,
               ScSucceeds(t) \/ (CmpSwapLL(t) /\ pc'[t] = "idle")
        PROVE  Coded!Next
    <3>1. Coded!Perform(t)
      BY <2>1, PerformStep DEF Coded!Perform, WordOf
    <3>. QED
      BY <3>1 DEF Coded!Next
  <2>2. ASSUME NEW t \in Threads,
               \/ BinaryLL(t) \/ ScFails(t) \/ Interrupt(t)
               \/ CmpSwapLL(t) /\ pc'[t] # "idle"
        PROVE  UNCHANGED Coded!vars
    BY <2>2, HiddenStep DEF Coded!vars
  <2>3. ASSUME NEW t \in Threads, NEW i \in Insts, Issue(t, i)
        PROVE  Coded!Next
    <3>1. Coded!Issue(t, i)
      BY <2>3, IssueStep DEF Coded!Issue, Issue
    <3>. QED
      BY <3>1 DEF Coded!Next
  <2>4. ASSUME NEW a \in Addrs, PlainStore(a) PROVE Coded!Next
    <3>1. Coded!PlainStore(a)
      BY <2>4, PlainStoreStep DEF Coded!PlainStore
    <3>. QED
      BY <3>1 DEF Coded!Next
  <2>5. CASE UNCHANGED vars
    BY <2>5 DEF vars, Coded!vars, InFlight
  <2>. QED
    BY <2>1, <2>2, <2>3, <2>4, <2>5 DEF Next, Step
<1>. QED
  BY <1>1, <1>2, TypeCorrect, ReservationInvariant, PTL
  DEF Spec, Coded!Spec, PartwordAtomicAsCoded

-----------------------------------------------------------------------------
(***************************************************************************)
(* On 32 bits, and for every operation but nand, the word that is stored   *)
(* is the intended one.                                                    *)
(***************************************************************************)
LEMMA WordUpdate ==
  ASSUME NEW i, Aligned(i), i.size = 4, i.op # "nand", NEW w \in Word
  PROVE  CodedUpdate(i, w) = IntendedUpdate(i, w)
<1>1. FieldBase(i) = 0 /\ FieldBits(i) = WordBits
  BY FieldPlace
<1>2. i.arg \in Word /\ i.op \in BinaryOps \cup {"cmpswap"}
  BY DEF Aligned, InstType
<1>3. \A b \in Bits : b < WordBits /\ b + 0 = b /\ b - 0 = b /\ b \in 0 .. WordBits - 1
  BY WordBitsNat DEF Bits
<1>4. Field(i, w) = w
  BY <1>1, <1>3 DEF Field, Word
<1>5. ASSUME NEW val \in Word PROVE Put(i, w, val) = val
  BY <1>1, <1>3 DEF Put, Word
<1>6. CASE i.op = "cmpswap"
  BY <1>2, <1>5, <1>6 DEF CodedUpdate, IntendedUpdate, StoreVal, CmpSwapStoreVal
<1>7. CASE i.op = "swap"
  BY <1>2, <1>5, <1>7
  DEF CodedUpdate, IntendedUpdate, StoreVal, BinaryStoreVal, IntendedOp
<1>8. CASE i.op \in BinaryOps \ {"nand", "swap"}
  <2>1. StoreVal(i, w) = BinOpcode(i.op, w, i.arg)
    BY <1>8 DEF StoreVal, BinaryStoreVal, BinaryOps
  <2>2. IntendedOp(i, Field(i, w)) = BinOpcode(i.op, w, i.arg)
    BY <1>4, <1>8 DEF IntendedOp
  <2>3. BinOpcode(i.op, w, i.arg) \in Word
    BY <1>2, <1>8, BinOpcodeWord
  <2>4. i.op # "cmpswap"
    BY <1>8 DEF BinaryOps
  <2>. QED
    BY <1>5, <2>1, <2>2, <2>3, <2>4 DEF CodedUpdate, IntendedUpdate
<1>. QED
  BY <1>2, <1>6, <1>7, <1>8

(***************************************************************************)
(* A program whose atomic instructions are 32 bits wide and not nand finds *)
(* them atomic and meaning what they say.                                  *)
(***************************************************************************)
THEOREM WordLoopsCorrect ==
  ASSUME \A i \in Insts : i.size = 4 /\ i.op # "nand"
  PROVE  Spec => RefinesRMW
<1>1. Init => Intended!Init
  BY AtomicsAssumption DEF Init, Intended!Init, InFlight
<1>2. TypeOK /\ Reservation /\ [Next]_vars => [Intended!Next]_(Intended!vars)
  <2>. SUFFICES ASSUME TypeOK, Reservation, [Next]_vars
                PROVE  Intended!Next \/ UNCHANGED Intended!vars
    OBVIOUS
  <2>1. ASSUME NEW t \in Threads,
               ScSucceeds(t) \/ (CmpSwapLL(t) /\ pc'[t] = "idle")
        PROVE  Intended!Next
    <3>1. Aligned(inst[t]) /\ mem[inst[t].word] \in Word
      BY InstsAligned DEF TypeOK, Aligned, InstType
    <3>2. CodedUpdate(inst[t], mem[inst[t].word])
            = IntendedUpdate(inst[t], mem[inst[t].word])
      BY <3>1, WordUpdate DEF TypeOK
    <3>3. Intended!Perform(t)
      BY <2>1, <3>2, PerformStep DEF Intended!Perform, WordOf
    <3>. QED
      BY <3>3 DEF Intended!Next
  <2>2. ASSUME NEW t \in Threads,
               \/ BinaryLL(t) \/ ScFails(t) \/ Interrupt(t)
               \/ CmpSwapLL(t) /\ pc'[t] # "idle"
        PROVE  UNCHANGED Intended!vars
    BY <2>2, HiddenStep DEF Intended!vars
  <2>3. ASSUME NEW t \in Threads, NEW i \in Insts, Issue(t, i)
        PROVE  Intended!Next
    <3>1. Intended!Issue(t, i)
      BY <2>3, IssueStep DEF Intended!Issue, Issue
    <3>. QED
      BY <3>1 DEF Intended!Next
  <2>4. ASSUME NEW a \in Addrs, PlainStore(a) PROVE Intended!Next
    <3>1. Intended!PlainStore(a)
      BY <2>4, PlainStoreStep DEF Intended!PlainStore
    <3>. QED
      BY <3>1 DEF Intended!Next
  <2>5. CASE UNCHANGED vars
    BY <2>5 DEF vars, Intended!vars, InFlight
  <2>. QED
    BY <2>1, <2>2, <2>3, <2>4, <2>5 DEF Next, Step
<1>. QED
  BY <1>1, <1>2, TypeCorrect, ReservationInvariant, PTL
  DEF Spec, Intended!Spec, RefinesRMW
=============================================================================
