--------------------------- MODULE Elf2HexProofs ---------------------------
(***************************************************************************)
(* Proof that the image elf2hex prints is the linked program, for every    *)
(* file the tool handles.                                                  *)
(***************************************************************************)
EXTENDS Elf2Hex, SumTheorems, SequenceTheorems, FiniteSetTheorems

(***************************************************************************)
(* The inductive invariant.                                                *)
(***************************************************************************)

Bytes == [section : Nat, offset : Int]

States == {"construct", "section", "data", "collect", "symbol", "disassemble",
           "done", "undefined"}

InText == pc \in {"symbol", "disassemble"}
AtSectionEnd == pc \in {"section", "done"}

TypeInv ==
  /\ obj \in Objects /\ out \in Seq(Bytes) /\ lastDumpAddr \in Nat
  /\ symbols \in SUBSET Nat /\ todo \in SUBSET Nat
  /\ sec \in 0..Len(obj.sections)
  /\ index \in Nat /\ end \in Int /\ size \in Nat \cup {-1}
  /\ pc \in States
  /\ pc \in {"data", "collect", "symbol", "disassemble"} =>
       sec > 0 /\ Dumped(Section) /\ (Section.text <=> pc # "data")
  /\ pc = "done" => sec = Len(obj.sections)

\* The bytes of a text section in front of this offset are printed.
Boundary == IF todo = {} THEN Section.size ELSE Min(todo)
NextByte == IF pc = "symbol" THEN Boundary ELSE index

\* lastDumpAddr is the number of bytes printed, and has not passed what is next.
PositionInv ==
  /\ Len(out) = lastDumpAddr /\ lastDumpAddr % 4 = 0
  /\ pc = "construct" => lastDumpAddr = 0 /\ sec = 0
  /\ pc # "construct" => lastDumpAddr >= FirstAddr
  /\ \A j \in DOMAIN obj.sections :
       /\ Dumped(obj.sections[j])
       /\ j > sec \/ (j = sec /\ pc \in {"data", "collect"})
       => lastDumpAddr <= obj.sections[j].addr
  /\ InText => IF NextByte = 0 THEN lastDumpAddr <= Section.addr
                               ELSE lastDumpAddr = Section.addr + NextByte

\* The symbols of the Reader are those of the text sections before, and the
\* start of the section is one of them.
SymbolsInv ==
  /\ symbols = {} \/ 0 \in symbols
  /\ \A a \in symbols :
       \/ a = 0
       \/ \E i \in 1..sec : /\ obj.sections[i].text /\ Dumped(obj.sections[i])
                            /\ a \in obj.sections[i].symbols
                            /\ a < obj.sections[i].size
  /\ InText => \A a \in todo : a % 4 = 0 /\ a < Section.size
  /\ pc = "disassemble" =>
       /\ index % 4 = 0 /\ index <= Boundary
       /\ end = IF todo = {} THEN Section.size ELSE Min(todo) - 1

\* How much of a section is behind the tool, and that its bytes are right.
Progress(i) == IF i < sec \/ (i = sec /\ AtSectionEnd)
               THEN obj.sections[i].size
               ELSE IF i = sec /\ InText THEN NextByte ELSE 0

LoadedRight(i, off) ==
  LET s == obj.sections[i]
  IN Loaded(s.addr + off) \in
       (IF s.nobits THEN {Value(0), Value(-1)} ELSE {Byte(i, off)})

ContentInv ==
  /\ pc # "construct" => \A k \in 1..BootSize : out[k] = BootSection(obj)[k]
  /\ \A i \in DOMAIN obj.sections :
       Dumped(obj.sections[i]) =>
         \A off \in 0..Progress(i) - 1 : LoadedRight(i, off)

HandledInv == PositionInv /\ SymbolsInv /\ ContentInv /\ pc # "undefined"

IInv == TypeInv /\ (FileHandled => HandledInv)

-----------------------------------------------------------------------------
(***************************************************************************)
(* Files.                                                                  *)
(***************************************************************************)

LEMMA ObjectType ==
  ASSUME NEW o \in Objects
  PROVE  /\ o.le \in BOOLEAN /\ o.isr \in Nat /\ o.main \in 0..Len(o.sections)
         /\ o.sections \in Seq(SectionType)
         /\ Len(o.sections) \in Nat
BY ObjectsAssumption DEF ObjectsAssumption

LEMMA SectionFields ==
  ASSUME NEW o \in Objects, NEW i \in 1..Len(o.sections)
  PROVE  /\ o.sections[i].addr \in Nat /\ o.sections[i].size \in Nat
         /\ o.sections[i].text \in BOOLEAN /\ o.sections[i].nobits \in BOOLEAN
         /\ o.sections[i].symbols \in SUBSET Nat
         /\ o.sections[i].illegal \in SUBSET Nat
<1>1. o.sections[i] \in SectionType
  BY ObjectType
<1>. QED
  BY <1>1 DEF SectionType

LEMMA Sections ==
  ASSUME NEW o \in Objects
  PROVE  DOMAIN o.sections = 1..Len(o.sections)
BY ObjectType

\* Every section lies behind all that come before it.
LEMMA SectionsApart ==
  ASSUME NEW o \in Objects, NEW i \in 1..Len(o.sections),
         NEW j \in 1..Len(o.sections), i < j,
         Dumped(o.sections[i]), Dumped(o.sections[j])
  PROVE  o.sections[i].addr + o.sections[i].size <= o.sections[j].addr
<1>1. i \in DOMAIN o.sections /\ j \in DOMAIN o.sections
  BY Sections
<1>. QED
  BY <1>1, ObjectsAssumption DEF ObjectsAssumption

-----------------------------------------------------------------------------
(***************************************************************************)
(* Operators.                                                              *)
(***************************************************************************)

LEMMA MinIs ==
  ASSUME NEW S \in SUBSET Nat, S # {}
  PROVE  Min(S) \in S /\ \A n \in S : Min(S) <= n
BY SmallestOf DEF Min

LEMMA ZerosType ==
  ASSUME NEW n \in Nat
  PROVE  /\ Zeros(n) \in Seq(Bytes) /\ Len(Zeros(n)) = n
         /\ \A k \in 1..n : Zeros(n)[k] = Value(0)
<1>1. Value(0) \in Bytes
  BY DEF Value, Byte, Bytes
<1>. QED
  BY <1>1 DEF Zeros

LEMMA WordUpIs ==
  ASSUME NEW n \in Nat
  PROVE  /\ WordUp(n) \in Nat /\ WordUp(n) % 4 = 0
         /\ n <= WordUp(n) /\ WordUp(n) < n + 4
BY DEF WordUp

\* n zeros.
Blank(s, n) ==
  s \in Seq(Bytes) /\ Len(s) = n /\ \A k \in 1..n : s[k] = Value(0)

\* Between two aligned addresses Fill0s prints every byte; and also if the end
\* is the last address in front of the second.
LEMMA FillIs ==
  ASSUME NEW a \in Nat, NEW b \in Nat, a % 4 = 0, b % 4 = 0, a <= b,
         NEW e \in {b - 1, b}, a < b \/ e = b
  PROVE  Blank(Fill0s(a, e), b - a)
<1> DEFINE n == IF a < e THEN 4 * ((e - a + 3) \div 4) ELSE 0
<1>1. n = b - a
  OBVIOUS
<1>2. Fill0s(a, e) = Zeros(n)
  BY DEF Fill0s
<1>3. n \in Nat
  BY <1>1
<1>. HIDE DEF n
<1>. QED
  BY <1>1, <1>2, <1>3, ZerosType DEF Blank

(***************************************************************************)
(* The vectors.                                                            *)
(***************************************************************************)

LEMMA Concat ==
  ASSUME NEW s \in Seq(Bytes), NEW t \in Seq(Bytes)
  PROVE  /\ s \o t \in Seq(Bytes) /\ Len(s \o t) = Len(s) + Len(t)
         /\ \A k \in 1..Len(s) : (s \o t)[k] = s[k]
         /\ \A k \in 1..Len(t) : (s \o t)[Len(s) + k] = t[k]
<1>. HIDE DEF Bytes
<1>. QED
  OBVIOUS

\* u is s with the n bytes of t behind its m bytes.
Joined(u, s, m, t, n) ==
  /\ u \in Seq(Bytes) /\ Len(u) = m + n
  /\ \A k \in 1..m : u[k] = s[k]
  /\ \A k \in 1..n : u[m + k] = t[k]

LEMMA ConcatBehind ==
  ASSUME NEW s \in Seq(Bytes), NEW t \in Seq(Bytes), NEW m \in Nat, NEW n \in Nat,
         Len(s) = m, Len(t) = n
  PROVE  Joined(s \o t, s, m, t, n)
BY Concat DEF Joined

LEMMA ReverseIs ==
  ASSUME NEW S, NEW s \in Seq(S)
  PROVE  /\ Reverse(s) \in Seq(S) /\ Len(Reverse(s)) = Len(s)
         /\ \A k \in 1..Len(s) : Reverse(s)[k] = s[(Len(s) - k) + 1]
<1>1. \A k \in 1..Len(s) : (Len(s) - k) + 1 \in 1..Len(s)
  OBVIOUS
<1>2. \A k \in 1..Len(s) : s[k] \in S
  OBVIOUS
<1>3. Len(s) \in Nat
  OBVIOUS
<1>4. Reverse(s) = [k \in 1..Len(s) |-> s[(Len(s) - k) + 1]]
  BY DEF Reverse
<1>. QED
  BY <1>1, <1>2, <1>3, <1>4

JumpWord(offset) ==
  LET low == offset % JmpField
  IN <<Value(54), Value(low \div (256 * 256)), Value((low \div 256) % 256), Value(low % 256)>>

LEMMA JumpType ==
  ASSUME NEW offset \in Int, NEW le \in BOOLEAN
  PROVE  /\ JmpBytes(offset, le) \in Seq(Bytes)
         /\ Len(JmpBytes(offset, le)) = 4
         /\ \A k \in 1..4 : JmpBytes(offset, le)[k]
                              = JumpWord(offset)[IF le THEN 5 - k ELSE k]
<1> DEFINE w == JumpWord(offset)
<1>1. w \in Seq(Bytes) /\ Len(w) = 4
  <2>1. \A v \in Int : Value(v) \in Bytes
    BY DEF Value, Byte, Bytes
  <2>2. PICK low \in Int : low = offset % JmpField
    BY DEF JmpField
  <2>3. low \div (256 * 256) \in Int /\ (low \div 256) % 256 \in Int /\ low % 256 \in Int
    BY <2>2
  <2>. QED
    BY <2>1, <2>2, <2>3 DEF JumpWord
<1>2. JmpBytes(offset, le) = IF le THEN Reverse(w) ELSE w
  BY DEF JmpBytes, JumpWord
<1>3. /\ Reverse(w) \in Seq(Bytes) /\ Len(Reverse(w)) = 4
      /\ \A k \in 1..4 : Reverse(w)[k] = w[5 - k]
  <2>. HIDE DEF w
  <2>1. \A k \in 1..4 : (4 - k) + 1 = 5 - k
    OBVIOUS
  <2>2. /\ Reverse(w) \in Seq(Bytes) /\ Len(Reverse(w)) = Len(w)
        /\ \A k \in 1..Len(w) : Reverse(w)[k] = w[(Len(w) - k) + 1]
    BY <1>1, ReverseIs
  <2>. QED
    BY <1>1, <2>1, <2>2
<1>. HIDE DEF w
<1>4. CASE le
  BY <1>2, <1>3, <1>4 DEF w
<1>5. CASE ~le
  BY <1>1, <1>2, <1>5 DEF w
<1>. QED
  BY <1>4, <1>5

\* The offsets of the four vectors.
VectorOffset(o, v) == IF v = 0 THEN TextOffset(o) - 4
                      ELSE IF v = 1 THEN 4
                      ELSE IF v = 2 THEN o.isr - 8 - 4 ELSE -4

LEMMA TextOffsetType ==
  ASSUME NEW o \in Objects
  PROVE  TextOffset(o) \in Nat
<1>1. CASE o.main = 0
  BY <1>1 DEF TextOffset
<1>2. CASE o.main # 0
  <2>1. o.main \in 1..Len(o.sections)
    BY <1>2, ObjectType
  <2>. QED
    BY <1>2, <2>1, SectionFields DEF TextOffset
<1>. QED
  BY <1>1, <1>2

LEMMA BootType ==
  ASSUME NEW o \in Objects
  PROVE  /\ BootSection(o) \in Seq(Bytes) /\ Len(BootSection(o)) = BootSize
         /\ \A v \in 0..3 : \A k \in 1..4 :
              BootSection(o)[4 * v + k] = JmpBytes(VectorOffset(o, v), o.le)[k]
<1> DEFINE j(v) == JmpBytes(VectorOffset(o, v), o.le)
<1>1. \A v \in 0..3 : VectorOffset(o, v) \in Int
  BY ObjectType, TextOffsetType DEF VectorOffset
<1>2. \A v \in 0..3 : j(v) \in Seq(Bytes) /\ Len(j(v)) = 4
  BY <1>1, ObjectType, JumpType
<1>3. BootSection(o) = j(0) \o j(1) \o j(2) \o j(3)
  BY DEF BootSection, VectorOffset
<1>4. PICK a \in Seq(Bytes), b \in Seq(Bytes), c \in Seq(Bytes), d \in Seq(Bytes) :
        /\ a = j(0) /\ b = j(1) /\ c = j(2) /\ d = j(3)
        /\ Len(a) = 4 /\ Len(b) = 4 /\ Len(c) = 4 /\ Len(d) = 4
  BY <1>2
<1>5. BootSection(o) = a \o b \o c \o d
  BY <1>3, <1>4
<1>6. /\ a \o b \o c \o d \in Seq(Bytes) /\ Len(a \o b \o c \o d) = 16
      /\ \A k \in 1..4 : /\ (a \o b \o c \o d)[k] = a[k]
                         /\ (a \o b \o c \o d)[4 + k] = b[k]
                         /\ (a \o b \o c \o d)[8 + k] = c[k]
                         /\ (a \o b \o c \o d)[12 + k] = d[k]
  <2>. HIDE DEF j
  <2> DEFINE ab == a \o b
             abc == ab \o c
  <2>1. /\ ab \in Seq(Bytes) /\ Len(ab) = 4 + 4
        /\ \A k \in 1..4 : ab[k] = a[k]
        /\ \A k \in 1..4 : ab[4 + k] = b[k]
    <3>1. Joined(ab, a, 4, b, 4)
      BY <1>4, ConcatBehind
    <3>. HIDE DEF ab
    <3>. QED
      BY <3>1 DEF Joined
  <2>. HIDE DEF ab
  <2>2. /\ abc \in Seq(Bytes) /\ Len(abc) = 8 + 4
        /\ \A k \in 1..8 : abc[k] = ab[k]
        /\ \A k \in 1..4 : abc[8 + k] = c[k]
    <3>1. Len(ab) = 8
      BY <2>1
    <3>2. Joined(abc, ab, 8, c, 4)
      BY <1>4, <2>1, <3>1, ConcatBehind
    <3>. HIDE DEF abc
    <3>. QED
      BY <3>2 DEF Joined
  <2>. HIDE DEF abc
  <2>3. /\ abc \o d \in Seq(Bytes) /\ Len(abc \o d) = 12 + 4
        /\ \A k \in 1..12 : (abc \o d)[k] = abc[k]
        /\ \A k \in 1..4 : (abc \o d)[12 + k] = d[k]
    <3>1. Len(abc) = 12
      BY <2>2
    <3>2. Joined(abc \o d, abc, 12, d, 4)
      BY <1>4, <2>2, <3>1, ConcatBehind
    <3>. QED
      BY <3>2 DEF Joined
  <2>4. ASSUME NEW k \in 1..4
        PROVE  /\ (abc \o d)[k] = a[k] /\ (abc \o d)[4 + k] = b[k]
               /\ (abc \o d)[8 + k] = c[k] /\ (abc \o d)[12 + k] = d[k]
    <3>1. /\ k \in 1..8 /\ 4 + k \in 1..8
          /\ k \in 1..12 /\ 4 + k \in 1..12 /\ 8 + k \in 1..12
      OBVIOUS
    <3>. QED
      BY <2>1, <2>2, <2>3, <3>1
  <2>5. abc \o d = a \o b \o c \o d
    BY DEF ab, abc
  <2>6. abc \o d \in Seq(Bytes) /\ Len(abc \o d) = 16
    BY <2>3
  <2>. QED
    BY <2>4, <2>5, <2>6
<1>7. \A v \in 0..3 : v = 0 \/ v = 1 \/ v = 2 \/ v = 3
  OBVIOUS
<1>. HIDE DEF j
<1>8. ASSUME NEW v \in 0..3, NEW k \in 1..4 PROVE BootSection(o)[4 * v + k] = j(v)[k]
  <2>. DEFINE all == a \o b \o c \o d
  <2>1. /\ all[k] = a[k] /\ all[4 + k] = b[k]
        /\ all[8 + k] = c[k] /\ all[12 + k] = d[k]
    BY <1>6
  <2>. HIDE DEF all
  <2>2. v = 0 => 4 * v + k = k /\ j(v) = a
    BY <1>4
  <2>3. v = 1 => 4 * v + k = 4 + k /\ j(v) = b
    BY <1>4
  <2>4. v = 2 => 4 * v + k = 8 + k /\ j(v) = c
    BY <1>4
  <2>5. v = 3 => 4 * v + k = 12 + k /\ j(v) = d
    BY <1>4
  <2>6. all[4 * v + k] = j(v)[k]
    BY <1>7, <2>1, <2>2, <2>3, <2>4, <2>5
  <2>. QED
    BY <1>5, <2>6 DEF all
<1>. QED
  BY <1>5, <1>6, <1>8 DEF j, BootSize

\* The four bytes of a JMP, read again, give the offset they were made from, if
\* it fits into the field.
LEMMA JumpBack ==
  ASSUME NEW offset \in Int, 2 * offset < JmpField, -JmpField <= 2 * offset,
         NEW low, low = offset % JmpField
  PROVE  /\ low \in Int
         /\ (low \div (256 * 256)) * (256 * 256) + ((low \div 256) % 256) * 256 + (low % 256) = low
         /\ (IF 2 * low >= JmpField THEN low - JmpField ELSE low) = offset
BY DEF JmpField

LEMMA JumpRead ==
  ASSUME obj \in Objects, NEW v \in 0..3, NEW offset \in Int,
         offset = VectorOffset(obj, v),
         2 * offset < JmpField, -JmpField <= 2 * offset,
         \A k \in 1..BootSize : out[k] = BootSection(obj)[k]
  PROVE  JmpTarget(4 * v) = 4 * v + 4 + offset
<1> DEFINE low   == offset % JmpField
           w     == JumpWord(offset)
           bytes == [k \in 1..4 |-> out[4 * v + k].offset]
           word  == IF obj.le THEN Reverse(bytes) ELSE bytes
<1>1. \A k \in 1..4 : out[4 * v + k] = w[IF obj.le THEN 5 - k ELSE k]
  <2>1. \A k \in 1..4 : 4 * v + k \in 1..BootSize
    BY DEF BootSize
  <2>2. \A k \in 1..4 : out[4 * v + k] = JmpBytes(offset, obj.le)[k]
    <3>. HIDE DEF w
    <3>. QED
      BY <2>1, BootType
  <2>3. obj.le \in BOOLEAN
    BY ObjectType
  <2>4. \A k \in 1..4 : JmpBytes(offset, obj.le)[k] = w[IF obj.le THEN 5 - k ELSE k]
    BY <2>3, JumpType
  <2>. QED
    BY <2>2, <2>4
<1>2. \A k \in 1..4 : word[k] = w[k].offset
  <2>1. CASE obj.le
    <3>1. \A k \in 1..4 : 5 - k \in 1..4 /\ 5 - (5 - k) = k
      OBVIOUS
    <3>2. \A k \in 1..4 : bytes[k] = w[5 - k].offset
      BY <1>1, <2>1
    <3>3. Len(bytes) = 4
      OBVIOUS
    <3>4. \A k \in 1..4 : Reverse(bytes)[k] = bytes[5 - k]
      <4>. HIDE DEF bytes
      <4>. QED
        BY <3>3 DEF Reverse
    <3>. HIDE DEF w, bytes
    <3>. QED
      BY <2>1, <3>1, <3>2, <3>4
  <2>2. CASE ~obj.le
    BY <1>1, <2>2
  <2>3. obj.le \in BOOLEAN
    BY ObjectType
  <2>. QED
    BY <2>1, <2>2, <2>3
<1>3. /\ word[2] = low \div (256 * 256) /\ word[3] = (low \div 256) % 256
      /\ word[4] = low % 256
  <2>1. /\ w[2].offset = low \div (256 * 256) /\ w[3].offset = (low \div 256) % 256
        /\ w[4].offset = low % 256
    BY DEF JumpWord, Value, Byte
  <2>. HIDE DEF w, word, low
  <2>. QED
    BY <1>2, <2>1
<1>4. JmpTarget(4 * v)
        = LET l == word[2] * (256 * 256) + word[3] * 256 + word[4]
          IN 4 * v + 4 + (IF 2 * l >= JmpField THEN l - JmpField ELSE l)
  BY DEF JmpTarget
<1>5. word[2] * (256 * 256) + word[3] * 256 + word[4] = low
  <2>. HIDE DEF word
  <2>. QED
    BY <1>3, JumpBack
<1>. HIDE DEF word, low
<1>. QED
  BY <1>4, <1>5, JumpBack DEF low

-----------------------------------------------------------------------------
(***************************************************************************)
(* What a step prints.                                                     *)
(***************************************************************************)

LEMMA SectionIs ==
  ASSUME TypeInv, sec > 0
  PROVE  /\ sec \in 1..Len(obj.sections) /\ obj \in Objects
         /\ Section.addr \in Nat /\ Section.size \in Nat
         /\ Section.text \in BOOLEAN /\ Section.nobits \in BOOLEAN
         /\ Section.symbols \in SUBSET Nat /\ Section.illegal \in SUBSET Nat
<1>1. sec \in 1..Len(obj.sections) /\ obj \in Objects
  BY ObjectType DEF TypeInv
<1>. QED
  BY <1>1, SectionFields DEF Section

LEMMA FillType ==
  ASSUME NEW a \in Int, NEW e \in Int
  PROVE  Fill0s(a, e) \in Seq(Bytes)
<1> DEFINE n == IF a < e THEN 4 * ((e - a + 3) \div 4) ELSE 0
<1>1. n \in Nat
  OBVIOUS
<1>2. Fill0s(a, e) = Zeros(n)
  BY DEF Fill0s
<1>. HIDE DEF n
<1>. QED
  BY <1>1, <1>2, ZerosType

LEMMA GapType ==
  ASSUME TypeInv, sec > 0
  PROVE  /\ GapBefore \in Seq(Bytes) /\ AddrAfterGap \in Nat
         /\ lastDumpAddr <= AddrAfterGap /\ Section.addr <= AddrAfterGap
<1>1. Section.addr \in Nat /\ lastDumpAddr \in Nat
  BY SectionIs DEF TypeInv
<1>2. Fill0s(lastDumpAddr, Section.addr - 1) \in Seq(Bytes)
  <2>1. lastDumpAddr \in Int /\ Section.addr - 1 \in Int
    BY <1>1
  <2>. QED
    BY <2>1, FillType
<1>3. GapBefore \in Seq(Bytes)
  BY <1>2 DEF GapBefore
<1>. QED
  BY <1>1, <1>3 DEF AddrAfterGap

\* Before an aligned section the gap is filled exactly.
LEMMA GapIs ==
  ASSUME TypeInv, sec > 0, Section.addr % 4 = 0, lastDumpAddr % 4 = 0
  PROVE  /\ Len(GapBefore) = AddrAfterGap - lastDumpAddr
         /\ \A k \in 1..AddrAfterGap - lastDumpAddr : GapBefore[k] = Value(0)
<1>1. Section.addr \in Nat /\ lastDumpAddr \in Nat
  BY SectionIs DEF TypeInv
<1>2. CASE lastDumpAddr < Section.addr
  <2>1. PICK a \in Nat, b \in Nat : a = lastDumpAddr /\ b = Section.addr
    BY <1>1
  <2>2. Blank(Fill0s(a, b - 1), b - a)
    BY <1>2, <2>1, FillIs
  <2>3. GapBefore = Fill0s(a, b - 1) /\ AddrAfterGap = b
    BY <1>2, <2>1 DEF GapBefore, AddrAfterGap
  <2>. QED
    BY <2>1, <2>2, <2>3 DEF Blank
<1>3. CASE ~(lastDumpAddr < Section.addr)
  <2>1. GapBefore = <<>> /\ AddrAfterGap = lastDumpAddr
    BY <1>3 DEF GapBefore, AddrAfterGap
  <2>2. AddrAfterGap - lastDumpAddr = 0
    BY <1>1, <2>1
  <2>. QED
    BY <2>1, <2>2
<1>. QED
  BY <1>2, <1>3

\* The image u is what was printed, zeros up to the address p, and n new bytes.
Printed(u, p, blk, n) ==
  /\ u \in Seq(Bytes) /\ Len(u) = p + n
  /\ \A k \in 1..lastDumpAddr : u[k] = out[k]
  /\ \A k \in lastDumpAddr + 1..p : u[k] = Value(0)
  /\ \A k \in 1..n : u[p + k] = blk[k]

LEMMA PrintedIs ==
  ASSUME TypeInv, PositionInv, sec > 0, Section.addr % 4 = 0,
         NEW n \in Nat, NEW blk \in Seq(Bytes), Len(blk) = n
  PROVE  Printed(out \o GapBefore \o blk, AddrAfterGap, blk, n)
<1>1. PICK l \in Nat, p \in Nat, g \in Nat :
        /\ l = lastDumpAddr /\ p = AddrAfterGap /\ g = p - l /\ l + g = p
  <2>1. /\ lastDumpAddr \in Nat /\ AddrAfterGap \in Nat
        /\ AddrAfterGap - lastDumpAddr \in Nat
    BY GapType DEF TypeInv
  <2>. QED
    BY <2>1
<1>2. out \in Seq(Bytes) /\ Len(out) = l /\ l % 4 = 0
  BY <1>1 DEF TypeInv, PositionInv
<1>3. /\ GapBefore \in Seq(Bytes) /\ Len(GapBefore) = g
      /\ \A k \in 1..g : GapBefore[k] = Value(0)
  BY <1>1, <1>2, GapType, GapIs
<1> DEFINE t == out \o GapBefore
           u == t \o blk
<1>4. Joined(t, out, l, GapBefore, g)
  BY <1>2, <1>3, ConcatBehind
<1>5. /\ t \in Seq(Bytes) /\ Len(t) = p
      /\ \A k \in 1..l : t[k] = out[k]
      /\ \A k \in 1..g : t[l + k] = Value(0)
  <2>. HIDE DEF t
  <2>. QED
    BY <1>1, <1>3, <1>4 DEF Joined
<1>6. Joined(u, t, p, blk, n)
  <2>. HIDE DEF t
  <2>. QED
    BY <1>5, ConcatBehind
<1>. HIDE DEF t, u
<1>7. \A k \in 1..l : u[k] = out[k]
  BY <1>1, <1>5, <1>6 DEF Joined
<1>8. ASSUME NEW k \in l + 1..p PROVE u[k] = Value(0)
  <2>1. k - l \in 1..g /\ l + (k - l) = k /\ k \in 1..p
    BY <1>1
  <2>. QED
    BY <1>5, <1>6, <2>1 DEF Joined
<1>9. /\ u \in Seq(Bytes) /\ Len(u) = p + n
      /\ \A k \in 1..n : u[p + k] = blk[k]
  BY <1>6 DEF Joined
<1>. QED
  BY <1>1, <1>7, <1>8, <1>9 DEF Printed, t, u

LEMMA LoadedType ==
  ASSUME TypeInv, NEW a \in Nat
  PROVE  a < Len(out) => Loaded(a) = out[a + 1] /\ Loaded(a).section \in Nat
<1>1. out \in Seq(Bytes) /\ Len(out) \in Nat
  BY DEF TypeInv
<1>2. ASSUME a < Len(out) PROVE out[a + 1] \in Bytes
  BY <1>1, <1>2
<1>. QED
  BY <1>2 DEF Loaded, Bytes

\* A right byte stays right when more is printed: it is printed already, or it
\* belongs to a NOBITS section and becomes a zero of the gap behind.
LEMMA RightStays ==
  ASSUME TypeInv, PositionInv, sec > 0, Section.addr % 4 = 0,
         NEW n \in Nat, NEW blk, Printed(out', AddrAfterGap, blk, n),
         NEW i \in DOMAIN obj.sections, NEW off \in Nat, LoadedRight(i, off),
         obj' = obj, Dumped(Section), Dumped(obj.sections[i]),
         \/ i < sec /\ off < obj.sections[i].size
         \/ ~obj.sections[i].nobits
  PROVE  LoadedRight(i, off)'
<1>1. i \in 1..Len(obj.sections) /\ obj \in Objects /\ i # 0
  BY Sections DEF TypeInv
<1>2. PICK a \in Nat, sz \in Nat, nb \in BOOLEAN :
        /\ a = obj.sections[i].addr /\ sz = obj.sections[i].size
        /\ nb = obj.sections[i].nobits
  BY <1>1, SectionFields
<1>3. PICK l \in Nat, p \in Nat : l = lastDumpAddr /\ p = AddrAfterGap /\ l <= p
                                  /\ Section.addr <= p
  BY GapType DEF TypeInv
<1>4. Len(out) = l /\ Len(out') = p + n
  BY <1>3 DEF PositionInv, Printed
<1>5. CASE a + off < l
  <2>1. a + off + 1 \in 1..l
    BY <1>3, <1>5
  <2>2. out'[a + off + 1] = out[a + off + 1]
    BY <1>3, <2>1 DEF Printed
  <2>3. Loaded(a + off) = out[a + off + 1]
    BY <1>4, <1>5 DEF Loaded
  <2>4. Loaded(a + off)' = out'[a + off + 1]
    BY <1>2, <1>3, <1>4, <1>5 DEF Loaded
  <2>5. Loaded(a + off)' = Loaded(a + off)
    BY <2>2, <2>3, <2>4
  <2>. QED
    BY <1>2, <2>5 DEF LoadedRight
<1>6. CASE ~(a + off < l)
  <2>1. Loaded(a + off) = Value(-1)
    BY <1>4, <1>6 DEF Loaded
  <2>2. Value(-1) # Byte(i, off)
    BY <1>1 DEF Value, Byte
  <2>3. nb
    BY <1>2, <2>1, <2>2 DEF LoadedRight
  <2>4. i < sec /\ off < sz
    BY <1>2, <2>3
  <2>5. a + sz <= Section.addr /\ Section.addr \in Nat
    <3>1. sec \in 1..Len(obj.sections) /\ Section.addr \in Nat
      BY SectionIs
    <3>. QED
      BY <1>1, <1>2, <2>4, <3>1, SectionsApart DEF Section
  <2>6. a + off + 1 \in l + 1..p
    BY <1>3, <1>6, <2>4, <2>5
  <2>7. out'[a + off + 1] = Value(0)
    BY <1>3, <2>6 DEF Printed
  <2>8. Loaded(a + off)' = Value(0)
    BY <1>4, <2>6, <2>7 DEF Loaded
  <2>. QED
    BY <1>2, <2>3, <2>8 DEF LoadedRight
<1>. QED
  BY <1>5, <1>6

-----------------------------------------------------------------------------
(***************************************************************************)
(* Types.                                                                  *)
(***************************************************************************)

LEMMA InitTypes == Init => TypeInv
<1>. SUFFICES ASSUME Init PROVE TypeInv
  OBVIOUS
<1>1. obj \in Objects /\ 0 \in 0..Len(obj.sections)
  BY ObjectType DEF Init
<1>2. <<>> \in Seq(Bytes)
  OBVIOUS
<1>. QED
  BY <1>1, <1>2 DEF Init, TypeInv, States

LEMMA BootZeros ==
  /\ FirstAddr \in Nat /\ FirstAddr % 4 = 0 /\ FirstAddr >= BootSize
  /\ BootSize = 16
  /\ Blank(Fill0s(BootSize, FirstAddr), FirstAddr - BootSize)
<1>1. FirstAddr \in Nat /\ FirstAddr % 4 = 0 /\ FirstAddr >= 16 /\ BootSize = 16
  BY ObjectsAssumption DEF ObjectsAssumption, BootSize
<1>2. Blank(Fill0s(16, FirstAddr), FirstAddr - 16)
  BY <1>1, FillIs
<1>. QED
  BY <1>1, <1>2

LEMMA DataType ==
  ASSUME TypeInv, sec > 0
  PROVE  /\ ContentsSize \in Nat /\ DataBytes \in Seq(Bytes)
         /\ Len(DataBytes) = WordUp(ContentsSize)
<1>1. ContentsSize \in Nat
  BY SectionIs DEF ContentsSize
<1>2. WordUp(ContentsSize) \in Nat
  BY <1>1, WordUpIs
<1>3. sec \in Nat
  BY SectionIs
<1>4. \A k \in 1..WordUp(ContentsSize) :
        (IF k <= ContentsSize THEN Byte(sec, k - 1) ELSE Value(0)) \in Bytes
  BY <1>1, <1>2, <1>3 DEF Byte, Value, Bytes
<1>. QED
  BY <1>1, <1>2, <1>4 DEF DataBytes

LEMMA TypeStep == TypeInv /\ [Next]_vars => TypeInv'
<1>. SUFFICES ASSUME TypeInv, [Next]_vars PROVE TypeInv'
  OBVIOUS
<1>. USE DEF States
<1>1. CASE Construct
  <2>1. BootSection(obj) \in Seq(Bytes)
    BY BootType DEF TypeInv
  <2>2. Fill0s(BootSize, FirstAddr) \in Seq(Bytes)
    BY BootZeros DEF Blank
  <2>3. out' \in Seq(Bytes)
    BY <1>1, <2>1, <2>2, Concat DEF Construct
  <2>. QED
    BY <1>1, <2>3, BootZeros DEF Construct, TypeInv, Section, Dumped
<1>2. CASE NextSection
  <2>1. obj \in Objects /\ Len(obj.sections) \in Nat /\ sec \in Nat
    BY ObjectType DEF TypeInv
  <2>2. sec + 1 \in 1..Len(obj.sections) /\ sec + 1 > 0
    BY <1>2, <2>1 DEF NextSection
  <2>3. /\ obj.sections[sec + 1].addr \in Nat /\ obj.sections[sec + 1].size \in Nat
        /\ obj.sections[sec + 1].text \in BOOLEAN
    BY <2>1, <2>2, SectionFields
  <2>4. FirstAddr \in Nat
    BY BootZeros
  <2>5. /\ pc' \in {"section", "collect", "data"} /\ obj' = obj /\ sec' = sec + 1
        /\ pc' \in {"data", "collect"} =>
             Dumped(obj.sections[sec + 1]) /\ (obj.sections[sec + 1].text <=> pc' # "data")
    BY <1>2, <2>3, <2>4 DEF NextSection, Dumped
  <2>. QED
    BY <1>2, <2>1, <2>2, <2>5 DEF NextSection, TypeInv, Section, Dumped
<1>3. CASE Finish
  BY <1>3 DEF Finish, TypeInv, Section, Dumped
<1>4. CASE ProcessDataSection
  <2>1. sec > 0
    BY <1>4 DEF ProcessDataSection, TypeInv
  <2>2. out' \in Seq(Bytes)
    BY <1>4, <2>1, GapType, DataType, Concat DEF ProcessDataSection, TypeInv
  <2>3. lastDumpAddr' \in Nat
    <3>1. /\ ContentsSize \in Nat /\ Section.addr \in Nat
          /\ AddrAfterGap \in Nat /\ WordUp(ContentsSize) \in Nat
      BY <2>1, GapType, DataType, SectionIs, WordUpIs
    <3>. QED
      BY <1>4, <3>1 DEF ProcessDataSection
  <2>. QED
    BY <1>4, <2>2, <2>3 DEF ProcessDataSection, TypeInv, Section, Dumped
<1>5. CASE CollectSymbols
  <2>1. sec > 0
    BY <1>5 DEF CollectSymbols, TypeInv
  <2>2. symbols' \in SUBSET Nat
    <3>1. Section.symbols \in SUBSET Nat /\ symbols \in SUBSET Nat
      BY <2>1, SectionIs DEF TypeInv
    <3> DEFINE all == symbols \cup {a \in Section.symbols : a < Section.size}
    <3>2. all \in SUBSET Nat
      BY <3>1
    <3>3. symbols' = IF all = {} THEN {0} ELSE all
      BY <1>5 DEF CollectSymbols
    <3>. HIDE DEF all
    <3>4. {0} \in SUBSET Nat
      OBVIOUS
    <3>. QED
      BY <3>2, <3>3, <3>4
  <2>. QED
    BY <1>5, <2>2 DEF CollectSymbols, TypeInv, Section, Dumped
<1>6. CASE NextSymbol
  <2>1. sec > 0 /\ Section.size \in Nat
    BY <1>6, SectionIs DEF NextSymbol, TypeInv
  <2>2. CASE todo = {}
    BY <1>6, <2>2 DEF NextSymbol, TypeInv, Section, Dumped
  <2>3. CASE todo # {}
    <3>1. todo \in SUBSET Nat /\ Min(todo) \in Nat
      BY <2>3, MinIs DEF TypeInv
    <3>2. /\ todo' = todo \ {Min(todo)} /\ index' = Min(todo)
          /\ end' = IF todo' = {} THEN Section.size ELSE Min(todo') - 1
      BY <1>6, <2>3 DEF NextSymbol
    <3>3. todo' \in SUBSET Nat
      BY <3>1, <3>2
    <3>4. todo' # {} => Min(todo') \in Nat
      BY <3>3, MinIs
    <3>5. end' \in Int
      BY <2>1, <3>2, <3>4
    <3>. QED
      BY <1>6, <2>3, <3>1, <3>2, <3>3, <3>5 DEF NextSymbol, TypeInv, Section, Dumped
  <2>. QED
    BY <2>2, <2>3
<1>7. CASE EndSymbol
  BY <1>7 DEF EndSymbol, TypeInv, Section, Dumped
<1>8. CASE PrintInstruction
  <2>1. sec > 0 /\ sec \in Nat /\ index \in Nat
    BY <1>8 DEF PrintInstruction, TypeInv
  <2>2. [k \in 1..4 |-> Byte(sec, index + k - 1)] \in Seq(Bytes)
    BY <2>1 DEF Byte, Bytes
  <2>3. out' \in Seq(Bytes)
    <3>1. out \o GapBefore \in Seq(Bytes)
      BY <2>1, GapType, Concat DEF TypeInv
    <3>. QED
      BY <1>8, <2>2, <3>1, Concat DEF PrintInstruction
  <2>4. lastDumpAddr' \in Nat
    BY <1>8, <2>1, SectionIs DEF PrintInstruction, DumpAddrAfter
  <2>5. index' \in Nat
    BY <1>8, <2>1 DEF PrintInstruction
  <2>. QED
    BY <1>8, <2>3, <2>4, <2>5 DEF PrintInstruction, TypeInv, Section, Dumped
<1>9. CASE SkipIllegible
  <2>1. size' \in Nat
    BY <1>9, ObjectsAssumption DEF SkipIllegible, SizesAfterFailure, TypeInv, ObjectsAssumption
  <2>2. index' \in Nat
    <3>1. index \in Nat /\ index' = index + size'
      BY <1>9 DEF SkipIllegible, TypeInv
    <3>2. PICK n \in Nat, m \in Nat : n = index /\ m = size'
      BY <2>1, <3>1
    <3>3. n + m \in Nat
      OBVIOUS
    <3>4. index' = n + m
      BY <3>1, <3>2
    <3>. QED
      BY <3>3, <3>4
  <2>. QED
    BY <1>9, <2>1, <2>2 DEF SkipIllegible, TypeInv, Section, Dumped
<1>10. CASE SliceBehindEnd
  BY <1>10 DEF SliceBehindEnd, TypeInv, Section, Dumped
<1>11. CASE UNCHANGED vars
  BY <1>11 DEF vars, TypeInv, Section, Dumped
<1>. QED
  BY <1>1, <1>2, <1>3, <1>4, <1>5, <1>6, <1>7, <1>8, <1>9, <1>10, <1>11 DEF Next

-----------------------------------------------------------------------------
(***************************************************************************)
(* The steps on a file that is handled.                                    *)
(***************************************************************************)

LEMMA FileStays == obj' = obj => (FileHandled' <=> FileHandled)
BY DEF FileHandled, WordAligned, AllDecode, SymbolAtStart, NoStaleSymbolBehind,
       VectorsInReach, Dumped

LEMMA HandledSection ==
  ASSUME TypeInv, FileHandled, sec > 0, Dumped(Section)
  PROVE  /\ Section.addr % 4 = 0 /\ Section.size > 0 /\ Section.addr >= FirstAddr
         /\ Section.text => /\ Section.illegal = {} /\ ~Section.nobits
                            /\ Section.size % 4 = 0
                            /\ \A a \in Section.symbols : a % 4 = 0
<1>1. sec \in DOMAIN obj.sections
  BY SectionIs, Sections
<1>2. Section.addr % 4 = 0
  BY <1>1 DEF FileHandled, WordAligned, Section
<1>3. Section.text => /\ Section.illegal = {} /\ ~Section.nobits
                      /\ Section.size % 4 = 0
                      /\ \A a \in Section.symbols : a % 4 = 0
  BY <1>1 DEF FileHandled, AllDecode, Section
<1>. QED
  BY <1>2, <1>3 DEF Dumped

LEMMA InitHandled == Init /\ TypeInv => HandledInv
<1>. SUFFICES ASSUME Init, TypeInv PROVE HandledInv
  OBVIOUS
<1>1. PositionInv
  <2>1. \A j \in DOMAIN obj.sections : obj.sections[j].addr \in Nat
    BY Sections, SectionFields DEF TypeInv
  <2>. QED
    BY <2>1 DEF Init, PositionInv, InText
<1>2. SymbolsInv
  BY DEF Init, SymbolsInv, InText
<1>3. ContentInv
  <2>1. \A i \in DOMAIN obj.sections : i > 0 /\ i \in Int
    BY Sections, ObjectType DEF TypeInv
  <2>2. \A i \in DOMAIN obj.sections : Progress(i) = 0
    BY <2>1 DEF Init, Progress
  <2>. QED
    BY <2>2 DEF Init, ContentInv
<1>. QED
  BY <1>1, <1>2, <1>3 DEF HandledInv, Init

LEMMA ConstructStep ==
  ASSUME TypeInv, TypeInv', HandledInv, Construct
  PROVE  HandledInv'
<1>1. /\ obj' = obj /\ sec' = 0 /\ sec = 0 /\ pc' = "section" /\ lastDumpAddr' = FirstAddr
      /\ symbols' = symbols
  BY DEF Construct, HandledInv, PositionInv
<1>2. \A i \in DOMAIN obj.sections : i > 0 /\ i \in Int
  BY Sections, ObjectType DEF TypeInv
<1>3. /\ Len(out') = FirstAddr
      /\ \A k \in 1..BootSize : out'[k] = BootSection(obj)[k]
  <2> DEFINE b == BootSection(obj)
             f == Fill0s(BootSize, FirstAddr)
  <2>1. b \in Seq(Bytes) /\ Len(b) = BootSize
    BY BootType DEF TypeInv
  <2>2. f \in Seq(Bytes) /\ Len(f) = FirstAddr - BootSize /\ FirstAddr - BootSize \in Nat
    BY BootZeros DEF Blank
  <2>3. Joined(b \o f, b, BootSize, f, FirstAddr - BootSize)
    <3>. HIDE DEF b, f
    <3>. QED
      BY <2>1, <2>2, BootZeros, ConcatBehind
  <2>4. out' = b \o f
    BY DEF Construct
  <2>5. BootSize + (FirstAddr - BootSize) = FirstAddr
    BY BootZeros
  <2>. HIDE DEF b, f
  <2>6. Len(out') = FirstAddr /\ \A k \in 1..BootSize : out'[k] = b[k]
    BY <2>3, <2>4, <2>5 DEF Joined
  <2>. QED
    BY <2>6 DEF b
<1>4. PositionInv'
  <2>1. \A j \in DOMAIN obj.sections :
          Dumped(obj.sections[j]) => FirstAddr <= obj.sections[j].addr
    BY BootZeros, Sections, SectionFields DEF Dumped, TypeInv
  <2>. QED
    BY <1>1, <1>3, <2>1, BootZeros DEF PositionInv, InText, Dumped
<1>5. SymbolsInv'
  BY <1>1 DEF HandledInv, SymbolsInv, InText, Dumped
<1>6. ContentInv'
  <2>1. \A i \in DOMAIN obj.sections : Progress(i)' = 0
    BY <1>1, <1>2 DEF Progress, InText
  <2>2. \A k \in 1..BootSize : out'[k] = BootSection(obj')[k]
    BY <1>1, <1>3
  <2>. QED
    BY <1>1, <2>1, <2>2 DEF ContentInv
<1>. QED
  BY <1>1, <1>4, <1>5, <1>6 DEF HandledInv

\* The image does not change: what is right stays right.
LEMMA SameImage ==
  ASSUME obj' = obj, out' = out, NEW i, NEW off
  PROVE  LoadedRight(i, off)' <=> LoadedRight(i, off)
BY DEF LoadedRight, Loaded

LEMMA SameBoot ==
  ASSUME obj' = obj
  PROVE  BootSection(obj)' = BootSection(obj)
OBVIOUS

LEMMA NextSectionStep ==
  ASSUME TypeInv, TypeInv', HandledInv, NextSection
  PROVE  HandledInv'
<1>1. /\ obj' = obj /\ out' = out /\ lastDumpAddr' = lastDumpAddr /\ symbols' = symbols
      /\ pc = "section" /\ sec' = sec + 1 /\ sec \in Nat
      /\ pc' = LET s == obj.sections[sec + 1]
               IN IF ~Dumped(s) THEN "section"
                  ELSE IF s.text THEN "collect" ELSE "data"
  BY ObjectType DEF NextSection, TypeInv
<1>2. pc' \in {"section", "collect", "data"} /\ ~InText'
  BY <1>1 DEF InText
<1>3. \A i \in DOMAIN obj.sections : i > 0 /\ i \in Int
  BY Sections, ObjectType DEF TypeInv
<1>4. PositionInv'
  <2>1. /\ Len(out') = lastDumpAddr' /\ lastDumpAddr' % 4 = 0
        /\ lastDumpAddr' >= FirstAddr
    BY <1>1 DEF HandledInv, PositionInv
  <2>2. \A j \in DOMAIN obj.sections : j >= sec + 1 /\ Dumped(obj.sections[j])
          => lastDumpAddr <= obj.sections[j].addr
    BY <1>1, <1>3 DEF HandledInv, PositionInv
  <2>. QED
    BY <1>1, <1>2, <1>3, <2>1, <2>2 DEF PositionInv, Dumped
<1>5. SymbolsInv'
  <2>1. 1..sec \subseteq 1..sec'
    BY <1>1
  <2>. QED
    BY <1>1, <1>2, <2>1 DEF HandledInv, SymbolsInv, Dumped
<1>6. ContentInv'
  <2>1. ASSUME NEW i \in DOMAIN obj.sections, Dumped(obj.sections[i]),
               NEW off \in 0..Progress(i)' - 1
        PROVE  LoadedRight(i, off)
    <3>1. i # sec + 1
      <4>1. SUFFICES ASSUME i = sec + 1 PROVE FALSE
        OBVIOUS
      <4>2. obj.sections[i].size \in Nat /\ obj.sections[i].addr \in Nat
        BY Sections, SectionFields DEF TypeInv
      <4>3. pc' # "section"
        BY <1>1, <2>1, <4>1, <4>2, BootZeros DEF Dumped
      <4>4. Progress(i)' = 0
        BY <1>1, <1>2, <4>1, <4>3 DEF Progress, AtSectionEnd
      <4>. QED
        BY <4>4
    <3>2. CASE i < sec + 1
      <4>1. Progress(i)' = obj.sections[i].size
        BY <1>1, <1>3, <3>2 DEF Progress
      <4>2. Progress(i) = obj.sections[i].size
        BY <1>1, <1>3, <3>2 DEF Progress, AtSectionEnd
      <4>. QED
        BY <2>1, <4>1, <4>2 DEF HandledInv, ContentInv
    <3>3. CASE i > sec + 1
      <4>1. Progress(i)' = 0
        BY <1>1, <1>3, <3>3 DEF Progress
      <4>. QED
        BY <4>1
    <3>. QED
      BY <1>1, <1>3, <3>1, <3>2, <3>3
  <2>2. \A k \in 1..BootSize : out'[k] = BootSection(obj')[k]
    BY <1>1 DEF HandledInv, ContentInv
  <2>. QED
    BY <1>1, <2>1, <2>2, SameImage DEF ContentInv, Dumped
<1>. QED
  BY <1>2, <1>4, <1>5, <1>6 DEF HandledInv

LEMMA FinishStep ==
  ASSUME TypeInv, HandledInv, Finish
  PROVE  HandledInv'
<1>1. /\ obj' = obj /\ out' = out /\ lastDumpAddr' = lastDumpAddr /\ symbols' = symbols
      /\ pc = "section" /\ pc' = "done" /\ sec' = sec
  BY DEF Finish
<1>2. PositionInv'
  BY <1>1 DEF HandledInv, PositionInv, InText, Dumped
<1>3. SymbolsInv'
  BY <1>1 DEF HandledInv, SymbolsInv, InText, Dumped
<1>4. ContentInv'
  <2>1. \A i : Progress(i)' = Progress(i)
    BY <1>1 DEF Progress, AtSectionEnd, InText
  <2>2. \A k \in 1..BootSize : out'[k] = BootSection(obj')[k]
    BY <1>1 DEF HandledInv, ContentInv
  <2>. QED
    BY <1>1, <2>1, <2>2, SameImage DEF HandledInv, ContentInv, Dumped
<1>. QED
  BY <1>1, <1>2, <1>3, <1>4 DEF HandledInv

\* What the invariant says of the other sections while one is printed.
OthersRight ==
  \A i \in DOMAIN obj.sections :
    Dumped(obj.sections[i]) =>
      \A off \in 0..obj.sections[i].size - 1 : i < sec => LoadedRight(i, off)

LEMMA Others ==
  ASSUME TypeInv, ContentInv
  PROVE  OthersRight
BY DEF ContentInv, OthersRight, Progress

\* The image after a step that prints n bytes behind the gap: the sections
\* before are still right, and so are the vectors.
LEMMA ExtendedImage ==
  ASSUME TypeInv, HandledInv, sec > 0, Section.addr % 4 = 0, obj' = obj,
         pc # "construct", sec' = sec, Dumped(Section),
         NEW n \in Nat, NEW blk, Printed(out', AddrAfterGap, blk, n)
  PROVE  /\ OthersRight'
         /\ \A k \in 1..BootSize : out'[k] = BootSection(obj')[k]
<1>1. OthersRight'
  <2>1. ASSUME NEW i \in DOMAIN obj.sections, Dumped(obj.sections[i]),
               NEW off \in 0..obj.sections[i].size - 1, i < sec
        PROVE  LoadedRight(i, off)'
    <3>1. LoadedRight(i, off)
      BY <2>1, Others DEF HandledInv, OthersRight
    <3>2. obj.sections[i].size \in Nat /\ off \in Nat /\ off < obj.sections[i].size
      BY Sections, SectionFields DEF TypeInv
    <3>3. PositionInv
      BY DEF HandledInv
    <3>. QED
      BY <2>1, <3>1, <3>2, <3>3, RightStays
  <2>. QED
    BY <2>1 DEF OthersRight, Dumped
<1>2. ASSUME NEW k \in 1..BootSize PROVE out'[k] = BootSection(obj')[k]
  <2>1. lastDumpAddr \in Nat /\ lastDumpAddr >= BootSize
    BY BootZeros DEF HandledInv, PositionInv, TypeInv
  <2>2. k \in 1..lastDumpAddr
    BY <2>1, BootZeros
  <2>3. out'[k] = out[k] /\ out[k] = BootSection(obj)[k]
    BY <2>2 DEF Printed, HandledInv, ContentInv
  <2>. QED
    BY <2>3
<1>. QED
  BY <1>1, <1>2

LEMMA DataSectionStep ==
  ASSUME TypeInv, TypeInv', HandledInv, FileHandled, ProcessDataSection
  PROVE  HandledInv'
<1>1. /\ obj' = obj /\ symbols' = symbols /\ sec' = sec
      /\ pc = "data" /\ pc' = "section" /\ sec > 0 /\ Dumped(Section)
      /\ out' = out \o GapBefore \o DataBytes
  BY DEF ProcessDataSection, TypeInv
<1>2. PICK a \in Nat, sz \in Nat, nb \in BOOLEAN, p \in Nat, l \in Nat, c \in Nat, w \in Nat :
        /\ a = Section.addr /\ sz = Section.size /\ nb = Section.nobits
        /\ p = AddrAfterGap /\ l = lastDumpAddr /\ c = ContentsSize /\ w = WordUp(c)
  <2>1. ContentsSize \in Nat /\ WordUp(ContentsSize) \in Nat
    BY <1>1, DataType, WordUpIs
  <2>. QED
    BY <1>1, <2>1, SectionIs, GapType DEF TypeInv
<1>3. /\ a % 4 = 0 /\ a >= FirstAddr /\ sz > 0 /\ l % 4 = 0 /\ FirstAddr \in Nat
      /\ w % 4 = 0 /\ c <= w /\ w < c + 4
      /\ c = IF nb THEN 0 ELSE sz
  BY <1>1, <1>2, HandledSection, WordUpIs, BootZeros
     DEF HandledInv, PositionInv, ContentsSize
<1>4. l <= a /\ p = a
  <2>1. sec \in DOMAIN obj.sections /\ Dumped(obj.sections[sec])
    BY <1>1, SectionIs, Sections DEF Section
  <2>2. l <= a
    BY <1>1, <1>2, <2>1 DEF HandledInv, PositionInv, Section
  <2>. QED
    BY <1>2, <2>2 DEF AddrAfterGap
<1>5. Printed(out', p, DataBytes, w)
  <2>1. PositionInv /\ Section.addr % 4 = 0
    BY <1>2, <1>3 DEF HandledInv
  <2>2. DataBytes \in Seq(Bytes) /\ Len(DataBytes) = w
    BY <1>1, <1>2, DataType
  <2>. QED
    BY <1>1, <1>2, <2>1, <2>2, PrintedIs
<1>6. lastDumpAddr' = a + w
  <2>1. c = 0 => w = 0
    BY <1>3
  <2>2. lastDumpAddr' = IF c > 0 THEN a + w ELSE p
    BY <1>2 DEF ProcessDataSection
  <2>. QED
    BY <1>2, <1>4, <2>1, <2>2
<1>7. PositionInv'
  <2>1. Len(out') = lastDumpAddr' /\ lastDumpAddr' % 4 = 0 /\ lastDumpAddr' >= FirstAddr
    <3>1. (a + w) % 4 = 0 /\ a + w >= FirstAddr
      BY <1>3
    <3>. QED
      BY <1>4, <1>5, <1>6, <3>1 DEF Printed
  <2>2. ASSUME NEW j \in DOMAIN obj.sections, Dumped(obj.sections[j]), j > sec
        PROVE  lastDumpAddr' <= obj.sections[j].addr
    <3>1. /\ j \in 1..Len(obj.sections) /\ sec \in 1..Len(obj.sections)
          /\ obj \in Objects
      BY <1>1, Sections, SectionIs
    <3>2. obj.sections[j].addr \in Nat
      BY <3>1, SectionFields
    <3>3. a + sz <= obj.sections[j].addr
      BY <1>1, <1>2, <2>2, <3>1, SectionsApart DEF Section
    <3>4. obj.sections[j].addr % 4 = 0
      BY <2>2 DEF FileHandled, WordAligned
    <3>. QED
      BY <1>3, <1>6, <3>2, <3>3, <3>4
  <2>. QED
    BY <1>1, <2>1, <2>2 DEF PositionInv, InText, Dumped
<1>8. SymbolsInv'
  BY <1>1 DEF HandledInv, SymbolsInv, InText, Dumped
<1>9. ContentInv'
  <2>1. /\ OthersRight'
        /\ \A k \in 1..BootSize : out'[k] = BootSection(obj')[k]
    BY <1>1, <1>2, <1>3, <1>5, ExtendedImage
  <2>. PICK m \in Int : m = sec
    BY <1>1, SectionIs
  <2>2. ASSUME NEW off \in 0..sz - 1 PROVE LoadedRight(m, off)'
    <3>1. CASE nb
      <4>1. Len(out') = a
        BY <1>3, <1>4, <1>5, <3>1 DEF Printed
      <4>2. Loaded(a + off)' = Value(-1)
        BY <4>1 DEF Loaded
      <4>. QED
        BY <1>1, <1>2, <3>1, <4>2 DEF LoadedRight, Section
    <3>2. CASE ~nb
      <4>1. c = sz /\ off + 1 \in 1..w /\ off + 1 <= c
        BY <1>3, <3>2
      <4>2. DataBytes[off + 1] = Byte(m, off)
        <5>1. DataBytes[off + 1] = Byte(sec, (off + 1) - 1)
          BY <1>2, <4>1 DEF DataBytes
        <5>. QED
          BY <5>1
      <4>3. out'[a + (off + 1)] = Byte(m, off)
        BY <1>4, <1>5, <4>1, <4>2 DEF Printed
      <4>4. Loaded(a + off)' = out'[a + (off + 1)]
        <5>1. Len(out') = a + w /\ a + off < a + w /\ (a + off) + 1 = a + (off + 1)
          BY <1>4, <1>5, <4>1 DEF Printed
        <5>. QED
          BY <5>1 DEF Loaded
      <4>. QED
        BY <1>1, <1>2, <3>2, <4>3, <4>4 DEF LoadedRight, Section
    <3>. QED
      BY <3>1, <3>2
  <2>3. ASSUME NEW i \in DOMAIN obj.sections, Dumped(obj.sections[i]),
               NEW off \in 0..Progress(i)' - 1
        PROVE  LoadedRight(i, off)'
    <3>1. i \in Int
      BY Sections DEF TypeInv
    <3>2. CASE i < sec
      <4>1. Progress(i)' = obj.sections[i].size
        BY <1>1, <3>2 DEF Progress
      <4>. QED
        BY <1>1, <2>1, <2>3, <3>2, <4>1 DEF OthersRight, Dumped
    <3>3. CASE i = sec
      <4>1. Progress(i)' = sz
        BY <1>1, <1>2, <3>3 DEF Progress, AtSectionEnd, Section
      <4>. QED
        BY <2>2, <2>3, <3>3, <4>1
    <3>4. CASE i > sec
      <4>1. Progress(i)' = 0
        BY <1>1, <3>1, <3>4 DEF Progress
      <4>. QED
        BY <4>1
    <3>. QED
      BY <3>1, <3>2, <3>3, <3>4
  <2>. QED
    BY <1>1, <2>1, <2>3 DEF ContentInv, Dumped
<1>. QED
  BY <1>1, <1>7, <1>8, <1>9 DEF HandledInv

\* What is known inside a text section: all its bytes are there and decode, and
\* the boundary is a word of it.
LEMMA TextFacts ==
  ASSUME TypeInv, HandledInv, FileHandled, InText
  PROVE  /\ sec > 0 /\ Dumped(Section) /\ Section.text /\ ~Section.nobits
         /\ Section.illegal = {} /\ ContentsSize = Section.size
         /\ Section.addr \in Nat /\ Section.addr % 4 = 0
         /\ Section.addr >= FirstAddr
         /\ Section.size \in Nat /\ Section.size % 4 = 0 /\ Section.size > 0
         /\ Boundary \in Nat /\ Boundary % 4 = 0 /\ Boundary <= Section.size
         /\ index \in Nat
<1>1. sec > 0 /\ Dumped(Section) /\ Section.text /\ index \in Nat
  BY DEF TypeInv, InText
<1>2. /\ ~Section.nobits /\ Section.illegal = {} /\ Section.addr % 4 = 0
      /\ Section.size % 4 = 0 /\ Section.size > 0 /\ Section.addr >= FirstAddr
  BY <1>1, HandledSection
<1>3. Section.addr \in Nat /\ Section.size \in Nat
  BY <1>1, SectionIs
<1>4. Boundary \in Nat /\ Boundary % 4 = 0 /\ Boundary <= Section.size
  <2>1. CASE todo = {}
    BY <1>2, <1>3, <2>1 DEF Boundary
  <2>2. CASE todo # {}
    <3>1. Min(todo) \in todo /\ todo \in SUBSET Nat
      BY <2>2, MinIs DEF TypeInv
    <3>2. Min(todo) % 4 = 0 /\ Min(todo) < Section.size
      BY <3>1 DEF HandledInv, SymbolsInv
    <3>3. Boundary = Min(todo)
      BY <2>2 DEF Boundary
    <3>4. PICK m \in Nat, n \in Nat : m = Min(todo) /\ n = Section.size
      BY <1>3, <3>1
    <3>5. m % 4 = 0 /\ m <= n
      BY <3>2, <3>4
    <3>. QED
      BY <3>3, <3>4, <3>5
  <2>. QED
    BY <2>1, <2>2
<1>5. ContentsSize = Section.size
  BY <1>2 DEF ContentsSize
<1>. QED
  BY <1>1, <1>2, <1>3, <1>4, <1>5

LEMMA WordsBelow ==
  ASSUME NEW m \in Nat, NEW n \in Nat, m % 4 = 0, n % 4 = 0
  PROVE  /\ m < n => m + 4 <= n
         /\ m <= n /\ m >= n - 1 => m = n
OBVIOUS

\* In front of the boundary there is another instruction.
LEMMA RoomForOne ==
  ASSUME TypeInv, HandledInv, FileHandled, pc = "disassemble", index < end
  PROVE  index + 4 <= Boundary /\ Decodes
<1>1. PICK m \in Nat, b \in Nat, s \in Nat :
        /\ m = index /\ b = Boundary /\ s = Section.size
        /\ b % 4 = 0 /\ b <= s /\ ContentsSize = s /\ Section.illegal = {}
  <2>1. InText
    BY DEF InText
  <2>. QED
    BY <2>1, TextFacts
<1>2. m % 4 = 0 /\ m < b
  <2>1. /\ index % 4 = 0
        /\ end = IF todo = {} THEN Section.size ELSE Min(todo) - 1
    BY DEF HandledInv, SymbolsInv
  <2>2. CASE todo = {}
    BY <1>1, <2>1, <2>2 DEF Boundary
  <2>3. CASE todo # {}
    <3>1. b = Min(todo) /\ end = b - 1
      BY <1>1, <2>1, <2>3 DEF Boundary
    <3>2. m < b - 1
      BY <1>1, <3>1
    <3>. QED
      BY <1>1, <2>1, <3>2
  <2>. QED
    BY <2>2, <2>3
<1>3. m + 4 <= b
  BY <1>1, <1>2, WordsBelow
<1>. QED
  BY <1>1, <1>3 DEF Decodes

LEMMA CollectStep ==
  ASSUME TypeInv, TypeInv', HandledInv, FileHandled, CollectSymbols
  PROVE  HandledInv'
<1> DEFINE own == {a \in Section.symbols : a < Section.size}
           all == symbols \cup own
<1>1. /\ obj' = obj /\ out' = out /\ lastDumpAddr' = lastDumpAddr /\ sec' = sec
      /\ pc = "collect" /\ pc' = "symbol" /\ sec > 0 /\ Dumped(Section) /\ Section.text
      /\ symbols' = (IF all = {} THEN {0} ELSE all) /\ todo' = symbols'
  BY DEF CollectSymbols, TypeInv
<1>2. /\ sec \in 1..Len(obj.sections) /\ sec \in DOMAIN obj.sections
      /\ Section.addr \in Nat /\ Section.size \in Nat /\ Section.size > 0
      /\ Section.symbols \in SUBSET Nat
  BY <1>1, SectionIs, Sections, HandledSection
<1>3. 0 \in symbols'
  <2>1. CASE all = {}
    BY <1>1, <2>1
  <2>2. CASE symbols # {}
    BY <1>1, <2>2 DEF HandledInv, SymbolsInv
  <2>3. CASE all # {} /\ symbols = {}
    <3>1. Section.symbols # {}
      BY <2>3
    <3>2. 0 \in Section.symbols
      BY <1>1, <1>2, <3>1 DEF FileHandled, SymbolAtStart, Section
    <3>3. 0 \in own
      BY <1>2, <3>2
    <3>. QED
      BY <1>1, <2>3, <3>3
  <2>. QED
    BY <2>1, <2>2, <2>3
<1>4. ASSUME NEW a \in symbols'
      PROVE  \/ a = 0
             \/ \E i \in 1..sec : /\ obj.sections[i].text /\ Dumped(obj.sections[i])
                                  /\ a \in obj.sections[i].symbols
                                  /\ a < obj.sections[i].size
  <2>1. CASE a \in symbols
    BY <2>1 DEF HandledInv, SymbolsInv
  <2>2. CASE a \in own
    <3>1. sec \in 1..sec
      BY <1>2
    <3>. QED
      BY <1>1, <2>2, <3>1 DEF Section
  <2>3. CASE a \notin all
    BY <1>1, <2>3
  <2>. QED
    BY <2>1, <2>2, <2>3
<1>5. ASSUME NEW a \in todo' PROVE a % 4 = 0 /\ a < Section.size
  <2>1. CASE a = 0
    BY <1>2, <2>1
  <2>2. CASE a # 0
    <3>1. PICK i \in 1..sec : /\ obj.sections[i].text /\ Dumped(obj.sections[i])
                              /\ a \in obj.sections[i].symbols
                              /\ a < obj.sections[i].size
      BY <1>1, <1>4, <2>2
    <3>2. i \in DOMAIN obj.sections /\ i \in Int /\ sec \in Int
      <4>1. DOMAIN obj.sections = 1..Len(obj.sections) /\ Len(obj.sections) \in Nat
        BY Sections, ObjectType DEF TypeInv
      <4>. QED
        BY <1>2, <4>1
    <3>3. a % 4 = 0
      BY <3>1, <3>2 DEF FileHandled, AllDecode
    <3>4. i < sec => a < Section.size
      BY <1>1, <1>2, <3>1, <3>2 DEF FileHandled, NoStaleSymbolBehind, Section
    <3>5. i = sec => a < Section.size
      BY <3>1 DEF Section
    <3>. QED
      BY <3>1, <3>2, <3>3, <3>4, <3>5
  <2>. QED
    BY <2>1, <2>2
<1>. HIDE DEF own, all
<1>6. NextByte' = 0
  <2>1. todo' # {} /\ todo' \in SUBSET Nat /\ 0 \in todo'
    BY <1>1, <1>3 DEF TypeInv
  <2>2. Min(todo') \in Nat /\ Min(todo') <= 0
    BY <2>1, MinIs
  <2>. QED
    BY <1>1, <2>1, <2>2 DEF NextByte, Boundary
<1>7. PositionInv'
  <2>1. lastDumpAddr <= Section.addr
    BY <1>1, <1>2 DEF HandledInv, PositionInv, Section
  <2>. QED
    BY <1>1, <1>6, <2>1 DEF HandledInv, PositionInv, InText, Dumped, Section
<1>8. SymbolsInv'
  BY <1>1, <1>3, <1>4, <1>5 DEF SymbolsInv, InText, Dumped, Section
<1>9. ContentInv'
  <2>1. \A i \in DOMAIN obj.sections : i \in Int
    BY Sections DEF TypeInv
  <2>2. \A i \in DOMAIN obj.sections : Progress(i)' = IF i < sec THEN obj.sections[i].size ELSE 0
    BY <1>1, <1>6, <2>1 DEF Progress, AtSectionEnd
  <2>3. \A i \in DOMAIN obj.sections : i < sec => Progress(i) = obj.sections[i].size
    BY DEF Progress
  <2>4. ASSUME NEW i \in DOMAIN obj.sections, Dumped(obj.sections[i]),
               NEW off \in 0..Progress(i)' - 1
        PROVE  LoadedRight(i, off)
    <3>1. CASE i < sec
      BY <2>2, <2>3, <2>4, <3>1 DEF HandledInv, ContentInv
    <3>2. CASE ~(i < sec)
      <4>1. Progress(i)' = 0
        BY <2>2, <3>2
      <4>. QED
        BY <4>1
    <3>. QED
      BY <3>1, <3>2
  <2>5. \A k \in 1..BootSize : out'[k] = BootSection(obj')[k]
    BY <1>1 DEF HandledInv, ContentInv
  <2>. QED
    BY <1>1, <2>4, <2>5, SameImage DEF ContentInv, Dumped
<1>. QED
  BY <1>1, <1>7, <1>8, <1>9 DEF HandledInv

\* A step that prints nothing and moves from one boundary to the same.
LEMMA SameContent ==
  ASSUME TypeInv, HandledInv, obj' = obj, out' = out, pc # "construct", sec' = sec,
         Progress(sec)' = Progress(sec)
  PROVE  ContentInv'
<1>1. \A i \in DOMAIN obj.sections : i \in Int
  BY Sections DEF TypeInv
<1>2. sec \in Int
  BY ObjectType DEF TypeInv
<1>3. ASSUME NEW i \in DOMAIN obj.sections PROVE Progress(i)' = Progress(i)
  <2>1. CASE i = sec
    BY <2>1 DEF Progress
  <2>2. CASE i # sec
    BY <1>1, <1>2, <2>2 DEF Progress
  <2>. QED
    BY <2>1, <2>2
<1>4. \A k \in 1..BootSize : out'[k] = BootSection(obj')[k]
  BY DEF HandledInv, ContentInv
<1>. QED
  BY <1>3, <1>4, SameImage DEF HandledInv, ContentInv, Dumped

LEMMA NextSymbolStep ==
  ASSUME TypeInv, TypeInv', HandledInv, FileHandled, NextSymbol
  PROVE  HandledInv'
<1>1. /\ obj' = obj /\ out' = out /\ lastDumpAddr' = lastDumpAddr /\ sec' = sec
      /\ symbols' = symbols /\ pc = "symbol" /\ Section' = Section
  BY DEF NextSymbol, Section
<1>2. InText /\ ~AtSectionEnd /\ sec \in Int
  BY <1>1, ObjectType DEF InText, AtSectionEnd, TypeInv
<1>3. NextByte = Boundary
  BY <1>1 DEF NextByte
<1>4. CASE todo = {}
  <2>1. pc' = "section" /\ ~InText' /\ AtSectionEnd'
    BY <1>4 DEF NextSymbol, InText, AtSectionEnd
  <2>2. NextByte = Section.size
    BY <1>3, <1>4 DEF Boundary
  <2>3. PositionInv'
    BY <1>1, <2>1 DEF HandledInv, PositionInv, Dumped
  <2>4. SymbolsInv'
    BY <1>1, <2>1 DEF HandledInv, SymbolsInv, Dumped
  <2>5. Progress(sec)' = Section.size
    BY <1>1, <2>1 DEF Progress, Section
  <2>6. Progress(sec) = Section.size
    BY <1>2, <2>2 DEF Progress
  <2>7. ContentInv'
    BY <1>1, <2>5, <2>6, SameContent
  <2>. QED
    BY <2>1, <2>3, <2>4, <2>7 DEF HandledInv
<1>5. CASE todo # {}
  <2>1. /\ pc' = "disassemble" /\ index' = Min(todo) /\ todo' = todo \ {Min(todo)}
        /\ end' = IF todo' = {} THEN Section.size ELSE Min(todo') - 1
        /\ InText' /\ ~AtSectionEnd'
    BY <1>5 DEF NextSymbol, InText, AtSectionEnd
  <2>2. NextByte = Min(todo) /\ NextByte' = Min(todo)
    BY <1>3, <1>5, <2>1 DEF Boundary, NextByte
  <2>3. /\ todo \in SUBSET Nat /\ Min(todo) \in todo
        /\ \A n \in todo : Min(todo) <= n
    BY <1>5, MinIs DEF TypeInv
  <2>4. PositionInv'
    BY <1>1, <1>2, <2>1, <2>2 DEF HandledInv, PositionInv, Dumped
  <2>5. index' % 4 = 0
    BY <1>2, <2>1, <2>3 DEF HandledInv, SymbolsInv
  <2>6. index' <= Boundary'
    <3>1. CASE todo' = {}
      <4>1. Boundary' = Section.size
        BY <1>1, <3>1 DEF Boundary
      <4>2. Min(todo) < Section.size /\ Min(todo) \in Nat /\ Section.size \in Nat
        BY <1>2, <2>3, TextFacts DEF HandledInv, SymbolsInv
      <4>. QED
        BY <2>1, <4>1, <4>2
    <3>2. CASE todo' # {}
      <4>1. Min(todo') \in todo'
        BY <2>1, <2>3, <3>2, MinIs
      <4>2. Boundary' = Min(todo')
        BY <3>2 DEF Boundary
      <4>. QED
        BY <2>1, <2>3, <4>1, <4>2
    <3>. QED
      BY <3>1, <3>2
  <2>7. SymbolsInv'
    <3>1. todo' \subseteq todo
      BY <2>1
    <3>2. end' = IF todo' = {} THEN Section'.size ELSE Min(todo') - 1
      BY <1>1, <2>1
    <3>3. \A a \in todo' : a % 4 = 0 /\ a < Section'.size
      BY <1>1, <1>2, <3>1 DEF HandledInv, SymbolsInv
    <3>. QED
      BY <1>1, <2>5, <2>6, <3>2, <3>3 DEF HandledInv, SymbolsInv, Dumped
  <2>8. Progress(sec)' = Min(todo)
    BY <1>1, <1>2, <2>1, <2>2 DEF Progress
  <2>9. Progress(sec) = Min(todo)
    BY <1>2, <2>2 DEF Progress
  <2>10. ContentInv'
    BY <1>1, <2>8, <2>9, SameContent
  <2>. QED
    BY <2>1, <2>4, <2>7, <2>10 DEF HandledInv
<1>. QED
  BY <1>4, <1>5

\* At its end the tool stands at the boundary: also in front of a symbol, where
\* End is the byte before it.
LEMMA EndSymbolStep ==
  ASSUME TypeInv, TypeInv', HandledInv, FileHandled, EndSymbol
  PROVE  HandledInv'
<1>1. /\ obj' = obj /\ out' = out /\ lastDumpAddr' = lastDumpAddr /\ sec' = sec
      /\ symbols' = symbols /\ todo' = todo /\ Section' = Section
      /\ pc = "disassemble" /\ pc' = "symbol" /\ index >= end
  BY DEF EndSymbol, Section
<1>2. InText /\ InText' /\ ~AtSectionEnd /\ ~AtSectionEnd' /\ sec \in Int
  BY <1>1, ObjectType DEF InText, AtSectionEnd, TypeInv
<1>3. index = Boundary
  <2>1. PICK m \in Nat, b \in Nat : /\ m = index /\ b = Boundary /\ b % 4 = 0
    BY <1>2, TextFacts
  <2>2. /\ m % 4 = 0 /\ m <= b
        /\ end = IF todo = {} THEN Section.size ELSE Min(todo) - 1
    BY <1>1, <2>1 DEF HandledInv, SymbolsInv
  <2>3. end = IF todo = {} THEN b ELSE b - 1
    BY <2>1, <2>2 DEF Boundary
  <2>4. m >= b - 1
    BY <1>1, <2>1, <2>3
  <2>. QED
    BY <2>1, <2>2, <2>4, WordsBelow
<1>4. NextByte = index /\ NextByte' = index
  BY <1>1, <1>3 DEF NextByte, Boundary
<1>5. PositionInv'
  BY <1>1, <1>2, <1>4 DEF HandledInv, PositionInv, Dumped
<1>6. SymbolsInv'
  BY <1>1, <1>2 DEF HandledInv, SymbolsInv, Dumped
<1>7. Progress(sec)' = index
  BY <1>1, <1>2, <1>4 DEF Progress
<1>8. Progress(sec) = index
  BY <1>2, <1>4 DEF Progress
<1>9. ContentInv'
  BY <1>1, <1>7, <1>8, SameContent
<1>. QED
  BY <1>1, <1>5, <1>6, <1>9 DEF HandledInv

LEMMA InstructionStep ==
  ASSUME TypeInv, TypeInv', HandledInv, FileHandled, PrintInstruction
  PROVE  HandledInv'
<1> DEFINE blk == [k \in 1..4 |-> Byte(sec, index + k - 1)]
<1>1. /\ obj' = obj /\ sec' = sec /\ symbols' = symbols /\ todo' = todo
      /\ Section' = Section /\ end' = end
      /\ pc = "disassemble" /\ pc' = "disassemble" /\ index < end
      /\ index' = index + 4 /\ lastDumpAddr' = Section.addr + index + 4
      /\ out' = out \o GapBefore \o blk
  BY DEF PrintInstruction, Section, DumpAddrAfter
<1>2. /\ InText /\ InText' /\ ~AtSectionEnd /\ ~AtSectionEnd' /\ sec > 0
      /\ Dumped(Section)
  BY <1>1 DEF InText, AtSectionEnd, TypeInv
<1>3. PICK a \in Nat, sz \in Nat, p \in Nat, l \in Nat, m \in Nat, b \in Nat, s \in Nat :
        /\ a = Section.addr /\ sz = Section.size /\ p = AddrAfterGap
        /\ l = lastDumpAddr /\ m = index /\ b = Boundary /\ s = sec
        /\ a % 4 = 0 /\ ~Section.nobits /\ b <= sz /\ a >= FirstAddr
  <2>1. sec \in Nat
    BY ObjectType DEF TypeInv
  <2>. QED
    BY <1>2, <2>1, TextFacts, GapType DEF TypeInv
<1>4. m % 4 = 0 /\ m + 4 <= b /\ b = Boundary'
  BY <1>1, <1>3, RoomForOne DEF HandledInv, SymbolsInv, Boundary
<1>5. p = a + m
  <2>1. NextByte = m
    BY <1>1, <1>3 DEF NextByte
  <2>2. IF m = 0 THEN l <= a ELSE l = a + m
    BY <1>2, <1>3, <2>1 DEF HandledInv, PositionInv
  <2>3. p = IF l < a THEN a ELSE l
    BY <1>3 DEF AddrAfterGap
  <2>4. CASE m = 0
    <3>1. l <= a
      BY <2>2, <2>4
    <3>2. p = a
      BY <2>3, <3>1
    <3>. QED
      BY <2>4, <3>2
  <2>5. CASE m # 0
    <3>1. l = a + m
      BY <2>2, <2>5
    <3>. QED
      BY <2>3, <3>1
  <2>. QED
    BY <2>4, <2>5
<1>6. Printed(out', p, blk, 4)
  <2>1. PositionInv /\ Section.addr % 4 = 0
    BY <1>3 DEF HandledInv
  <2>2. blk \in Seq(Bytes) /\ Len(blk) = 4
    BY <1>3 DEF Byte, Bytes
  <2>. HIDE DEF blk
  <2>. QED
    BY <1>1, <1>2, <1>3, <2>1, <2>2, PrintedIs
<1>7. NextByte' = m + 4
  BY <1>1, <1>3 DEF NextByte
<1>8. PositionInv'
  <2>1. Len(out') = lastDumpAddr' /\ lastDumpAddr' % 4 = 0 /\ lastDumpAddr' >= FirstAddr
    <3>1. (a + m + 4) % 4 = 0 /\ a + m + 4 >= FirstAddr
      BY <1>3, <1>4, BootZeros
    <3>. QED
      BY <1>1, <1>3, <1>5, <1>6, <3>1 DEF Printed
  <2>2. ASSUME NEW j \in DOMAIN obj.sections, j > sec, Dumped(obj.sections[j])
        PROVE  lastDumpAddr' <= obj.sections[j].addr
    <3>1. /\ j \in 1..Len(obj.sections) /\ sec \in 1..Len(obj.sections)
          /\ obj \in Objects /\ Dumped(Section)
      BY <1>2, TextFacts, Sections, SectionIs
    <3>2. obj.sections[j].addr \in Nat
      BY <3>1, SectionFields
    <3>3. a + sz <= obj.sections[j].addr
      BY <1>3, <2>2, <3>1, SectionsApart DEF Section
    <3>4. PICK aj \in Nat : aj = obj.sections[j].addr
      BY <3>2
    <3>5. a + m + 4 <= aj
      BY <1>3, <1>4, <3>3, <3>4
    <3>. QED
      BY <1>1, <1>3, <3>4, <3>5
  <2>3. m + 4 # 0 /\ lastDumpAddr' = a + (m + 4)
    BY <1>1, <1>3
  <2>. QED
    BY <1>1, <1>2, <1>3, <1>7, <2>1, <2>2, <2>3 DEF PositionInv, Dumped
<1>9. SymbolsInv'
  <2>1. index' % 4 = 0 /\ index' <= Boundary'
    BY <1>1, <1>3, <1>4
  <2>. QED
    BY <1>1, <1>2, <2>1 DEF HandledInv, SymbolsInv, Dumped
<1>10. ContentInv'
  <2>1. /\ OthersRight'
        /\ \A k \in 1..BootSize : out'[k] = BootSection(obj')[k]
    BY <1>1, <1>2, <1>3, <1>6, ExtendedImage
  <2>2. s \in DOMAIN obj.sections /\ Dumped(obj.sections[s])
    BY <1>2, <1>3, SectionIs, Sections, TextFacts DEF Section
  <2>3. ASSUME NEW off \in 0..m + 3 PROVE LoadedRight(s, off)'
    <3>1. CASE off < m
      <4>1. Progress(s) = m
        BY <1>1, <1>2, <1>3 DEF Progress, NextByte
      <4>2. LoadedRight(s, off)
        BY <2>2, <3>1, <4>1 DEF HandledInv, ContentInv
      <4>3. PositionInv /\ Section.addr % 4 = 0 /\ ~obj.sections[s].nobits
        BY <1>3 DEF HandledInv, Section
      <4>. QED
        BY <1>1, <1>2, <1>3, <1>6, <2>2, <4>2, <4>3, RightStays
    <3>2. CASE off >= m
      <4>1. off - m + 1 \in 1..4 /\ m + (off - m + 1) - 1 = off
        BY <3>2
      <4>2. blk[off - m + 1] = Byte(s, off)
        <5>1. blk[off - m + 1] = Byte(sec, m + (off - m + 1) - 1)
          BY <1>3, <4>1
        <5>. QED
          BY <1>3, <4>1, <5>1
      <4>. HIDE DEF blk
      <4>3. out'[p + (off - m + 1)] = Byte(s, off)
        BY <1>6, <4>1, <4>2 DEF Printed
      <4>4. Loaded(a + off)' = out'[p + (off - m + 1)]
        <5>1. Len(out') = a + m + 4 /\ a + off < a + m + 4
              /\ (a + off) + 1 = p + (off - m + 1)
          BY <1>5, <1>6 DEF Printed
        <5>. QED
          BY <5>1 DEF Loaded
      <4>. QED
        BY <1>1, <1>3, <4>3, <4>4 DEF LoadedRight, Section
    <3>. QED
      BY <3>1, <3>2
  <2>4. ASSUME NEW i \in DOMAIN obj.sections, Dumped(obj.sections[i]),
               NEW off \in 0..Progress(i)' - 1
        PROVE  LoadedRight(i, off)'
    <3>1. i \in Int
      BY Sections DEF TypeInv
    <3>2. CASE i < sec
      <4>1. Progress(i)' = obj.sections[i].size
        BY <1>1, <3>2 DEF Progress
      <4>. QED
        BY <1>1, <2>1, <2>4, <3>2, <4>1 DEF OthersRight, Dumped
    <3>3. CASE i = sec
      <4>1. Progress(i)' = m + 4
        BY <1>1, <1>2, <1>3, <1>7, <3>3 DEF Progress
      <4>2. i = s /\ off \in 0..m + 3
        BY <1>3, <2>4, <3>3, <4>1
      <4>. QED
        BY <2>3, <4>2
    <3>4. CASE i > sec
      <4>1. Progress(i)' = 0
        BY <1>1, <1>3, <3>1, <3>4 DEF Progress
      <4>. QED
        BY <4>1
    <3>. QED
      BY <1>3, <3>1, <3>2, <3>3, <3>4
  <2>. QED
    BY <1>1, <2>1, <2>4 DEF ContentInv, Dumped
<1>. QED
  BY <1>1, <1>8, <1>9, <1>10 DEF HandledInv

LEMMA HandledStep ==
  ASSUME TypeInv, TypeInv', FileHandled, HandledInv, [Next]_vars
  PROVE  HandledInv'
<1>1. CASE Construct
  BY <1>1, ConstructStep
<1>2. CASE NextSection
  BY <1>2, NextSectionStep
<1>3. CASE Finish
  BY <1>3, FinishStep
<1>4. CASE ProcessDataSection
  BY <1>4, DataSectionStep
<1>5. CASE CollectSymbols
  BY <1>5, CollectStep
<1>6. CASE NextSymbol
  BY <1>6, NextSymbolStep
<1>7. CASE EndSymbol
  BY <1>7, EndSymbolStep
<1>8. CASE PrintInstruction
  BY <1>8, InstructionStep
<1>9. CASE SkipIllegible
  BY <1>9, RoomForOne DEF SkipIllegible
<1>10. CASE SliceBehindEnd
  <2>1. pc = "disassemble" /\ index < end /\ index > ContentsSize
    BY <1>10 DEF SliceBehindEnd
  <2>2. PICK m \in Nat, c \in Nat : m = index /\ c = ContentsSize
    BY <2>1, TextFacts DEF InText
  <2>3. m + 4 <= c
    BY <2>1, <2>2, RoomForOne DEF Decodes
  <2>. QED
    BY <2>1, <2>2, <2>3
<1>11. CASE UNCHANGED vars
  <2>. USE <1>11 DEF vars
  <2>1. PositionInv'
    BY DEF HandledInv, PositionInv, InText, Dumped, NextByte, Boundary, Section
  <2>2. SymbolsInv'
    BY DEF HandledInv, SymbolsInv, InText, Dumped, Boundary, Section
  <2>3. CASE pc = "construct"
    <3>1. \A i : Progress(i)' = Progress(i)
      BY DEF Progress, AtSectionEnd, InText, NextByte, Boundary, Section
    <3>2. pc' = "construct"
      BY <2>3
    <3>3. ContentInv'
      BY <3>1, <3>2, SameImage DEF HandledInv, ContentInv, Dumped
    <3>. QED
      BY <2>1, <2>2, <3>2, <3>3 DEF HandledInv
  <2>4. CASE pc # "construct"
    <3>1. Progress(sec)' = Progress(sec)
      BY DEF Progress, AtSectionEnd, InText, NextByte, Boundary, Section
    <3>2. ContentInv'
      BY <2>4, <3>1, SameContent
    <3>. QED
      BY <2>1, <2>2, <3>2 DEF HandledInv
  <2>. QED
    BY <2>3, <2>4
<1>. QED
  BY <1>1, <1>2, <1>3, <1>4, <1>5, <1>6, <1>7, <1>8, <1>9, <1>10, <1>11 DEF Next

-----------------------------------------------------------------------------
(***************************************************************************)
(* The theorems.                                                           *)
(***************************************************************************)

(***************************************************************************)
(* The invariant holds in every reachable state (VerilogHex and            *)
(* DisassembleObject of elf2hex.cpp): lastDumpAddr is the number of bytes  *)
(* printed, and every byte behind the tool is at its address.              *)
(***************************************************************************)
THEOREM Invariant == Spec => []IInv
<1>1. Init => IInv
  BY InitTypes, InitHandled DEF IInv
<1>2. IInv /\ [Next]_vars => IInv'
  <2>. SUFFICES ASSUME IInv, [Next]_vars PROVE IInv'
    OBVIOUS
  <2>1. TypeInv'
    BY TypeStep DEF IInv
  <2>2. obj' = obj
    BY DEF Next, vars, Construct, NextSection, Finish, ProcessDataSection,
           CollectSymbols, NextSymbol, EndSymbol, PrintInstruction,
           SkipIllegible, SliceBehindEnd
  <2>3. FileHandled' => HandledInv'
    BY <2>1, <2>2, FileStays, HandledStep DEF IInv
  <2>. QED
    BY <2>1, <2>3 DEF IInv
<1>. QED
  BY <1>1, <1>2, PTL DEF Spec

LEMMA Vectors ==
  ASSUME TypeInv, FileHandled, HandledInv, pc # "construct"
  PROVE  VectorsLoaded
<1>1. obj \in Objects /\ TextOffset(obj) \in Nat /\ obj.isr \in Nat
  BY ObjectType, TextOffsetType DEF TypeInv
<1>2. \A k \in 1..BootSize : out[k] = BootSection(obj)[k]
  BY DEF HandledInv, ContentInv
<1>3. JmpField \in Int /\ JmpField >= 100
  BY DEF JmpField
<1>4. 2 * (TextOffset(obj) - 4) < JmpField /\ 2 * (obj.isr - 12) < JmpField
  BY DEF FileHandled, VectorsInReach
<1>5. JmpTarget(4 * 0) = 4 * 0 + 4 + (TextOffset(obj) - 4)
  <2>1. PICK o \in Int : o = TextOffset(obj) - 4 /\ o >= -4
    BY <1>1
  <2>2. o = VectorOffset(obj, 0) /\ 2 * o < JmpField /\ -JmpField <= 2 * o
    BY <1>3, <1>4, <2>1 DEF VectorOffset
  <2>. QED
    BY <1>1, <1>2, <2>1, <2>2, JumpRead
<1>6. JmpTarget(4 * 1) = 4 * 1 + 4 + 4
  <2>1. 4 = VectorOffset(obj, 1) /\ 2 * 4 < JmpField /\ -JmpField <= 2 * 4
    BY <1>3 DEF VectorOffset
  <2>. QED
    BY <1>1, <1>2, <2>1, JumpRead
<1>7. JmpTarget(4 * 2) = 4 * 2 + 4 + (obj.isr - 12)
  <2>1. PICK o \in Int : o = obj.isr - 12 /\ o >= -12 /\ o = obj.isr - 8 - 4
    BY <1>1
  <2>2. o = VectorOffset(obj, 2) /\ 2 * o < JmpField /\ -JmpField <= 2 * o
    BY <1>3, <1>4, <2>1 DEF VectorOffset
  <2>. QED
    BY <1>1, <1>2, <2>1, <2>2, JumpRead
<1>8. JmpTarget(4 * 3) = 4 * 3 + 4 + (-4)
  <2>1. -4 \in Int /\ -4 = VectorOffset(obj, 3) /\ 2 * (-4) < JmpField
        /\ -JmpField <= 2 * (-4)
    BY <1>3 DEF VectorOffset
  <2>. QED
    BY <1>1, <1>2, <2>1, JumpRead
<1>9. /\ JmpTarget(0) = TextOffset(obj) /\ JmpTarget(4) = 12
      /\ JmpTarget(8) = obj.isr /\ JmpTarget(12) = 12
  <2>1. /\ 4 * 0 = 0 /\ 4 * 1 = 4 /\ 4 * 2 = 8 /\ 4 * 3 = 12
    OBVIOUS
  <2>. QED
    BY <1>1, <1>5, <1>6, <1>7, <1>8, <2>1
<1>. QED
  BY <1>9 DEF VectorsLoaded, TextOffset

(***************************************************************************)
(* For every file that is handled, whatever its sections and symbols, the  *)
(* finished image has every byte of every section at its address and the   *)
(* four vectors jump where they must (elf2hex.cpp).                        *)
(***************************************************************************)
THEOREM ImageRight == Spec => []ImageFaithful
<1>1. IInv => ImageFaithful
  <2>. SUFFICES ASSUME IInv, pc \in {"done", "undefined"}, FileHandled
                PROVE  pc = "done" /\ SectionsLoaded /\ VectorsLoaded
    BY DEF ImageFaithful
  <2>1. TypeInv /\ HandledInv /\ pc = "done"
    BY DEF IInv, HandledInv
  <2>2. VectorsLoaded
    BY <2>1, Vectors
  <2>3. ASSUME NEW i \in DOMAIN obj.sections, Dumped(obj.sections[i]),
               NEW off \in 0..obj.sections[i].size - 1
        PROVE  LoadedRight(i, off)
    <3>1. DOMAIN obj.sections = 1..Len(obj.sections) /\ Len(obj.sections) \in Nat
          /\ sec = Len(obj.sections)
      BY <2>1, Sections, ObjectType DEF TypeInv
    <3>2. Progress(i) = obj.sections[i].size
      BY <2>1, <3>1 DEF Progress, AtSectionEnd
    <3>. QED
      BY <2>1, <2>3, <3>2 DEF HandledInv, ContentInv
  <2>4. SectionsLoaded
    BY <2>3 DEF SectionsLoaded, LoadedRight
  <2>. QED
    BY <2>1, <2>2, <2>4
<1>. QED
  BY <1>1, Invariant, PTL

-----------------------------------------------------------------------------
(***************************************************************************)
(* No step can be repeated for ever.  What is left to do is the sections   *)
(* behind sec, what remains of the present one, the symbols still to       *)
(* disassemble, and the bytes of the present symbol, in this order.        *)
(***************************************************************************)
Stage == CASE pc = "construct" -> 4
           [] pc = "collect" -> 3
           [] pc \in {"data", "symbol", "disassemble"} -> 2
           [] pc = "section" -> 1
           [] OTHER -> 0

SectionsLeft == Len(obj.sections) - sec
InSymbol == IF pc = "disassemble" THEN 1 ELSE 0
BytesLeft == IF pc = "disassemble" /\ index < end THEN end - index ELSE 0

Left == <<SectionsLeft, Stage, Cardinality(todo), InSymbol, BytesLeft>>

LeavesLess == <<Left', Left>> \in TupleOrder(5)

FiniteInv == IsFiniteSet(symbols) /\ IsFiniteSet(todo)

LeftType ==
  /\ SectionsLeft \in Nat /\ Stage \in Nat /\ Cardinality(todo) \in Nat
  /\ InSymbol \in Nat /\ BytesLeft \in Nat

LEMMA LowerFive ==
  ASSUME NEW a \in Nat, NEW b \in Nat, NEW c \in Nat, NEW d \in Nat, NEW e \in Nat,
         NEW p \in Nat, NEW q \in Nat, NEW r \in Nat, NEW s \in Nat, NEW t \in Nat,
         \/ p < a
         \/ p = a /\ q < b
         \/ p = a /\ q = b /\ r < c
         \/ p = a /\ q = b /\ r = c /\ s < d
         \/ p = a /\ q = b /\ r = c /\ s = d /\ t < e
  PROVE  << <<p, q, r, s, t>>, <<a, b, c, d, e>> >> \in TupleOrder(5)
<1> DEFINE f == <<p, q, r, s, t>>
           g == <<a, b, c, d, e>>
<1>1. f \in [1..5 -> Nat] /\ g \in [1..5 -> Nat]
  OBVIOUS
<1>2. /\ f[1] = p /\ f[2] = q /\ f[3] = r /\ f[4] = s /\ f[5] = t
      /\ g[1] = a /\ g[2] = b /\ g[3] = c /\ g[4] = d /\ g[5] = e
  OBVIOUS
<1>. HIDE DEF f, g
<1>3. \E j \in 1..5 : f[j] < g[j] /\ \A i \in 1..(j - 1) : f[i] = g[i]
  <2>1. CASE p < a
    <3>. 1 \in 1..5 /\ \A i \in 1..(1 - 1) : f[i] = g[i]
      OBVIOUS
    <3>. QED
      BY <1>2, <2>1
  <2>2. CASE p = a /\ q < b
    <3>. 2 \in 1..5 /\ \A i \in 1..(2 - 1) : i = 1
      OBVIOUS
    <3>. QED
      BY <1>2, <2>2
  <2>3. CASE p = a /\ q = b /\ r < c
    <3>. 3 \in 1..5 /\ \A i \in 1..(3 - 1) : i = 1 \/ i = 2
      OBVIOUS
    <3>. QED
      BY <1>2, <2>3
  <2>4. CASE p = a /\ q = b /\ r = c /\ s < d
    <3>. 4 \in 1..5 /\ \A i \in 1..(4 - 1) : i = 1 \/ i = 2 \/ i = 3
      OBVIOUS
    <3>. QED
      BY <1>2, <2>4
  <2>5. CASE p = a /\ q = b /\ r = c /\ s = d /\ t < e
    <3>. 5 \in 1..5 /\ \A i \in 1..(5 - 1) : i = 1 \/ i = 2 \/ i = 3 \/ i = 4
      OBVIOUS
    <3>. QED
      BY <1>2, <2>5
  <2>. QED
    BY <2>1, <2>2, <2>3, <2>4, <2>5
<1>4. <<f, g>> \in TupleOrder(5)
  BY <1>1, <1>3, LowerTuple
<1>. QED
  BY <1>4 DEF f, g

LEMMA FiniteStep == TypeInv /\ FiniteInv /\ [Next]_vars => FiniteInv'
<1>. SUFFICES ASSUME TypeInv, FiniteInv, [Next]_vars PROVE FiniteInv'
  OBVIOUS
<1>1. CASE CollectSymbols
  <2> DEFINE new == {a \in Section.symbols : a < Section.size}
  <2>1. /\ symbols' = IF symbols \cup new = {} THEN {0} ELSE symbols \cup new
        /\ todo' = symbols' /\ pc = "collect"
    BY <1>1 DEF CollectSymbols
  <2>2. PICK n \in Nat : n = Section.size /\ Section.symbols \in SUBSET Nat
    BY <2>1, SectionIs DEF TypeInv
  <2>3. IsFiniteSet(new)
    <3>1. new \in SUBSET Nat /\ \A a \in new : a <= n
      BY <2>2
    <3>. HIDE DEF new
    <3>. QED
      BY <2>2, <3>1, FS_BoundedSetOfNaturals
  <2>. HIDE DEF new
  <2>4. IsFiniteSet(symbols \cup new) /\ IsFiniteSet({0})
    BY <2>3, FS_Union, FS_Singleton DEF FiniteInv
  <2>. QED
    BY <2>1, <2>4 DEF FiniteInv
<1>2. CASE NextSymbol
  <2>1. symbols' = symbols /\ (todo' = todo \/ todo' = todo \ {Min(todo)})
    BY <1>2 DEF NextSymbol
  <2>. QED
    BY <2>1, FS_RemoveElement DEF FiniteInv
<1>3. CASE symbols' = symbols /\ todo' = todo
  BY <1>3 DEF FiniteInv
<1>. QED
  BY <1>1, <1>2, <1>3 DEF Next, vars, Construct, NextSection, Finish,
     ProcessDataSection, EndSymbol, PrintInstruction, SkipIllegible, SliceBehindEnd

LEMMA LeftTyped == TypeInv /\ FiniteInv => LeftType
<1>. SUFFICES ASSUME TypeInv, FiniteInv PROVE LeftType
  OBVIOUS
<1>1. Len(obj.sections) \in Nat /\ sec \in 0..Len(obj.sections)
  BY ObjectType DEF TypeInv
<1>2. SectionsLeft \in Nat
  BY <1>1 DEF SectionsLeft
<1>3. Stage \in Nat
  BY DEF Stage
<1>4. Cardinality(todo) \in Nat
  BY FS_CardinalityType DEF FiniteInv
<1>5. index \in Int /\ end \in Int
  BY DEF TypeInv
<1>6. InSymbol \in Nat /\ BytesLeft \in Nat
  BY <1>5 DEF InSymbol, BytesLeft
<1>. QED
  BY <1>2, <1>3, <1>4, <1>6 DEF LeftType

LEMMA StepLowers ==
  ASSUME TypeInv, TypeInv', FiniteInv, LeftType, LeftType', Next
  PROVE  <<Left', Left>> \in TupleOrder(5)
<1>. SUFFICES \/ SectionsLeft' < SectionsLeft
              \/ SectionsLeft' = SectionsLeft /\ Stage' < Stage
              \/ /\ SectionsLeft' = SectionsLeft /\ Stage' = Stage
                 /\ Cardinality(todo') < Cardinality(todo)
              \/ /\ SectionsLeft' = SectionsLeft /\ Stage' = Stage
                 /\ Cardinality(todo') = Cardinality(todo) /\ InSymbol' < InSymbol
              \/ /\ SectionsLeft' = SectionsLeft /\ Stage' = Stage
                 /\ Cardinality(todo') = Cardinality(todo) /\ InSymbol' = InSymbol
                 /\ BytesLeft' < BytesLeft
  BY LowerFive DEF Left, LeftType
<1>2. CASE Construct
  BY <1>2 DEF Construct, Stage, SectionsLeft
<1>3. CASE NextSection
  <2>1. PICK n \in Int, i \in Int : n = Len(obj.sections) /\ i = sec
    BY ObjectType DEF TypeInv
  <2>. QED
    BY <1>3, <2>1 DEF NextSection, SectionsLeft
<1>4. CASE Finish
  BY <1>4 DEF Finish, Stage, SectionsLeft
<1>5. CASE ProcessDataSection
  BY <1>5 DEF ProcessDataSection, Stage, SectionsLeft
<1>6. CASE CollectSymbols
  BY <1>6 DEF CollectSymbols, Stage, SectionsLeft
<1>7. CASE NextSymbol
  <2>1. CASE todo = {}
    BY <1>7, <2>1 DEF NextSymbol, Stage, SectionsLeft
  <2>2. CASE todo # {}
    <3>1. todo' = todo \ {Min(todo)} /\ Min(todo) \in todo
      BY <1>7, <2>2, MinIs DEF NextSymbol, TypeInv
    <3>2. PICK n \in Int : n = Cardinality(todo) /\ Cardinality(todo') = n - 1
      <4>1. PICK a : a = Min(todo) /\ a \in todo /\ todo' = todo \ {a}
        BY <3>1
      <4>2. IsFiniteSet(todo) /\ Cardinality(todo) \in Int
        BY DEF FiniteInv, LeftType
      <4>3. Cardinality(todo \ {a}) = Cardinality(todo) - 1
        BY <4>1, <4>2, FS_RemoveElement
      <4>. QED
        BY <4>1, <4>2, <4>3
    <3>3. SectionsLeft' = SectionsLeft /\ Stage' = Stage
      BY <1>7, <2>2 DEF NextSymbol, Stage, SectionsLeft
    <3>. QED
      BY <3>2, <3>3
  <2>. QED
    BY <2>1, <2>2
<1>8. CASE EndSymbol
  BY <1>8 DEF EndSymbol, Stage, SectionsLeft, InSymbol
<1>9. ASSUME pc = "disassemble", index < end, index' > index,
             UNCHANGED <<obj, sec, todo, end, pc>>
      PROVE  /\ SectionsLeft' = SectionsLeft /\ Stage' = Stage
             /\ Cardinality(todo') = Cardinality(todo) /\ InSymbol' = InSymbol
             /\ BytesLeft' < BytesLeft
  <2>1. PICK m \in Int, n \in Int, e \in Int : m = index /\ n = index' /\ e = end
    BY DEF TypeInv
  <2>2. BytesLeft = e - m
    BY <1>9, <2>1 DEF BytesLeft
  <2>3. BytesLeft' = IF n < e THEN e - n ELSE 0
    BY <1>9, <2>1 DEF BytesLeft
  <2>4. m < e /\ m < n
    BY <1>9, <2>1
  <2>5. (IF n < e THEN e - n ELSE 0) < e - m
    BY <2>4
  <2>6. BytesLeft' < BytesLeft
    BY <2>2, <2>3, <2>5
  <2>. QED
    BY <1>9, <2>6 DEF Stage, SectionsLeft, InSymbol
<1>10. CASE PrintInstruction
  <2>1. index' > index
    BY <1>10 DEF PrintInstruction, TypeInv
  <2>. QED
    BY <1>9, <1>10, <2>1 DEF PrintInstruction
<1>11. CASE SkipIllegible
  <2>1. size' \in SizesAfterFailure /\ index' = index + size'
    BY <1>11 DEF SkipIllegible
  <2>2. \A n \in SizesAfterFailure : n \in Nat /\ n > 0
    BY ObjectsAssumption DEF SizesAfterFailure, TypeInv, ObjectsAssumption
  <2>3. PICK n \in Nat : size' = n /\ n > 0
    BY <2>1, <2>2
  <2>4. index \in Nat /\ index' = index + n
    BY <2>1, <2>3 DEF TypeInv
  <2>5. index' > index
    BY <2>3, <2>4
  <2>. QED
    BY <1>9, <1>11, <2>5 DEF SkipIllegible
<1>12. CASE SliceBehindEnd
  BY <1>12 DEF SliceBehindEnd, Stage, SectionsLeft
<1>. QED
  BY <1>2, <1>3, <1>4, <1>5, <1>6, <1>7, <1>8, <1>10, <1>11, <1>12 DEF Next

(***************************************************************************)
(* On every file, also one that is not handled, every step of the tool     *)
(* leaves less to do, in an order without infinite descent: no section,    *)
(* symbol or word that does not decode is tried for ever (the loops of     *)
(* DisassembleObject in elf2hex.cpp, whose index moves by Size).           *)
(***************************************************************************)
THEOREM StepsRunOut ==
  /\ IsWellFoundedOn(TupleOrder(5), [1..5 -> Nat])
  /\ Spec => [](Left \in [1..5 -> Nat])
  /\ Spec => [][LeavesLess]_vars
<1>1. IsWellFoundedOn(TupleOrder(5), [1..5 -> Nat])
  BY TupleOrderWellFounded
<1>2. Init => TypeInv /\ FiniteInv
  BY InitTypes, FS_EmptySet DEF Init, FiniteInv
<1>3. TypeInv /\ FiniteInv /\ [Next]_vars => (TypeInv /\ FiniteInv)'
  BY TypeStep, FiniteStep
<1>4. Spec => [](TypeInv /\ FiniteInv)
  BY <1>2, <1>3, PTL DEF Spec
<1>5. Spec => []LeftType
  BY <1>4, LeftTyped, PTL
<1>6. LeftType => Left \in [1..5 -> Nat]
  BY DEF Left, LeftType
<1>7. Spec => [](Left \in [1..5 -> Nat])
  BY <1>5, <1>6, PTL
<1>8. Spec => [][LeavesLess]_vars
  <2>1. TypeInv /\ TypeInv' /\ FiniteInv /\ LeftType /\ LeftType' /\ [Next]_vars
          => [LeavesLess]_vars
    BY StepLowers DEF LeavesLess
  <2>. QED
    BY <1>4, <1>5, <2>1, PTL DEF Spec
<1>. QED
  BY <1>1, <1>7, <1>8

=============================================================================
