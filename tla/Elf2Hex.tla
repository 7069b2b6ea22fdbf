------------------------------ MODULE Elf2Hex ------------------------------
(***************************************************************************)
(* The tool elf2hex, which turns a linked ELF file into the text that      *)
(* initialises the memory of the Verilog machine.  The machine's loader    *)
(* ignores comments and puts the bytes it reads at addresses 0, 1, 2, ...  *)
(* so an address printed in a comment has no effect: the image is right    *)
(* only if the number of bytes printed so far is always the address of the *)
(* next one.  The tool keeps that number implicitly, in lastDumpAddr,      *)
(* which it moves by section addresses, rounded sizes and instructions.    *)
(***************************************************************************)
EXTENDS Integers, Sequences, FiniteSets, FiniteSetsExt, SequencesExt

CONSTANTS
  Objects,    (* The ELF files: see ObjectsAssumption.                      *)
  FirstAddr,  (* 0x100 in the code: what lies below belongs to the vectors. *)
  Leftover    (* What Size may hold before it is set; so large a value that *)
              (* Index + Size wraps around is left out.                     *)

BootSize == 16

(***************************************************************************)
(* An object has sections in the order of the file, each with an address,  *)
(* a size, whether it is text, whether it is NOBITS (no bytes in the       *)
(* file), the offsets of the symbols in it, and the offsets at which no    *)
(* instruction decodes; `main' is the index of .text, 0 if there is none;  *)
(* `isr' the address of the symbol ISR, 0 if there is none; `le' both the  *)
(* byte order of the file and the option -le.                              *)
(***************************************************************************)
SectionType == [addr : Nat, size : Nat, text : BOOLEAN, nobits : BOOLEAN,
                symbols : SUBSET Nat, illegal : SUBSET Nat]

\* DisassembleObject skips the others: sections without bytes or memory.
Dumped(s) == s.size > 0 /\ s.addr >= FirstAddr

\* The sections that take memory are in the order of their addresses.
ObjectsAssumption ==
  /\ FirstAddr \in Nat /\ FirstAddr % 4 = 0 /\ FirstAddr >= BootSize
  /\ Leftover \subseteq Nat
  /\ \A o \in Objects :
       /\ o.le \in BOOLEAN /\ o.isr \in Nat /\ o.main \in 0..Len(o.sections)
       /\ o.sections \in Seq(SectionType)
       /\ \A i, j \in DOMAIN o.sections :
            LET s == o.sections[i]  t == o.sections[j]
            IN i < j /\ Dumped(s) /\ Dumped(t) => s.addr + s.size <= t.addr

ASSUME ObjectsAssumption

VARIABLES
  obj,           (* The file that is read.                                  *)
  out,           (* The bytes printed so far.                               *)
  lastDumpAddr,  (* Member of VerilogHex: the address behind the last byte. *)
  symbols,       (* Member Symbols of Reader, as the set of its addresses.  *)
  sec,           (* The section DisassembleObject is at.                    *)
  todo,          (* Start addresses of the symbols still to disassemble.    *)
  index, end,    (* Reader::Index and End of the current symbol.            *)
  size,          (* The local Size of DisassembleObject; -1: unset.         *)
  pc             (* Where DisassembleObject is.                             *)

vars == <<obj, out, lastDumpAddr, symbols, sec, todo, index, end, size, pc>>

\* A byte of a section of the file, and (section 0) a byte the tool makes up.
Byte(i, off) == [section |-> i, offset |-> off]
Value(v) == Byte(0, v)

(***************************************************************************)
(* What is printed.                                                        *)
(***************************************************************************)

Zeros(n) == [k \in 1..n |-> Value(0)]

\* Fill0s steps by whole words, up to and not including endAddr.
Fill0s(startAddr, endAddr) ==
  Zeros(IF startAddr < endAddr THEN 4 * ((endAddr - startAddr + 3) \div 4) ELSE 0)

\* The field of a JMP: 24 bits, 2^24 values.
JmpField == 256 * 256 * 256

\* One JMP with its 24-bit offset, in the byte order of the option.
JmpBytes(offset, le) ==
  LET low  == offset % JmpField
      word == <<Value(54), Value(low \div (256 * 256)), Value((low \div 256) % 256),
                Value(low % 256)>>
  IN IF le THEN Reverse(word) ELSE word

TextOffset(o) == IF o.main = 0 THEN 0 ELSE o.sections[o.main].addr

BootSection(o) ==
  LET jmp(offset) == JmpBytes(offset, o.le)
  IN jmp(TextOffset(o) - 4) \o jmp(4) \o jmp(o.isr - 8 - 4) \o jmp(-4)

Section == obj.sections[sec]

\* getContents gives no bytes for a NOBITS section.
ContentsSize == IF Section.nobits THEN 0 ELSE Section.size

WordUp(n) == ((n + 3) \div 4) * 4

\* Mutant: the last word of a gap is left out.
GapWithoutLast == IF lastDumpAddr < Section.addr
                  THEN Fill0s(lastDumpAddr, Section.addr - 4) ELSE <<>>

\* What ProcessDataSection and ProcessDisAsmInstruction print before a section,
\* and lastDumpAddr behind it.
GapBefore == IF lastDumpAddr < Section.addr
             THEN Fill0s(lastDumpAddr, Section.addr - 1) ELSE <<>>
AddrAfterGap == IF lastDumpAddr < Section.addr THEN Section.addr ELSE lastDumpAddr

\* PrintDataSection.  ProcessDataSection always comes here: the name and the
\* contents its branch for .bss looks at are never set.
DataBytes ==
  [k \in 1..WordUp(ContentsSize) |->
      IF k <= ContentsSize THEN Byte(sec, k - 1) ELSE Value(0)]

\* Where lastDumpAddr is after an instruction.  The code compares this with
\* the size of contents it has not stored, which is 0.
DumpAddrAfter == Section.addr + index + 4

-----------------------------------------------------------------------------
Init ==
  /\ obj \in Objects
  /\ out = <<>> /\ lastDumpAddr = 0
  /\ symbols = {} /\ sec = 0 /\ todo = {}
  /\ index = 0 /\ end = 0 /\ size = -1
  /\ pc = "construct"

\* VerilogHex::VerilogHex: the vectors, and zeros up to FirstAddr.
Construct ==
  /\ pc = "construct"
  /\ out' = BootSection(obj) \o Fill0s(BootSize, FirstAddr)
  /\ lastDumpAddr' = FirstAddr
  /\ pc' = "section"
  /\ UNCHANGED <<obj, symbols, sec, todo, index, end, size>>

\* The loop over the sections: one with no size, or below FirstAddr, is skipped.
NextSection ==
  /\ pc = "section"
  /\ sec < Len(obj.sections)
  /\ sec' = sec + 1
  /\ LET s == obj.sections[sec + 1]
     IN pc' = IF ~Dumped(s) THEN "section"
              ELSE IF s.text THEN "collect" ELSE "data"
  /\ size' = -1
  /\ UNCHANGED <<obj, out, lastDumpAddr, symbols, todo, index, end>>

Finish ==
  /\ pc = "section"
  /\ sec = Len(obj.sections)
  /\ pc' = "done"
  /\ UNCHANGED <<obj, out, lastDumpAddr, symbols, sec, todo, index, end, size>>

ProcessDataSection ==
  /\ pc = "data"
  /\ out' = out \o GapBefore \o DataBytes
  /\ lastDumpAddr' = IF ContentsSize > 0 THEN Section.addr + WordUp(ContentsSize)
                     ELSE AddrAfterGap
  /\ pc' = "section"
  /\ UNCHANGED <<obj, symbols, sec, todo, index, end, size>>

\* The symbols of the section join those the Reader has from earlier sections;
\* the dummy at 0 is added only if there are none at all.  Disassembling goes
\* through them in order and skips all but the last at one address.
CollectSymbols ==
  /\ pc = "collect"
  /\ LET all == symbols \cup {a \in Section.symbols : a < Section.size}
     IN symbols' = IF all = {} THEN {0} ELSE all
  /\ todo' = symbols'
  /\ pc' = "symbol"
  /\ UNCHANGED <<obj, out, lastDumpAddr, sec, index, end, size>>

NextSymbol ==
  /\ pc = "symbol"
  /\ IF todo = {}
     THEN pc' = "section" /\ UNCHANGED <<todo, index, end>>
     ELSE LET start == Min(todo)
              rest  == todo \ {start}
          IN /\ todo' = rest
             /\ index' = start
             /\ end' = IF rest = {} THEN Section.size ELSE Min(rest) - 1
             /\ pc' = "disassemble"
  /\ UNCHANGED <<obj, out, lastDumpAddr, symbols, sec, size>>

EndSymbol ==
  /\ pc = "disassemble"
  /\ index >= end
  /\ pc' = "symbol"
  /\ UNCHANGED <<obj, out, lastDumpAddr, symbols, sec, todo, index, end, size>>

\* Four bytes are there and decode.
Decodes == index + 4 <= ContentsSize /\ index \notin Section.illegal

PrintInstruction ==
  /\ pc = "disassemble" /\ index < end /\ Decodes
  /\ out' = out \o GapBefore \o [k \in 1..4 |-> Byte(sec, index + k - 1)]
  /\ lastDumpAddr' = DumpAddrAfter
  /\ size' = 4
  /\ index' = index + 4
  /\ UNCHANGED <<obj, symbols, sec, todo, end, pc>>

\* Mutant: a size of 0 stays 0.
UnchangedSizes == IF index + 4 > ContentsSize THEN {0}
                  ELSE IF size = -1 THEN Leftover ELSE {size}

\* Size after a failed getInstruction: 0 if fewer than four bytes are left;
\* otherwise what it was, which is a leftover before the first instruction of the
\* section; and 0 becomes 1.
SizesAfterFailure ==
  LET left == IF index + 4 > ContentsSize THEN {0}
              ELSE IF size = -1 THEN Leftover ELSE {size}
  IN {IF n = 0 THEN 1 ELSE n : n \in left}

\* Nothing is printed for bytes that are no instruction.
SkipIllegible ==
  /\ pc = "disassemble" /\ index < end /\ ~Decodes
  /\ index <= ContentsSize
  /\ size' \in SizesAfterFailure
  /\ index' = index + size'
  /\ UNCHANGED <<obj, out, lastDumpAddr, symbols, sec, todo, end, pc>>

\* Bytes.slice(Index) behind the end: an assertion, or bytes of other sections.
SliceBehindEnd ==
  /\ pc = "disassemble" /\ index < end
  /\ index > ContentsSize
  /\ pc' = "undefined"
  /\ UNCHANGED <<obj, out, lastDumpAddr, symbols, sec, todo, index, end, size>>

Next ==
  \/ Construct \/ NextSection \/ Finish
  \/ ProcessDataSection
  \/ CollectSymbols \/ NextSymbol \/ EndSymbol
  \/ PrintInstruction \/ SkipIllegible \/ SliceBehindEnd

Spec == Init /\ [][Next]_vars /\ WF_vars(Next)

-----------------------------------------------------------------------------
(***************************************************************************)
(* Properties.                                                             *)
(***************************************************************************)

\* What the loader puts at an address; Value(-1) if nothing.
Loaded(a) == IF a < Len(out) THEN out[a + 1] ELSE Value(-1)

\* Every byte of every section is where the linker put it, and the memory of
\* a NOBITS section is zero as far as anything is loaded there.
SectionsLoaded ==
  \A i \in DOMAIN obj.sections :
    LET s == obj.sections[i]
    IN Dumped(s) => \A off \in 0..s.size - 1 :
         Loaded(s.addr + off) \in
           (IF s.nobits THEN {Value(0), Value(-1)} ELSE {Byte(i, off)})

\* Where the JMP at an address goes, read in the byte order of the machine.
JmpTarget(a) ==
  LET bytes == [k \in 1..4 |-> out[a + k].offset]
      word  == IF obj.le THEN Reverse(bytes) ELSE bytes
      low   == word[2] * (256 * 256) + word[3] * 256 + word[4]
  IN a + 4 + (IF 2 * low >= JmpField THEN low - JmpField ELSE low)

\* Reset goes to .text, an interrupt to ISR, the two others stay at the last.
\* Without an ISR an interrupt is a reset.
VectorsLoaded ==
  /\ obj.main # 0 => JmpTarget(0) = obj.sections[obj.main].addr
  /\ JmpTarget(8) = obj.isr
  /\ JmpTarget(4) = 12 /\ JmpTarget(12) = 12

(***************************************************************************)
(* What the tool needs of a file.  Each conjunct is a thing the code does  *)
(* not handle: an address that is no multiple of a word, because sections  *)
(* are padded to words; words that do not decode or are not in the file,   *)
(* which are not printed; text in front of the first symbol, which is      *)
(* never reached; symbols of an earlier text section behind the end of a   *)
(* later one; and vectors that a JMP with 24 bits does not reach.          *)
(***************************************************************************)
WordAligned == \A i \in DOMAIN obj.sections :
                 Dumped(obj.sections[i]) => obj.sections[i].addr % 4 = 0

AllDecode == \A i \in DOMAIN obj.sections :
               LET s == obj.sections[i]
               IN s.text /\ Dumped(s) => /\ s.illegal = {} /\ ~s.nobits
                                         /\ s.size % 4 = 0
                                         /\ \A a \in s.symbols : a % 4 = 0

SymbolAtStart == \A i \in DOMAIN obj.sections :
                   LET s == obj.sections[i]
                   IN s.text /\ Dumped(s) => s.symbols = {} \/ 0 \in s.symbols

NoStaleSymbolBehind ==
  \A i, j \in DOMAIN obj.sections :
    LET s == obj.sections[i]  t == obj.sections[j]
    IN i < j /\ s.text /\ t.text /\ Dumped(s) /\ Dumped(t) =>
         \A a \in s.symbols : a < s.size => a < t.size

VectorsInReach ==
  /\ 2 * (TextOffset(obj) - 4) < JmpField
  /\ 2 * (obj.isr - 12) < JmpField

FileHandled == /\ WordAligned /\ AllDecode /\ SymbolAtStart
               /\ NoStaleSymbolBehind /\ VectorsInReach

(***************************************************************************)
(* For a file with aligned sections, whose text decodes from its start and *)
(* has no symbol list left over, the image is right when the tool has      *)
(* ended (VerilogHex, Reader::DisassembleObject).                          *)
(***************************************************************************)
ImageFaithful ==
  pc \in {"done", "undefined"} /\ FileHandled
    => pc = "done" /\ SectionsLoaded /\ VectorsLoaded

(***************************************************************************)
(* The tool comes to its end on every file, also on one with words that    *)
(* do not decode: an instruction of no size would be tried for ever.       *)
(***************************************************************************)
Terminates == <>(pc \in {"done", "undefined"})

=============================================================================
