# TLA+ models of the Cpu0 and RiscvToy back ends

This directory specifies and checks the parts of the Cpu0 LLVM back end
(`backend/Cpu0`), of its smaller sibling RiscvToy, and of the tools around them
(`elf2hex`, the target triple) in which a mistake is easy to make and hard to
see in a regression test: what the *emitted code* does when it runs - beside
other threads, interrupts, callers, callees and a linker - whether the many
hand-written tables of one instruction set agree with each other, and the
passes that work on a whole function until nothing changes any more.

The TLA+ says what the code does, not what its comments say. Where the two
disagree, a run shows it or a property names the exception (see *Findings*).

* `PROJECT.json` - components, runs, the source lines of every definition,
  hazards, mutants, theorems.
* `*.tla` - specifications, `MC*.tla` - instances for TLC, `MC*.cfg` - the runs.

## 1. The system

The repository is a compiler back end and two tools: LLVM calls the back end with
a function, pass after pass, and it emits instructions. It keeps no state between
functions, and it is sequential. The behaviour that is hard to get right is spread over several
passes that must agree about a state that exists only at run time.

| component | state | operations | correct when |
|---|---|---|---|
| atomics expansion (`Cpu0ISelLowering.cpp`, custom inserters) | registers of an LL/SC loop, memory, reservations | LL, SC, the branch between, the partword mask arithmetic | an `atomicrmw` or `cmpxchg` takes effect at one instant, on its field only; the loops are lock-free |
| calling convention (`Cpu0CC`, `CC_Cpu0O32/S32`) | registers and stack allocated so far | one step per argument part; byval; varargs | caller and callee find every word in the same place, no two share one |
| call lowering (`LowerCall`, `LowerFormalArguments`) | outgoing area, register copies | pass, home, tail call | arguments arrive also through a prologue, a tail call, a dynamic stack |
| frame lowering (`Cpu0SEFrameLowering`, `Cpu0RegisterInfo`) | stack pointer, frame pointer, saved registers, slots | prologue, epilogue, call-frame pseudos, frame indices, eh.return | callee-saved registers, locals and allocated space survive every call and interrupt |
| GP save and restore (`Cpu0EmitGPRestore`, CPRESTORE) | the gp slot | save in the prologue, reload behind calls | gp is the function's own whenever its body runs |
| long branch (`Cpu0LongBranch`) | block sizes, marks, blocks | split, measure, mark, expand | ends; same control flow; every short branch reaches; none is long for nothing; sequences preserve registers |
| addresses (`LowerGlobalAddress`, TLS, jump tables), fixups, relocations, encoder, disassembler | words, fixups, relocations, the parser's `.set` options | lower, print, parse, encode, resolve, link, decode | the linked code computes the address or reaches the callee; text and object give the same words; what is decoded assembles to the same word |
| immediates (`Cpu0AnalyzeImmediate`), `loadImmediate`, `li`/`la` of the assembler | sequences of instructions | build a constant | the sequence computes the constant, is short, and changes nothing else |
| selection patterns (`Cpu0InstrInfo.td`, `Cpu0CondMov.td`) | none | constants; comparison as value, branch, selector, with CMP or with SLT | each decides as its condition says |
| RiscvToy back end | blocks of a function, frame, words | select, analyse and rebuild branches, frame, fix up, print, parse, decode | a program gives its result under every order of its blocks; text, words and decoder agree |
| elf2hex | the address of the next byte, the symbol list of the section | sections, symbols, instructions, gaps, boot code | the loader's image is the linked program; the tool ends |
| target triple (`Triple.cpp`) | components of the name, kinds read from them | normalise, set, variant, merge | every part is read as named in any order; a setter changes one part; versions compare as numbers |
| rest of the LLVM overlay, scripts, notes | none | text | not a subject of these models |

**Interaction.** Instruction selection calls the call lowering and the custom
inserters; LLVM's PrologEpilogInserter calls frame lowering back (callee-saved
registers, call frames, prologue, epilogue, frame indices); the GP restore pass
and the long branch pass run behind each other before emission; the code emitter
writes words and fixups, or the printer text that the parser turns into the same;
the assembler resolves the fixups it can and leaves relocations to the linker; elf2hex reads
the linked file. A tool chooses the back end by the target triple. The pieces share the numbers in
`Cpu0FunctionInfo` and `MachineFrameInfo`: the offset of the gp slot, the size of
the incoming area, the size of the largest call frame.

**What is hard.** Interleaving: other threads between LL and SC, an interrupt
that uses the stack below `sp` at any instruction. Ordering: which instruction of
a prologue or an epilogue comes first, what a tail call overwrites before it
jumps. Stale state: offsets computed for one frame base and used with another.
Fixpoints: sizes that grow while they are measured. Numeric edges: sign
extension, carries between halves, alignments of argument parts. Protocols: a
parser that must read what a printer wrote, setters that print and parse again, a
loader that knows no addresses but the number of bytes it has read.
`PROJECT.json` lists each at its line, with the properties that watch it.

## 2. Modules

### Cpu0Words, AtomicRMW, Cpu0Atomics (MCAtomics)

`Cpu0Words` defines machine words as sets of the bit positions that are one, and
the register instructions the expansions use. The width of a byte is a constant;
a word has four bytes always, so masks, lanes, shifts and carries are those of
the machine.

`AtomicRMW` is the abstract specification: an instruction is issued, at one later
instant it reads and updates its word and delivers its result; plain code stores
bytes at any time.

`Cpu0Atomics` is what `EmitInstrWithCustomInserter` makes of the pseudo
instructions. Only LL and SC touch memory, so a step of a thread is an LL or an SC with
the register instructions and the branch behind it.

| code | specification |
|---|---|
| `thisMBB` of `emitAtomic*` | `Issue`; `ShiftAmt`, `Mask`, `Mask2`, `Mask3` |
| `loopMBB`, `loop1MBB` up to the SC | `BinaryLL`, `CmpSwapLL` |
| SC and BEQ back | `ScSucceeds`, `ScFails` |
| `sinkMBB`, `exitMBB` | `Exit`, `DestVal` |
| stored word | `BinaryStoreVal`, `PartwordStoreVal`, `CmpSwapStoreVal` |

External: the memory with its reservations (`LL`, `Store`, `SCStores`), interrupts, and
byte stores by code that is not atomic. `Intended` refines `AtomicRMW` with the
operation the instruction names; `Coded` with the word the code computes, which
separates the atomicity of the partword loops from the two findings on their
arithmetic.

### Cpu0CallConv, ArgumentLists (MCArgumentLists)

`Cpu0CallConv` holds the pure part of the calling convention. `Analyze` runs the
CCState over the parts of an argument list (`Run`, one `Assign` a part). The place of
every word comes from the two sides: `CallerWords` is where `LowerCall` and
`passByValArg` put it, `CalleeWords` where the callee looks for it - `FixedWords` by
`LowerFormalArguments` and `copyByValRegs`, `VaArgs` by `va_start` and a walk of `va_arg`.
`HomedRegs` is what the callee stores on entry: the registers of byval arguments
(`ByValHomes`) and, if it is variadic, those left over (`VarArgHomes`).
`ArgumentLists` is a state machine that builds all argument lists up to a
length, so that TLC compares the two sides on each and the proofs go along its
steps. Its assumptions: a structure fills whole words (the code rounds its size up),
and no alignment is 5, 6 or 7 - in the code it is a power of two.

### Cpu0Frames (MCFrames)

`Cpu0Frames` executes compiled functions one instruction at a time on
`regs` and `mem`. The constant `Funcs` gives each function the traits that
decide a frame (ABI, relocation model, convention, arguments, variadic, locals, callee-saved registers
used, dynamic stack, frame pointer, eh.return, calls); `Entries` names those a program starts with. From the traits the module
derives the answers of the hooks (`SavedRegs`, `HasFP`, `HasReservedCallFrame`,
`StackSize`, slots) and from these the instruction sequences
(`Prologue`, `HomeArgs`, `CallCode`, `TailCallCode`, `Epilogue`, `EhReturnCode`).
`acts` is the stack of activations. Each is in a `phase` - it enters, calls, tail-calls, leaves or
throws - that fixes its `code`, of which it executes the instruction `at`; behind the code of entering
or of a call it is in its body. `Cpu0FramesInv` has the inductive invariant (section 5).

| code | specification |
|---|---|
| `emitPrologue`, `spillCalleeSavedRegisters`, `.cpload` | `Prologue`, `Cpload` |
| `emitEpilogue`, `expandRetLR`, `expandEhReturn` | `Epilogue`, `RetLR`, `EhReturnCode` |
| `LowerCall`, `eliminateCallFramePseudoInstr` | `PassArgs`, `CallCode`, `AdjustForCall` |
| `Cpu0EmitGPRestore` | `RestoreGP` |
| `isEligibleForTailCallOptimization`, TailCall | `IsTail`, `TailCallCode`, `TailJump` |
| `copyByValRegs`, `writeVarArgRegs` | `HomeArgs` |
| `eliminateFrameIndex`, `getFrameRegister` | `SavedSlot`, `ObjSlot`, `FrameReg` |

The body of a function is nondeterministic: in any order it writes locals, uses
its callee-saved registers, allocates stack; its calls come in program order.
LLVM's PrologEpilogInserter (the layout of the slots) is external and modelled
from the hooks it calls. `Interrupt` overwrites everything below `sp`.

### Cpu0LongBranch (MCLongBranch)

A function is a sequence of blocks with sizes and branches. The actions are the
steps of `runOnMachineFunction`: one `Split` per block (`emitGPDisp`, `splitMBB`),
`Measure` (the rest of `initMBBInfo`), one `Keep` or `Mark` per entry of the inner
loop, `EndRound`, then one `Expand` or `SkipShort` per entry, `Finish`. An entry of
`infos` names the block of its branch (`mbb`) as `Br->getParent()` does, so it
survives the blocks that are put in between. `LongBrCode` and
`BalTgtCode` execute the position-independent sequence, with the fixup of
`adjustFixupValue`. Offsets are sums over a part of a sequence (`Sums`).

### Cpu0AnalyzeImmediate, Cpu0Selection (MCSelection)

`Cpu0AnalyzeImmediate` is the recursive search for the shortest sequence that
builds a constant, on integers of three widths - the immediate field, the register
and the `uint64_t` of the search - that keep their ratio when they are narrowed.

`Cpu0Selection` executes what is written for one operation. An action per
operation chooses it and its operands and puts its instructions into `code`; `Execute`
runs one instruction.

| code | specification |
|---|---|
| constant patterns; where several match, any may be taken | `ConstantPats`, `SelectConstant` |
| `expandLoadImm`, `expandLoadAddressImm`, `expandLoadAddressReg` | `ExpandLoad*`; `Li`, `LaImm`, `LaReg` |
| `loadImmediate`, `adjustStackPtr` | `LoadImmediate`, `AdjustStackPtr`; `AdjustSP` |
| setcc patterns of cpu032I and cpu032II, with a constant | `SetCCPatsCmp`, `SetCCPatsSlt`, `SetCCImmPatsSlt` |
| brcond patterns, of a condition and of a value | `BrcondPatsCmp`, `BrcondPatsSlt`, `BrcondValue` |
| select patterns | `MovzPats0Slt`, `MovnPats`, `Select`, `SelectImmPatsSlt` |

What a condition means is written down independently in `Holds`. External: CMP sets
the N and Z bits of SW and leaves the others.

### Cpu0MC, Cpu0Object (MCObject)

`Cpu0MC` is the machine-code layer as functions: the tables that take a target
flag to an expression kind, a fixup, a relocation and a name in the text and
back, the encoder, the decoders, the printer and the operand parser. `Cpu0Object`
follows one reference to a symbol from lowering to execution; `phase` is where it
is. A word is `2 * H` bits, `H` for an immediate.

| code | specification |
|---|---|
| `getAddrNonPIC`, `getAddrLocal`, `getAddrGlobal`, `getAddrGlobalLargeGOT`, `lowerGlobalAddress` | `AddrNonPIC`, `AddrLocal`, `AddrGlobal`, `AddrGlobalLargeGOT`, `LowerAddress` |
| `lowerGlobalTLSAddress`, callees in `LowerCall` | `LowerTLSAddress`, `LowerCallee` |
| `IsGlobalInSmallSection`, `SelectSectionForGlobal` | `IsGlobalInSmallSection`, `PlacedSmall` |
| `Cpu0MCInstLower`, `.cpload`, `.cprestore`, `.gpword` | `LowerOperands`, `LowerCPLOAD`, `LowerCPRESTORE`, `TableEntry` |
| function start and end of `Cpu0AsmPrinter` | `FunctionStart`, `FunctionEnd`, `Text` |
| `ParseDirective`, `ParseInstruction` | `ParseDirective`, `ParseInstruction`, `Parse` of `Cpu0MC` |
| `getBinaryCodeForInstr` with its operand encoders | `EncodeInstruction`, `Encode`, `Fixups` |
| `adjustFixupValue`, `applyFixup`, `needsRelocateWithSymbol`, `getRelocType` | `AdjustFixupValue`, `ApplyFixup`, `WithSection`, `GetRelocType` |

External: the linker (`Link`, by the formulas the relocation types have for Mips) and
the processor (`Compute`, `Transfer`).

### RiscvToyMC, RiscvToy (MCRiscvToy)

`RiscvToyMC` is the machine-code layer (a word is the six fields of the R format).
`RiscvToy` compiles a program of operations and runs it; `Meaning` is its result as
written.

| code | specification |
|---|---|
| `normaliseSetCC`, the setcc, brcond and constant patterns, `EmitInstrWithCustomInserter`, `LowerCall`, `LowerReturn` | `Select` |
| `analyzeBranch`, `removeBranch`, `insertBranch`, `reverseBranchCondition` | `AnalyzeBranch` ...; `LayOut` rebuilds the terminators for a new order of blocks |
| `emitPrologue`, `emitEpilogue`, `adjustStackPointer`, `eliminateFrameIndex` | `InsertFrames` |
| asm printer, code emitter, parser, fixups | `Emit` on the routes `obj` and `asm` |

External: register allocation, block placement, PrologEpilogInserter, the linker (which
spreads the bits of a jump over the field itself, so the object route leaves them to a
relocation) and the processor (`Step`).

### Elf2Hex (MCElf2Hex)

`Elf2Hex` prints the memory image: one action per section, per symbol of a text
section and per instruction. `out` is the list of bytes printed, each with where it
came from; the index of a byte is the address the loader puts it at. `Size`, which the
code does not initialise, is the size a failing decoder left: nondeterministic.
The order of addresses is assumed of the sections that take memory only; the others
(comments, debug information at address 0) stand anywhere and are skipped. The
vectors are JMPs of 24 bits, read back by `JmpTarget`.

### TripleNames, TripleFields, Triple (MCTriple)

`TripleNames` has the tables of names and what a name is parsed as. `Triple` keeps
`data`, the components of the name. `normalize` runs step by step: `StartNormalize`
parses the components where they are, `PlaceComponent`, `FindNothing` and `SkipFound`
are the iterations of its outer loop, `FinishNormalize` the special cases. A
component is a name and the version behind it; a name is a string because prefixes and
suffixes decide what it is.

`TripleFields` is the abstract specification: a triple is a record of kinds, and the change
that was `asked` for changes one of them, or gives the relative of the architecture that has
the width or the byte order. `Triple` implements it although each setter writes a name and
parses it anew (`asked` is a history variable).

| code | specification |
|---|---|
| `Triple::Triple`, `getDefaultFormat` | `Fields`, `DefaultFormat` |
| `normalize` | the five actions; `InsertLeft`, `PushRight`; `Android`, `Suse`, `Windows` |
| `setArch` ... `setObjectFormat` | `ChangeArch` ... `ChangeObjectFormat` |
| `get32BitArchVariant` ... `getLittleEndianArchVariant` | `TakeVariant` |
| `isCompatibleWith`, `merge` | `MergeWith` |
| `getOSVersion`, `getMacOSXVersion`, `isMacOSXVersionLT` | `OSVersion`, `MacOSXVersion`, `IsMacOSXVersionLT` |

External: the target parser for ARM names (`ARMNames`).

### Proof modules

| module | holds |
|---|---|
| `Cpu0AtomicsProofs` | invariants of the atomics, and that they implement `AtomicRMW` |
| `SumTheorems` | sums, induction over an interval, tuples in lexicographic order |
| `Cpu0LongBranchInv`, `Cpu0LongBranchProofs` | the invariant of the long branch pass; that it is inductive and what follows |
| `CallConvTheorems` | recursive definitions, and what `Cpu0CallConv` computes for every argument list |
| `ArgumentListsProofs` | caller and callee agree on every list |
| `Cpu0FramesInv` | the invariant of the frames |
| `FramesTheorems` | frame sizes, offsets, and each instruction of a prologue, call and epilogue |
| `Cpu0FramesProofs` | every step keeps the invariant, and what follows |
| `Elf2HexProofs` | the image is the program |

Section 5 says what they prove.

## 3. Runs

| run | bounds | shows |
|---|---|---|
| `atomics_word` | 2 threads, 1 word, bytes of 1 bit, add/sub/or/swap/cmpxchg, 1 disturbance | `RefinesRMW`, `NoLostUpdate`, `LockFree`, types |
| `atomics_partword` | 2 threads, 1 word, bytes of 2 bits, big-endian, byte and halfword, 1 disturbance | `Reservation`, `PartwordAtomicAsCoded` |
| `long_branch` | 4 blocks (5 after splitting, up to 13 after expanding), 7-bit immediates, PIC and not, forced and not | the pass terminates, keeps control flow, marks exactly what it must |
| `argument_lists` | 5 arguments of 6 types, 4 conventions, variadic or not | `WordsFound`, `WordsApart` |
| `frames` | 8 programs, up to 4 nested activations, 3 body writes, 1 interrupt | arguments, callee-saved registers, frames, eh data, gp |
| `selection` | fields of 3 bits, all 64 register values as constants, 8 values compared with each other, both subtargets | constants, comparisons, untouched registers, length |
| `object` | halves of 6 bits, jumps of 9, 96 layouts; every use, linkage, size, section kind, relocation and TLS model, option and route | `AddressComputed`, `TransferLands`, `RoutesAgree`, `DisassemblyAgrees`, types |
| `riscvtoy` | registers of 30 bits, fields as in the code, 83 programs, both routes, every order of the blocks of one function | `RunsAsWritten`, `TextAgrees`, types |
| `elf2hex` | 619 files of two or three sections, first address 20 in place of 256, a size left over after a failed decoding of 0, 1, 3, 4, 6 or 1000 | `ImageFaithful`, `Terminates` |
| `triple` | 4,420 triples normalised twice; 68 triples changed three times, by 12 kinds, 6 names after -march, 4 variants, 8 other triples | `NormalizedAsNamed`, `ImplementsFields`, `VersionsAgree` |
| `atomics_neighbours`, `long_branch_sequence` | as the run they belong to, narrowed | findings 2 and 3 |

**Why the bounds are enough to mean something.** Two threads meet at one word:
with any further thread an LL/SC pair is still separated by *some* store. A
byte of one or two bits keeps all four lanes, carries across lanes and a sign
bit. The operands are chosen so that each operation changes its field and a carry
leaves it. `MaxDisturb` bounds interrupts and plain stores together: one of them at
every point of every interleaving; it is also what makes `LockFree` true, as
code that is interrupted between every LL and SC makes no progress. The bodies of the
long-branch functions put one branch at the limit of the field until the
sequence of another grows in between, so that a second round is needed. Five arguments
exceed the two registers and put an alignment gap between any two kinds of parts. The
programs of `MCFrames` cover byval structures split between registers and stack,
variadic calls, dynamic stack with the frame pointer in use as an ordinary register elsewhere,
tail calls from C to fast and refused ones, eh.return, PIC, and an
outgoing area too large to be reserved (`MaxImm`). `MaxWrites` and `MaxInterrupts`
bound how often the nondeterministic body and the interrupt act.

A field of 3 bits and a register of 6 keep a sign bit in both halves and the carry
between them, and give every constant its turn; the values compared are the ends of
both ranges and their neighbours.

The 96 layouts of `object` put symbols before and behind the code, near and far,
the upper half with and without a carry, gp with and without zero low bits. The
programs of `riscvtoy` stand at the ends of each range: constants at the bounds of
the 12-bit immediate, of the rounding of LUI and of a word, frames from 11 to 6,200 bytes
(2,047 is the last offset), branches around 4 KiB, jumps around 1 MiB; the blocks of one
function stand in every order. The files of `elf2hex` have every triple of
section shapes, and every pair with the odd shapes (data in text, text without bytes, short sections,
stray symbols, a comment at address 0) in either place, behind each other with gaps of 0 to 8 bytes. The words of
`triple` are one of each kind with a special case, an unknown one and an empty
one, in every order up to three (of 14), four (of 8) and three sets of five.

The position-independent program of `frames` is chosen so that the gp slot falls
into padding, and its eh.return function has no frame pointer: outside these cases the
findings 5 and 6 apply, and the properties fail. The case is the definition `Handled` of `Cpu0FramesInv`, which
the theorems assume and `MCFrames` asserts of its programs.

**Deadlock** is checked in the atomics runs. The compiled programs of `frames` and `riscvtoy`, the
argument lists, the long branch pass, a sequence of `selection`, the reference of
`object`, the tool of `elf2hex` and the changes of `triple` end; there it is not.

**Fairness.** `FairSpec` of `Cpu0Atomics` is weak fairness of each thread's next
instruction (`Step(t)`): a thread that is in a loop keeps executing; nothing
is assumed about who wins an SC. `Spec` of `Cpu0LongBranch` has weak
fairness of `Next`: the pass is a function that runs until it returns; and so has that of
`Elf2Hex`, a sequential program. The other
specifications claim safety only.

Each property of a passing run has a mutant: a definition changed as a
plausible bug would change it (definitions marked `Mutant:`), under which TLC
finds the property violated.

## 4. Findings

1. **`atomicrmw nand` is an and** (`Cpu0ISelLowering.cpp:493`). The complement is written
   `xor $0, andres`, which is `andres`.
2. **Partword atomics clear their neighbours** (`atomics_neighbours`). `Mask2`
   and `Mask3` are "complements" of the same kind, so they equal `Mask`: the
   other bytes are lost, and the old bits of the field are ored into the new.
   `PartwordAtomicAsCoded` and `RefinesRMW` are stated with these two apart.
3. **HI16 without its carry** (`long_branch_sequence`). The JR of a long-branch
   sequence lands 2^16 too low when bit 15 of the distance is set.
4. **Branch range tested in instructions, encoded in bytes**
   (`FitsInInstructionsOnly`, `Cpu0LongBranch.cpp:397`): a branch whose displacement is between one and four times
   the reach of its field is left short. `ShortBranchesReach` names these and shows that there are no others.
5. **eh data registers** (`EhDataApart`). They are spilled relative to the caller's fp
   (`Cpu0SEFrameLowering.cpp:111`) in a function with a frame pointer: the program of `frames` has none.
   And their reloads stand in front of every return (line 207), behind the arguments of a tail call, which
   they overwrite.
6. **The gp slot has no space of its own** (`GPSlotApart`, `Cpu0ISelLowering.cpp:1414`). `LowerCall` gives
   it the offset behind the arguments of the call it is lowering, the last one wins, and nothing
   reserves it: with one local and a call of two words it is the address of the local. The
   program of `frames` passes three words. When the call frame is not reserved and there is no frame pointer, the reload of gp behind the
   call is also addressed as if `sp` were not lower there.

The others are named exceptions of the properties; without the exception the run
fails. `selection`:

7. **`setule` of cpu032I is signed** (`SignedUle`). `SetlePatsCmp`
   (`Cpu0InstrInfo.td:1415`) writes `a <= b` unsigned with CMP, not CMPu, so 0x80000000 <= 0
   comes out true as a value or a selector; as a branch it is right.
   `backend/test/CodeGen/Cpu0/setule.ll:16` compiles `icmp ule`, and line 19 expects the `cmp`.
8. **`la d,v(d)` forgets its base** (`ClobberedBase`). With an offset over 16 bits
   `expandLoadAddressReg` builds it in `d` and then adds `d`; the comment at
   `Cpu0AsmParser.cpp:409` shows the three instructions.

`object`:

9. **ORi as an addition** (`InGPPage`). gp-relative, GOT and TLS offsets are added by ORi, which
   adds only if gp ends in 16 zero bits and the offset is not negative. A far GOT offset has an upper
   half without carry while LD extends the sign of the lower (`LowerHalfNegative`).
10. **GPREL16 against a section loses its addend** (`SectionAddendLost`, `Cpu0AsmBackend.cpp:46`): a local
    small variable that is not first in its section.
11. **Executable TLS models** give the offset from the thread pointer, which nothing adds.
12. **Calls resolved early** (`ResolvedEarly`, `Cpu0AsmBackend.cpp:138`): without lld the assembler resolves a
    call to any symbol of the file, in another section or weak.
13. **Displacements out of range** are cut to the field without a report (`TooFar`, `CPRestoreFar`).
14. **The parser rejects** `.cpload`, `.cprestore` and `.set noat`, drops `.gpword`, all of which the printer writes.
    Inline assembly can also print `%got_hi16`, which the parser does not know (`Cpu0AsmPrinter.cpp:433`).
15. **Backward branches shown as forward ones** (`MisreadSign`, `Cpu0Disassembler.cpp:273`, 303): offsets 0x8000 to 0x8fff.

`riscvtoy`:

16. **What is refused** (`MayBeRejected`): more than eight argument words, frames over 2,048 bytes,
    branches out of range; and on the text route a function named like a register.
17. **funct7 is hardly looked at** (`IgnoredFunct7`): the disassembler shows a mul as an add.

`elf2hex` (`ImageFaithful` names what a file must be; outside it the image is shifted):

18. **Section addresses that are no multiple of a word** (line 342); **words that do not decode** are not
    printed (528), and how far the tool then goes depends on `Size`, which is not initialised (504);
    **text in front of the first symbol** is not reached; **symbols of an earlier text section** stay in the list (468);
    a **vector** takes the low 24 bits of its offset, however far `.text` or `ISR` is.

`triple`:

19. **Object formats in a name**: a format in front of the environment takes its place and is lost, or is not read
    when it is not last (`FormatFirst`, `FormatNotLast`); for Windows, one behind an environment is kept in fifth place only
    (`FormatOnWindows`).
20. **Variants of cpu0** (`TakeByteOrder`). `Triple.cpp:1530` and 1564 answer an unknown architecture for the other byte
    order of cpu0 and cpu0el, each of which is the other's; `Triple.h` says "or an unknown architecture if no such variant can be
    found". aarch64_32 (big) and arc (little) reach `llvm_unreachable`; the action leaves these two calls out.
21. **An implied environment is lost**: `mips` alone means gnu, until a setter makes it more than one component (`Becomes`).
22. **Two versions of macOS**: without a version it is 10.4 for `getMacOSXVersion` and older than every version for
    `isMacOSXVersionLT`. And of Darwin `getMacOSXVersion` drops the minor number (`Triple.cpp:1124`), which `isMacOSXVersionLT` compares
    (line 1673): darwin20.1 is 11.0.0, but not older than 11.0.1 or 11.1, and darwin9.8 is 10.5.0, but not older than 10.5.1
    (`PointReleaseDropped`). 10.16 comes before 11 in the one and is the same Darwin in the other.

## 5. Proofs

`Cpu0AtomicsProofs` proves, for any set of threads, addresses and instructions,
any byte width and either byte order:

* `TypeCorrect`: `Spec => []TypeOK`. The invariant is inductive by itself; the
  lemmas about words say that no operation leaves the word.
* `ReservationInvariant`: `Spec => []Reservation`, inductive together with
  `TypeOK`. A thread in front of its SC that still holds its
  reservation has in its register what the word holds, because every store to the word
  ends every reservation on it.
* `UpdatesKept`: `Spec => NoLostUpdate`, from the two invariants: an SC
  stores only under the reservation.

It also proves the implementation of the abstract specification:

* `AtomicAsCoded`: `Spec => PartwordAtomicAsCoded`. LL steps, failing SCs and
  interrupts map to stutters; `Issue` and `PlainStore` to themselves; a succeeding
  SC, or an LL whose comparison fails, to `Perform`. The step of the SC needs
  `Reservation`: what it stores was computed from the loaded word, which is the
  word it replaces. The lemmas `MaskIsField`, `DestValIsField`, `CmpSwapMatchesField` relate
  masks, shifts and sign extension to the field of the instruction, for every width.
* `WordLoopsCorrect`: if all instructions are 32-bit and none is nand, `Spec => RefinesRMW`.

The assumptions are `AtomicsAssumption` (instructions are
well-formed, aligned to their size) and `ByteBitsAssumption`.

`Cpu0LongBranchProofs` proves every safety property of the long branch pass, for any
set of functions, both code models, forced or not, and any width of the immediate field
(`Typed`, `FlowKept`, `BranchesReach`, `LongBranchesFar`, `SequencesTransparent`; `BranchesReach` with the
exception of finding 4, which it leaves where it is: a branch left short that fits in instructions and not in bytes). The
assumptions are `FunctionsAssumption` (branches go to blocks of the function, control does not
run off its end) and `ImmBitsAssumption`: the field reaches across one sequence of 44 bytes. No property is inductive. `IInv` of `Cpu0LongBranchInv` says

* `InputInv`, `BlocksInv`: types; no two blocks have the same name;
* `SplitInv`: while blocks are split, each is what `splitMBB` made of its block, and
  they are in order (`NextSelf`) up to the block the loop is at;
* `InfosInv`: an entry names one of these blocks, in layout order, and its size is
  that of the block and, once marked, of the sequence;
* `OrderInv`, `GroupInv`: where the block of an entry stands now, that it is still
  the original one or the redirected one with its own sequence directly behind it and
  the block of the next entry behind that;
* `RoundInv`: entries that the current round has passed without a mark reach their target by the
  sizes measured now (marks only make blocks grow, so `made` must be false for this), and
  every mark was needed: by today's sizes, less its own sequence, the branch does not reach.

From it, the size of an entry is the size of its group of blocks in the finished function
(the lemmas `Placed` and `OffsetMeasured` partition the layout into groups and sum each), so the offset
that was tested is the displacement that is encoded (tested in instructions, encoded in bytes). An offset backwards counts the block of the branch and with it the branch's
own sequence, which `OwnSize` takes out again.
The reversed branch reaches across its own sequence because of the bound on `ImmBits`.

`ArgumentListsProofs` proves the agreement of caller and callee, for lists of any
length, any set of the conventions and of argument types, structures of any size
(`ListsTyped`, `EveryWordFound`, `EveryWordApart`). The inductive invariant `IInv` says of
the fixed and of all passed arguments

* `PartsInv`: the words are apart and in the registers and the stack the analysis has
  reached (`Region`); the registers the callee stores have their homes at 0 and 4; every
  word of a fixed argument is found; and the state is `Sane`: while O32 has a register left,
  nothing but the 8 reserved bytes is on the stack. That is why the object of a structure that begins
  in registers, whose home ends at 8, goes on where its stack part begins;
* `VaInv`: the pointer of `va_arg` is where the caller's analysis will put the next variable
  argument (`VaNext`), homes and stack taken as one sequence of words. That one analysis skips
  A1 for an i64 exactly when the other rounds its pointer up is what makes variadic calls work;
* `FoundInv`: the words of the list so far are found.

`PartsInvAppend` is one part more, `WalkArg` one variable argument, `ExtraList` joins
them. The assumptions are `ConventionsAssumption` and `ArgTypesAssumption`. What one convention does with one
list is in `CallConvTheorems`, whose `WordsOfCall` is what the frames need of it: the words of a call are found by
the callee, in registers or in its incoming area, and apart.

`Cpu0FramesProofs` proves that registers, frames and arguments are kept: for any functions that may call one another to any
depth, with any arguments, locals and saved registers, any size of the stack, any number of writes and interrupts, at any
largest immediate (`Typed`, `CalleeSavedAreKept`, `FramesAreKept`, `EveryArgumentArrives`). The assumptions on the constants are `FuncsAssumption` (functions have the traits of `FuncType`; calls are of functions
of the same program, which passes extra arguments to variadic ones only) and `BoundsAssumption`. Each theorem has two hypotheses:

* `Handled`: no function is of the kinds of findings 5 and 6, for which the properties are false. TLC evaluates it for
  the functions of `frames`.
* `[]StackSuffices`, that `sp` does not go below 0. The code never tests for it, so without it the properties are false
  of any program that recurses; the run checks it as part of `TypeOK`, so every behaviour of the run is one
  the theorems are about.

None of the properties is inductive: that an epilogue loads what the prologue stored depends on every instruction of
every callee in between. `IInv` says

* `StateTyped`, and `Made` of each activation: its code is that of its phase (`Coded`), its incoming area
  ends inside the stack, and what it was passed in registers was in them on entry (`Passes`);
* `TopInv`: for each instruction that the running activation may be about to execute, where `sp` and `fp` are,
  which registers still or again have their values of the entry, and what its part of the stack holds:
  `Entering` counts the stores of the prologue that are done, `Calling` the words of the
  call that are in place, `Leaving` the loads of the epilogue, `TailCalling` and `Throwing` go on behind that,
  and `InItsBody` is what holds in between (`FrameHeld`: saved and eh data registers, homes, gp, arguments, locals
  and allocated space);
* `Waiting`: an activation below the top is behind its call instruction, and its `FrameHeld`
  is true of the memory as it is now; it has the stack pointer, the frame pointer and the saved registers *with
  which its callee was entered*, so that the callee's own invariant gives them back to it;
* `Stacked`: the incoming area of an activation ends (`End`) where the outgoing area of its caller does
  or below, and so of every caller further up (`Guard`). A write below `End` of the running activation thus disturbs no caller
  (`AgreeAbove`, `WaitingStays`), and an interrupt, which writes below `sp`, disturbs none at all.

`FramesTheorems` has what does not depend on the state: where each instruction stands in its code (`AfterSaves` ...), that the slots of
an activation are inside its part of the stack and apart, and what each instruction does to the
registers and the slots. A tail call is the delicate step: the callee takes the place of its caller, so
the arguments written into its incoming area must not reach beyond it, which is what
`isEligibleForTailCallOptimization` tests, and must leave alone what the epilogue still loads.
TLC checked `IInv` on the run before it was proved.

`Elf2HexProofs` proves `ImageRight`: `Spec => []ImageFaithful`, for any file, sections, symbols
and gaps, under `ObjectsAssumption` (the sections that take memory do not overlap and
are in order). The invariant `IInv` says, for a file the tool handles:
`PositionInv`, that the number of bytes printed is `lastDumpAddr`, which is not behind any section to come and, inside a
text section, is the address of the next instruction; `SymbolsInv`, that symbols left over from earlier sections lie in
this one, at whole words, and the first is its start; `ContentInv`, that the vectors, every section passed and the
part of the current one that is done are in the image; and that no slice behind the end is taken. Without `NoStaleSymbolBehind` or `SymbolAtStart`
it is not inductive: these are finding 18.

**Termination.** `StepsRunOut` of `Cpu0LongBranchProofs` and of `Elf2HexProofs` are what a safety property can say of it:
each step, on any function or file, lowers `Left`, a tuple of numbers of what is left to do, in the order of the first difference
(`TupleOrder`), which has no infinite descent (`TupleOrderWellFounded`). For the pass `Left` is the loops to come, the entries not
marked, whether this round has marked one, and the rest of the round; for the tool the sections to come, the stage
of this one, the symbols still to disassemble, and the bytes of this symbol, which decrease because a failed
`getInstruction` leaves no size of 0 (`SizesAfterFailure`), whatever it held before (`Leftover`). Together with fairness, `Terminates` says the same and in addition
that no step gets stuck before the end; that is what TLC checks.

**How the data is reasoned about.** `FlattenSeq`, `SumOf`, `Run` and `VaArgs` are recursive
functions. `SmallestOf` (of well-foundedness) gives `IntervalInduction` on a *set* of numbers, in place of the library's
induction theorems, which take an operator; `RecursionExists` gives from it that a recursive definition has a value and
`RecursionsAgree` that it has one only. What is used of them is what they do with one
element more (`SumStep`, `FlattenAppend`, `RunAppend`, `VaArgsAppend`). No theorem
uses fairness.

**Model-checked only.** `EhDataSaved` and `GPRestored` of the frames: what can go wrong with the eh data registers and the gp slot
is what `Handled` excludes (findings 5 and 6), so that a theorem under it would say nothing of these cases; the run checks
the eight programs. `LockFree` and the two `Terminates` are liveness (of the latter see Termination above). Of the long branch pass
`SequenceReachesTarget` is false (finding 3). `Cpu0AnalyzeImmediate` and `Triple` use RECURSIVE operators,
`Cpu0Selection`, `Cpu0Object` and `RiscvToy` those of Bitwise or RECURSIVE ones, directly or through the modules
they use: no theorem can be stated over them, and what they compute (shortest sequences, parsed names, encoded words) is
induction over data or bits. That `Triple` implements `TripleFields` is checked by `ImplementsFields`.

## 6. Not modelled

Return values and sret of Cpu0; floating-point arguments; structures whose size is not a
number of words; frames over 16 bits; landing pads; at -O0 a
spill between LL and SC (decided by LLVM's register allocator); multiplication and division;
shift parts; `selectAddESubE`, which no ADDE reaches
unless the target declares it legal; inline-asm constraints. Of RiscvToy byval arguments (passed
by reference without a copy), jump tables, inline asm, and `call` with a number, whose range is not checked.
Of the triple the versions of iOS, watchOS and environments, and the ARM CPU names. Of the assemblers the lexer
and the wording of errors. `llvm-objdump`, `ELF.h` and `ELFObjectFile.h` are LLVM's with the names of the
targets added: text output, constants and a reader of a format.

## 7. Plan

Done, in this order: atomics (most important: concurrent, and not testable by
matching assembly), long branch (the one algorithm on whole functions), calling convention,
frames, immediates and comparisons, references and relocations with the assembler and the
disassembler, elf2hex, RiscvToy, the target triple.

Next:

1. **Selection**: multiplication and division through HI and LO, shift parts,
   address modes (`SelectAddr`).
2. **Frames**: return values, so that the reloads of the eh data registers in a
   returning block are visible; arguments taken from locals, so that
   `eliminateFrameIndex` without SPAdj is.
3. **Useless-jump deletion** composed with the long branch pass, as an action behind it.
4. **elf2hex behind `Cpu0Object`**: linked words as sections.
5. **Proofs**: `Cpu0Selection` and `Cpu0Object` over words as sets of bits (`Cpu0Words`), without Bitwise.

The abstract specifications still worth stating: a stack of activations with
private frames that `Cpu0Frames` implements, and the original control-flow graph
that the output of the long branch pass implements step by step.
