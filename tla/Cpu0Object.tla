----------------------------- MODULE Cpu0Object -----------------------------
(***************************************************************************)
(* One reference to a symbol, from the code generator to the processor:    *)
(* the instructions that name the symbol, their way into an object file    *)
(* (directly, or as assembly text that is parsed again), the fixups the    *)
(* assembler resolves and the relocations it leaves to the linker, and the *)
(* run of the linked instructions.                                         *)
(*                                                                         *)
(* The linker and the processor are not part of the repository: Link       *)
(* follows the formulas the relocation types of Mips have, without a carry *)
(* out of a lower half, because the code adds lower halves with ORi.       *)
(***************************************************************************)
EXTENDS Cpu0MC, Bitwise

CONSTANTS
  References,   (* What is referred to, how, and under which options.       *)
  Layouts       (* The addresses a linker may choose.                       *)

(***************************************************************************)
(* A reference: its use; the sort and linkage of the symbol; whether its   *)
(* definition is in the section of the code; for a variable its size and   *)
(* the kind of section its definition asks for; the TLS model; the options *)
(* PIC, use-small-section, has-lld and no-cpload; whether the function is  *)
(* marked noat; and whether the assembly text is written and read.  `code' *)
(* are instructions without a symbol, `offset' that of .cprestore.         *)
(***************************************************************************)
Uses == {"address", "data", "entry", "tls", "call", "tail", "jump", "branch",
         "compare-branch", "cprestore", "code"}

ReferencesAssumption ==
  \A r \in References :
    /\ r.use \in Uses /\ r.sort \in {"var", "func", "block", "table", "extern"}
    /\ r.link \in {"internal", "private", "global", "weak", "undef"}
    /\ r.kind \in {"data", "bss", "readonly", "common", "mergeable"}
    /\ r.model \in {"GeneralDynamic", "LocalDynamic", "InitialExec", "LocalExec"}
    /\ {r.same, r.pic, r.useSmall, r.lld, r.nocpload, r.noat, r.text} \subseteq BOOLEAN
    /\ r.size \in Nat /\ r.offset \in Nat
    /\ r.link = "undef" => ~r.same
    /\ r.model \in {"GeneralDynamic", "LocalDynamic"} => r.pic

Addresses == 0 .. 2 ^ (2 * H) - 1

(***************************************************************************)
(* A layout: the section of the code and the start of its function; a      *)
(* symbol of another section, the offset of the symbol in its section, the *)
(* section of small data; gp; the entries of the symbol near and far in    *)
(* the GOT; and the thread's block of the module, with the two offsets of  *)
(* a thread-local variable.                                                *)
(***************************************************************************)
LayoutType ==
  [base : Addresses, function : Addresses, sym : Addresses, secoff : Addresses,
   small : Addresses, gp : Addresses, got : Addresses, far : Addresses,
   tls : Addresses, tpoff : Addresses, dtpoff : Addresses, sp : Addresses]

ASSUME ReferencesAssumption
ASSUME LayoutsAssumption == Layouts \subseteq LayoutType

VARIABLES
  ref, lay,
  items,      \* the lines of assembly text that are still to be read
  reorder, macro,   \* Cpu0AssemblerOptions
  code,       \* the instructions that are emitted
  words,      \* their encodings, later with the fixups and relocations applied
  fixups,     \* for each word, its fixup as a set of at most one
  regs, pc,   \* the registers, and the index of the next instruction
  reached,    \* where the last store went, or a transfer of control
  phase

vars == <<ref, lay, items, reorder, macro, code, words, fixups, regs, pc, reached, phase>>

-----------------------------------------------------------------------------
(* Where a variable goes, and whether gp reaches it.                       *)

SSThreshold == 8

IsInSmallSection(size) == 0 < size /\ size <= SSThreshold

\* For a declaration the kind of section is unknown and not asked for.
IsGlobalInSmallSection(r) ==
  /\ r.useSmall /\ r.sort = "var" /\ IsInSmallSection(r.size)
  /\ r.link = "undef" \/ r.kind \in {"data", "bss", "common", "readonly"}

\* SelectSectionForGlobal, also of the module that defines an undefined symbol.
PlacedSmall(r) ==
  /\ r.useSmall /\ r.sort = "var" /\ IsInSmallSection(r.size)
  /\ r.kind \in {"bss", "data", "readonly"}

(* The instructions of a reference.                                        *)

IsLocal(r) == r.link \in {"internal", "private"} \/ r.sort \in {"block", "table"}

Name(r) == IF r.sort \in {"block", "table"} THEN "$label" ELSE "sym"

AddrNonPIC(s) == <<Inst("LUi", <<Reg("V0"), Sym("MO_ABS_HI", s)>>),
                   Inst("ORi", <<Reg("V0"), Reg("V0"), Sym("MO_ABS_LO", s)>>)>>

AddrLocal(d, s) == <<Inst("LD", <<Reg(d), Reg("GP"), Sym("MO_GOT", s)>>),
                     Inst("ORi", <<Reg(d), Reg(d), Sym("MO_ABS_LO", s)>>)>>

AddrGlobal(d, flag, s) == <<Inst("LD", <<Reg(d), Reg("GP"), Sym(flag, s)>>)>>

AddrGlobalLargeGOT(s) ==
  <<Inst("LUi", <<Reg("V0"), Sym("MO_GOT_HI16", s)>>),
    Inst("ADDu", <<Reg("V0"), Reg("V0"), Reg("GP")>>),
    Inst("LD", <<Reg("V0"), Reg("V0"), Sym("MO_GOT_LO16", s)>>)>>

GPRelative(d, flag, s) == <<Inst("ORi", <<Reg(d), Reg("GP"), Sym(flag, s)>>)>>

\* lowerGlobalAddress, lowerBlockAddress, lowerJumpTable
LowerAddress(r) ==
  LET s     == Name(r)
      label == r.sort \in {"block", "table"}
  IN CASE ~r.pic /\ ~label /\ IsGlobalInSmallSection(r) -> GPRelative("V0", "MO_GPREL", s)
       [] ~r.pic /\ (label \/ ~IsGlobalInSmallSection(r)) -> AddrNonPIC(s)
       [] r.pic /\ (label \/ r.link = "internal" \/ (r.link = "private" /\ r.sort # "func"))
            -> AddrLocal("V0", s)
       [] OTHER -> IF IsGlobalInSmallSection(r) THEN AddrGlobal("V0", "MO_GOT", s)
                                                ELSE AddrGlobalLargeGOT(s)

\* The callee in LowerCall, getOpndList and the instruction of the call.
LowerCallee(r, s) ==
  LET tail == r.use = "tail"
      addr == IF r.link = "internal" /\ r.sort # "extern" THEN AddrLocal("T9", s)
              ELSE AddrGlobal("T9", "MO_GOT_CALL", s)
  IN IF r.pic THEN addr \o <<Inst(IF tail THEN "JR" ELSE "JALR", <<Reg("T9")>>)>>
     ELSE <<Inst(IF tail THEN "JMP" ELSE "JSUB", <<Sym("MO_NO_FLAG", s)>>)>>

\* The library's function of which LowerTlsAddress makes a call.
TlsGetAddr(r) ==
  LowerCallee([r EXCEPT !.use = "call", !.sort = "extern", !.link = "undef"], "__tls_get_addr")

\* lowerGlobalTLSAddress.  ORi stands for the last ADD of the local dynamic model.
LowerTLSAddress(r) ==
  LET s == Name(r)
  IN CASE r.model = "GeneralDynamic" -> GPRelative("A0", "MO_TLSGD", s) \o TlsGetAddr(r)
       [] r.model = "LocalDynamic" ->
            GPRelative("A0", "MO_TLSLDM", s) \o TlsGetAddr(r)
            \o <<Inst("LUi", <<Reg("T0"), Sym("MO_DTP_HI", s)>>),
                 Inst("ADDu", <<Reg("T0"), Reg("T0"), Reg("V0")>>),
                 Inst("ORi", <<Reg("V0"), Reg("T0"), Sym("MO_DTP_LO", s)>>)>>
       [] r.model = "InitialExec" -> AddrGlobal("V0", "MO_GOTTPREL", s)
       [] r.model = "LocalExec" ->
            <<Inst("LUi", <<Reg("V0"), Sym("MO_TP_HI", s)>>),
              Inst("ORi", <<Reg("V0"), Reg("V0"), Sym("MO_TP_LO", s)>>)>>

\* LowerCPRESTORE: a far slot gets ZERO as the operand of LUi, and the upper
\* half behind it, where the encoder does not look.
LowerCPRESTORE(offset) ==
  IF offset < 2 ^ (H - 1)
    THEN <<Inst("ST", <<Reg("GP"), Reg("SP"), Imm(offset)>>)>>
    ELSE <<Inst("LUi", <<Reg("AT"), Reg("ZERO"), Imm(High(offset + 2 ^ (H - 1)))>>),
           Inst("ADD", <<Reg("AT"), Reg("AT"), Reg("SP")>>),
           Inst("ST", <<Reg("GP"), Reg("AT"), Imm(Low(offset))>>)>>

\* An entry of a jump table.
TableEntry(r) ==
  Inst(IF r.pic THEN "GPWORD" ELSE "WORD", <<Expr("CEK_None", Name(r))>>)

Body(r) ==
  CASE r.use = "address" -> LowerAddress(r)
    [] r.use = "tls"     -> LowerTLSAddress(r)
    [] r.use \in {"call", "tail"} -> LowerCallee(r, Name(r))
    [] r.use = "jump"    -> <<Inst("JMP", <<Sym("MO_NO_FLAG", Name(r))>>)>>
    [] r.use = "branch"  -> <<Inst("BEQ", <<Reg("V0"), Reg("V0"), Sym("MO_NO_FLAG", Name(r))>>)>>
    [] r.use = "compare-branch" -> <<Inst("JEQ", <<Reg("SW"), Sym("MO_NO_FLAG", Name(r))>>)>>
    [] r.use = "data"    -> <<Inst("WORD", <<Expr("CEK_None", Name(r))>>)>>
    [] r.use = "entry"   -> <<TableEntry(r)>>
    [] r.use = "cprestore" -> LowerCPRESTORE(r.offset)
    [] r.use = "code"    -> r.code

IsData(r) == r.use \in {"data", "entry"}

EmitCPLoad(r) == r.pic /\ ~r.nocpload /\ ~IsData(r)

LowerCPLOAD ==
  <<Inst("LUi", <<Reg("GP"), Expr("CEK_ABS_HI", "_gp_disp")>>),
    Inst("ORi", <<Reg("GP"), Reg("GP"), Expr("CEK_ABS_LO", "_gp_disp")>>),
    Inst("ADD", <<Reg("GP"), Reg("GP"), Reg("T9")>>)>>

Lowered(seq) == [k \in DOMAIN seq |-> LowerOperands(seq[k])]

\* What the object streamer is given.
ObjectCode(r) == (IF EmitCPLoad(r) THEN LowerCPLOAD ELSE <<>>) \o Lowered(Body(r))

(* What the assembly streamer writes: directives, and instructions as text. *)

Directive(name) == <<"directive", name>>
Directives(names) == [k \in DOMAIN names |-> Directive(names[k])]
When(b, seq) == IF b THEN seq ELSE <<>>

FunctionStart(r) ==
  Directives(<<".ent", ".frame", ".mask", ".set noreorder">>
             \o When(EmitCPLoad(r), <<".cpload">>) \o <<".set nomacro">>
             \o When(r.noat, <<".set noat">>))

FunctionEnd(r) ==
  Directives(When(r.noat, <<".set at">>) \o <<".set macro", ".set reorder", ".end">>)

BodyText(r) ==
  IF r.use = "cprestore" THEN <<Directive(".cprestore")>>
  ELSE [k \in DOMAIN Body(r) |->
          IF Body(r)[k].op = "GPWORD" THEN Directive(".gpword")
          ELSE PrintInst(LowerOperands(Body(r)[k]))]

Text(r) == IF IsData(r) THEN BodyText(r) ELSE FunctionStart(r) \o BodyText(r) \o FunctionEnd(r)

-----------------------------------------------------------------------------
Init ==
  /\ ref \in References /\ lay \in Layouts
  /\ items = <<>> /\ reorder = TRUE /\ macro = TRUE
  /\ code = <<>> /\ words = <<>> /\ fixups = <<>>
  /\ regs = [r \in DOMAIN Encoding |->
               CASE r = "SP" -> lay.sp
                 [] r = "GP" /\ ~EmitCPLoad(ref) -> lay.gp
                 [] r = "T9" -> lay.function
                 [] OTHER -> 0]
  /\ pc = 1 /\ reached = 0 /\ phase = "lower"

Lower ==
  /\ phase = "lower"
  /\ IF ref.text
       THEN items' = Text(ref) /\ code' = <<>> /\ phase' = "parse"
       ELSE items' = <<>> /\ code' = ObjectCode(ref) /\ phase' = "encode"
  /\ UNCHANGED <<ref, lay, reorder, macro, words, fixups, regs, pc, reached>>

Line == Head(items)

Ignored == {".ent", ".end", ".frame", ".fmask", ".mask", ".gpword"}

\* ParseDirective and parseDirectiveSet.
ParseDirective ==
  /\ phase = "parse" /\ items # <<>> /\ Line[1] = "directive"
  /\ LET d == Line[2]
         known == Ignored \cup {".set reorder", ".set noreorder", ".set macro"}
                  \cup (IF reorder THEN {} ELSE {".set nomacro"})
     IN /\ phase' = IF d \in known THEN "parse" ELSE "rejected"
        /\ reorder' = CASE d = ".set reorder" -> TRUE [] d = ".set noreorder" -> FALSE
                        [] OTHER -> reorder
        /\ macro' = CASE d = ".set macro" -> TRUE
                      [] d = ".set nomacro" /\ ~reorder -> FALSE [] OTHER -> macro
  /\ items' = Tail(items)
  /\ UNCHANGED <<ref, lay, code, words, fixups, regs, pc, reached>>

ParseInstruction ==
  /\ phase = "parse" /\ items # <<>> /\ Line[1] # "directive"
  /\ LET i == Parse(Line)
     IN IF Rejected(i) THEN phase' = "rejected" /\ UNCHANGED code
                       ELSE phase' = "parse" /\ code' = Append(code, i)
  /\ items' = Tail(items)
  /\ UNCHANGED <<ref, lay, reorder, macro, words, fixups, regs, pc, reached>>

EndOfText ==
  /\ phase = "parse" /\ items = <<>>
  /\ phase' = "encode"
  /\ UNCHANGED <<ref, lay, items, reorder, macro, code, words, fixups, regs, pc, reached>>

EncodeInstruction ==
  /\ phase = "encode"
  /\ words' = [k \in DOMAIN code |-> Encode(code[k])]
  /\ fixups' = [k \in DOMAIN code |-> Fixups(code[k])]
  /\ phase' = "fixup"
  /\ UNCHANGED <<ref, lay, items, reorder, macro, code, regs, pc, reached>>

-----------------------------------------------------------------------------
(* The assembler's fixups.                                                 *)

Address(k) == lay.function + 4 * (k - 1)

TargetSize(kind) ==
  CASE kind \in {"FK_Data_4", "FK_GPRel_4"} -> 2 * H
    [] kind = "PC24" -> J
    [] OTHER         -> H

IsPCRel(kind) == kind \in {"PC16", "PC24"}

\* FKF_Constant of the table: a PC24 is resolved unless there is lld.
IsConstant(kind) == kind = "PC24" /\ ~ref.lld

\* MCAssembler::evaluateFixup.
IsResolved(f) ==
  /\ IsPCRel(f.kind) /\ f.sym = Name(ref) /\ ref.link # "undef"
  /\ IsConstant(f.kind) \/ (IsLocal(ref) /\ ref.same)

\* The value is the offset of the symbol in whatever section it is in.
ResolvedValue(k) == lay.secoff - (Address(k) - lay.base)

\* Mutant: the displacement is counted from the branch itself.
AdjustFixupValueFromBranch(kind, value) ==
  CASE kind \in {"FK_Data_4", "FK_GPRel_4", "CALL16", "LO16", "GOT_LO16", "PC16", "PC24"} -> value
    [] kind \in {"HI16", "GOT", "GOT_HI16"} -> High(value)
    [] OTHER -> 0

AdjustFixupValue(kind, value) ==
  CASE kind \in {"FK_Data_4", "FK_GPRel_4", "CALL16", "LO16", "GOT_LO16"} -> value
    [] kind \in {"PC16", "PC24"} -> value - 4
    [] kind \in {"HI16", "GOT", "GOT_HI16"} -> High(value)
    [] OTHER -> 0

\* Mutant: the value is not masked to the bits of the field.
ApplyFixupUnmasked(w, f, value) == [w EXCEPT !.field = w.field + AdjustFixupValue(f.kind, value)]

\* The value is ored into a field that was encoded as 0.
ApplyFixup(w, f, value) ==
  [w EXCEPT !.field = w.field | (AdjustFixupValue(f.kind, value) % 2 ^ TargetSize(f.kind))]

\* With relocations without addends, one against a section keeps the offset of
\* the symbol in place.
NeedsRelocateWithSymbol(type) == type # "R_CPU0_GPREL16"

WithSection(f) ==
  IsLocal(ref) /\ f.sym # "_gp_disp" /\ ~NeedsRelocateWithSymbol(GetRelocType(f.kind))

InPlaceAddend(f) == IF WithSection(f) THEN lay.secoff ELSE 0

ApplyFixups ==
  /\ phase = "fixup"
  /\ words' = [k \in DOMAIN words |->
                 IF fixups[k] = {} THEN words[k]
                 ELSE LET f == CHOOSE f \in fixups[k] : TRUE
                      IN ApplyFixup(words[k], f,
                           IF IsResolved(f) THEN ResolvedValue(k) ELSE InPlaceAddend(f))]
  /\ fixups' = [k \in DOMAIN words |-> {f \in fixups[k] : ~IsResolved(f)}]
  /\ phase' = "link"
  /\ UNCHANGED <<ref, lay, items, reorder, macro, code, regs, pc, reached>>

-----------------------------------------------------------------------------
(* The linker, and what it has decided.                                    *)

\* Where the symbol is.  A weak definition is overridden by another module.
FinalAddress ==
  CASE ref.same /\ ref.link # "weak"    -> lay.base + lay.secoff
    [] ~ref.same /\ PlacedSmall(ref)    -> lay.small + lay.secoff
    [] OTHER                            -> lay.sym

LibraryAddress == 2 ^ (2 * H) - 64

SymbolAddress(f) ==
  CASE f.sym = "_gp_disp"       -> lay.gp - lay.function
    [] f.sym = "__tls_get_addr" -> LibraryAddress
    [] WithSection(f)           -> FinalAddress - lay.secoff
    [] OTHER                    -> FinalAddress

GDSlot == lay.got + 8
LDSlot == lay.got + 12
IESlot == lay.got + 16

Relocated(w, k, f) ==
  LET S    == SymbolAddress(f)
      type == GetRelocType(f.kind)
      set(v) == [w EXCEPT !.field = v % 2 ^ TargetSize(f.kind)]
      A    == SignExtend(w.field, TargetSize(f.kind))
  IN CASE type = "R_CPU0_32"       -> set(S + A)
       [] type = "R_CPU0_GPREL32"  -> set(S + A - lay.gp)
       [] type = "R_CPU0_GPREL16"  -> set(S + A - lay.gp)
       [] type = "R_CPU0_HI16"     -> set(High(S))
       [] type = "R_CPU0_LO16"     -> set(Low(S + A))
       [] type = "R_CPU0_GOT16"    -> set((IF IsLocal(ref) THEN lay.got + 4 ELSE lay.got) - lay.gp)
       [] type = "R_CPU0_CALL16"   -> set((IF f.sym = "sym" THEN lay.got ELSE lay.got + 20) - lay.gp)
       [] type = "R_CPU0_GOT_HI16" -> set(High(lay.far - lay.gp))
       [] type = "R_CPU0_GOT_LO16" -> set(Low(lay.far - lay.gp))
       [] type \in {"R_CPU0_PC16", "R_CPU0_PC24"} -> set(S + A - Address(k))
       [] type = "R_CPU0_TLS_GD"   -> set(GDSlot - lay.gp)
       [] type = "R_CPU0_TLS_LDM"  -> set(LDSlot - lay.gp)
       [] type = "R_CPU0_TLS_GOTTPREL" -> set(IESlot - lay.gp)
       [] type = "R_CPU0_TLS_TP_HI16"  -> set(High(lay.tpoff))
       [] type = "R_CPU0_TLS_TP_LO16"  -> set(Low(lay.tpoff))
       [] type = "R_CPU0_TLS_DTP_HI16" -> set(High(lay.dtpoff))
       [] type = "R_CPU0_TLS_DTP_LO16" -> set(Low(lay.dtpoff))

Link ==
  /\ phase = "link"
  /\ words' = [k \in DOMAIN words |->
                 IF fixups[k] = {} THEN words[k]
                 ELSE Relocated(words[k], k, CHOOSE f \in fixups[k] : TRUE)]
  /\ fixups' = [k \in DOMAIN words |-> {}]
  /\ phase' = IF IsData(ref) \/ ref.use = "code" THEN "done" ELSE "run"
  /\ UNCHANGED <<ref, lay, items, reorder, macro, code, regs, pc, reached>>

-----------------------------------------------------------------------------
(* The processor.                                                          *)

Nowhere == Machine(-1)

\* The words of the GOT; anything else that is loaded is no address.
Memory(a) ==
  CASE a \in {lay.got, lay.far} -> FinalAddress
    [] a = lay.got + 4          -> High(FinalAddress) * 2 ^ H
    [] a = IESlot               -> lay.tpoff
    [] a = lay.got + 20         -> LibraryAddress
    [] OTHER                    -> Nowhere

\* What __tls_get_addr returns for the slot it is given.
ThreadLocal(slot) ==
  CASE slot = GDSlot -> Machine(lay.tls + lay.dtpoff)
    [] slot = LDSlot -> lay.tls
    [] OTHER         -> Nowhere

Running == phase = "run" /\ pc <= Len(words)
W == words[pc]
R(n) == IF n = 0 THEN 0 ELSE regs[CPURegsTable[n + 1]]

Effective == Machine(R(W.rb) + SignExtend(W.field, H))

Result ==
  CASE W.op = "LUi"             -> Machine(W.field * 2 ^ H)
    [] W.op = "ORi"             -> R(W.rb) | W.field
    [] W.op \in {"ADD", "ADDu"} -> Machine(R(W.rb) + R(W.rc))
    [] W.op = "LD"              -> Memory(Effective)

Compute ==
  /\ Running /\ W.op \in {"LUi", "ORi", "ADD", "ADDu", "LD"}
  /\ regs' = [regs EXCEPT ![CPURegsTable[W.ra + 1]] = Result]
  /\ pc' = pc + 1
  /\ UNCHANGED <<ref, lay, items, reorder, macro, code, words, fixups, reached, phase>>

StoreWord ==
  /\ Running /\ W.op = "ST"
  /\ reached' = Effective
  /\ pc' = pc + 1
  /\ UNCHANGED <<ref, lay, items, reorder, macro, code, words, fixups, regs, phase>>

\* Where a transfer at pc goes.
Destination ==
  LET next == Address(pc) + 4
  IN CASE W.op = "JALR" -> R(W.rb)
       [] W.op = "JR"   -> R(W.ra)
       [] W.op = "BEQ"  -> Machine(next + SignExtend(W.field, H))
       [] W.op \in {"JMP", "JSUB", "JEQ"} -> Machine(next + SignExtend(W.field, J))

Transfers == {"JALR", "JR", "BEQ", "JMP", "JSUB", "JEQ"}

\* The call in the middle of a sequence; it returns.
CallLibrary ==
  /\ Running /\ W.op \in Transfers /\ ref.use = "tls"
  /\ regs' = [regs EXCEPT !["V0"] =
                IF Destination = LibraryAddress THEN ThreadLocal(regs["A0"]) ELSE Nowhere]
  /\ pc' = pc + 1
  /\ UNCHANGED <<ref, lay, items, reorder, macro, code, words, fixups, reached, phase>>

Transfer ==
  /\ Running /\ W.op \in Transfers /\ ref.use # "tls"
  /\ reached' = Destination
  /\ phase' = "done"
  /\ UNCHANGED <<ref, lay, items, reorder, macro, code, words, fixups, regs, pc>>

Stop ==
  /\ phase = "run" /\ pc > Len(words)
  /\ phase' = "done"
  /\ UNCHANGED <<ref, lay, items, reorder, macro, code, words, fixups, regs, pc, reached>>

Next ==
  \/ Lower \/ ParseDirective \/ ParseInstruction \/ EndOfText
  \/ EncodeInstruction \/ ApplyFixups \/ Link
  \/ Compute \/ StoreWord \/ CallLibrary \/ Transfer \/ Stop

Spec == Init /\ [][Next]_vars

-----------------------------------------------------------------------------
(***************************************************************************)
(* Properties.                                                             *)
(***************************************************************************)

TypeOK ==
  /\ {reorder, macro} \subseteq BOOLEAN
  /\ \A k \in DOMAIN words :
       LET bits == IF Form(words[k].op) = "data" THEN 2 * H
                   ELSE IF Form(words[k].op) \in Targets \ {"brtarget16"} THEN J ELSE H
       IN /\ words[k].field \in 0 .. 2 ^ bits - 1
          /\ {words[k].ra, words[k].rb, words[k].rc} \subseteq 0..15
  /\ \A r \in DOMAIN regs : regs[r] \in Addresses
  /\ pc \in 1 .. Len(words) + 1 /\ reached \in Addresses
  /\ phase \in {"lower", "parse", "rejected", "encode", "fixup", "link", "run", "done"}

\* ORi adds an offset to gp only if gp ends in H zero bits and the offset is
\* neither negative nor longer.
InGPPage(a) == lay.gp % 2 ^ H = 0 /\ a - lay.gp \in 0 .. 2 ^ H - 1

\* The offset of a local symbol in .sdata is put into the field by a fixup
\* whose value adjustFixupValue turns to 0: the section is addressed instead.
SectionAddendLost == IsLocal(ref) /\ lay.secoff # 0

\* LD extends the sign of the lower half, and the upper half has no carry.
LowerHalfNegative(offset) == Low(offset) >= 2 ^ (H - 1)

UsesLargeGOT(r) == /\ r.pic /\ ~IsGlobalInSmallSection(r) /\ r.link # "internal"
                   /\ r.sort = "func" \/ (r.sort = "var" /\ r.link # "private")

\* The slot of gp is beyond an ST.
CPRestoreFar == ref.use = "cprestore" /\ ref.offset >= 2 ^ (H - 1)

(***************************************************************************)
(* The code that takes an address computes the address the linker chose,   *)
(* under every linkage, relocation model and TLS model, and data and jump  *)
(* tables hold it; but for the cases named above.  In the executable TLS   *)
(* models it computes the offset from the thread pointer, which nothing    *)
(* adds; the entries of a position-independent table are relative to gp,   *)
(* and those the parser reads are lost.                                    *)
(***************************************************************************)
AddressComputed ==
  phase = "done" =>
    /\ ref.use = "address" =>
         \/ regs["V0"] = FinalAddress
         \/ ~ref.pic /\ IsGlobalInSmallSection(ref)
            /\ (~InGPPage(FinalAddress) \/ SectionAddendLost)
         \/ UsesLargeGOT(ref) /\ LowerHalfNegative(lay.far - lay.gp)
    /\ ref.use = "tls" =>
         CASE ref.model = "GeneralDynamic" ->
                InGPPage(GDSlot) => regs["V0"] = Machine(lay.tls + lay.dtpoff)
           [] ref.model = "LocalDynamic" ->
                InGPPage(LDSlot) /\ lay.tls % 2 ^ H = 0
                  => regs["V0"] = Machine(lay.tls + lay.dtpoff)
           [] OTHER -> regs["V0"] = lay.tpoff
    /\ ref.use = "data" => words[1].field = FinalAddress
    /\ ref.use = "entry" =>
         IF ref.pic THEN ref.text \/ words[1].field = Machine(FinalAddress - lay.gp)
                    ELSE words[1].field = FinalAddress
    /\ ref.use = "cprestore" => reached = Machine(lay.sp + ref.offset) \/ CPRestoreFar

\* Without lld the assembler resolves every JSUB and JMP to a defined symbol,
\* also one in another section or one that the linker replaces.
ResolvedEarly ==
  /\ ref.use \in {"call", "tail"} /\ ~ref.pic /\ ~ref.lld
  /\ ref.link # "undef" /\ (~ref.same \/ ref.link = "weak")

\* The displacement does not fit in the field of the branch.
TooFar ==
  LET bits == IF ref.use = "branch" THEN H ELSE J
      d    == FinalAddress - (Address(pc) + 4)
  IN W.op \notin {"JR", "JALR"} /\ d \notin -(2 ^ (bits - 1)) .. 2 ^ (bits - 1) - 1

(***************************************************************************)
(* A call, tail call, jump or branch reaches the symbol, whether the       *)
(* assembler or the linker has filled in its displacement, or T9 was       *)
(* loaded from the GOT.                                                    *)
(***************************************************************************)
TransferLands ==
  phase = "done" /\ ref.use \in {"call", "tail", "jump", "branch", "compare-branch"} =>
    reached = FinalAddress \/ ResolvedEarly \/ TooFar

(***************************************************************************)
(* The assembly text of the compiler, read by its assembler, gives the     *)
(* words and fixups of the direct route, and the options are what they     *)
(* were; but the parser rejects .cpload, .cprestore and .set noat, which   *)
(* the printer writes, and drops .gpword.                                  *)
(***************************************************************************)
RoutesAgree ==
  /\ phase = "rejected" => EmitCPLoad(ref) \/ ref.noat \/ ref.use = "cprestore"
  /\ ref.text /\ phase = "fixup" =>
       LET direct == SelectSeq(ObjectCode(ref), LAMBDA i : i.op # "GPWORD")
       IN /\ words = [k \in DOMAIN direct |-> Encode(direct[k])]
          /\ fixups = [k \in DOMAIN direct |-> Fixups(direct[k])]
          /\ reorder /\ macro

\* A very far backward branch is shown as a forward one.
MisreadSign(field, bits) == field \in 2 ^ (bits - 1) .. SignLimit(bits)

Displacement(i) == i.args[Len(i.args)][2]

(***************************************************************************)
(* The disassembler shows every linked word as an instruction that can be  *)
(* printed and assembled to the same word, and a branch with the           *)
(* displacement the processor takes.                                       *)
(***************************************************************************)
DisassemblyAgrees ==
  phase = "done" /\ ~IsData(ref) =>
    \A k \in DOMAIN words :
      LET w    == words[k]
          form == Form(w.op)
          bits == IF form = "brtarget16" THEN H ELSE J
      IN /\ Encode(Decode(w)) = w
         /\ Encode(Parse(PrintInst(Decode(w)))) = w
         /\ form \in {"brtarget16", "brtarget24"} =>
              \/ Displacement(Decode(w)) = SignExtend(w.field, bits)
              \/ MisreadSign(w.field, bits)

=============================================================================
