------------------------------- MODULE Triple -------------------------------
(***************************************************************************)
(* llvm::Triple, by which every tool chooses the target, its byte order,   *)
(* width and object format: a name of components that is normalised, read  *)
(* into kinds, changed by the setters and the variants, and merged with    *)
(* the triple of another module.  A component is a name with the version   *)
(* behind it.                                                              *)
(***************************************************************************)
EXTENDS TripleNames, SequencesExt, FiniteSetsExt

CONSTANTS
  Inputs,     (* The triples as the user writes them, to be normalised.     *)
  Targets,    (* The triples objects are made from.                         *)
  Others,     (* The triples of other modules, to merge with.               *)
  Kinds,      (* The kinds the setters are called with.                     *)
  MarchNames, (* The names given to -march.                                 *)
  MaxChanges  (* Bound on the setters, variants and merges in a row.        *)

Component == [name : STRING, ver : Seq(Nat)]
C(name) == [name |-> name, ver |-> <<>>]

ASSUME InputsAssumption == \A t \in Inputs \cup Targets \cup Others : Len(t) > 0
ASSUME MaxChangesAssumption == MaxChanges \in Nat

VARIABLES
  input,    \* the triple as it was written, or as it was made
  data,     \* member Data, split into its components
  phase,    \* what is being done with it
  pos,      \* the position normalize looks for a component for
  found,    \* the positions whose component is final
  kinds,    \* what normalize has parsed last, of each kind
  read,     \* the kinds the constructor has read
  rounds,   \* how often it was normalised
  changes,  \* how often it was changed
  asked     \* the change that was asked for last, and to what

vars == <<input, data, phase, pos, found, kinds, read, rounds, changes, asked>>

-----------------------------------------------------------------------------
(* What the constructor reads.                                             *)

At(t, i) == IF i \in DOMAIN t THEN t[i].name ELSE ""

\* A triple of an architecture alone may imply its environment.
ImpliedEnvironment(arch) ==
  CASE StartsWith(arch, "mipsn32") -> "GNUABIN32"
    [] StartsWith(arch, "mips64") \/ StartsWith(arch, "mipsisa64") -> "GNUABI64"
    [] StartsWith(arch, "mipsisa32") \/ arch \in {"mips", "mipsel", "mipsr6", "mipsr6el"} -> "GNU"
    [] OTHER -> "UnknownEnvironment"

\* Everything behind the third hyphen is the environment and the format.
Fields(t) ==
  LET arch == ParseArch(At(t, 1))
      os   == ParseOS(At(t, 3))
      format == IF Len(t) > 3 THEN ParseFormat(Last(t).name) ELSE "UnknownObjectFormat"
  IN  [arch |-> arch, sub |-> ParseSubArch(At(t, 1)), vendor |-> ParseVendor(At(t, 2)),
       os |-> os,
       env |-> IF Len(t) = 1 THEN ImpliedEnvironment(At(t, 1)) ELSE ParseEnvironment(At(t, 4)),
       format |-> IF format = "UnknownObjectFormat" THEN DefaultFormat(arch, os) ELSE format]

\* A version counts behind the canonical name of the system only.
OSVersion(t, os) ==
  LET known == At(t, 3) = OSTypeName(os) \/ (os = "MacOSX" /\ At(t, 3) = "macos")
      ver == IF Len(t) < 3 THEN <<>> ELSE t[3].ver
  IN  [k \in 1 .. 3 |-> IF known /\ k <= Len(ver) THEN ver[k] ELSE 0]

\* The members of the triple, and how they were given: a format by its name,
\* the environment by an architecture alone.
Read(t) ==
  LET f == Fields(t)
  IN  [given |-> Len(t) > 3 /\ ParseFormat(Last(t).name) # "UnknownObjectFormat",
       version |-> OSVersion(t, f.os), alone |-> Len(t) = 1] @@ f
NothingRead ==
  [arch |-> "UnknownArch", sub |-> "NoSubArch", vendor |-> "UnknownVendor", os |-> "UnknownOS",
   env |-> "UnknownEnvironment", format |-> "ELF", given |-> FALSE, version |-> <<0, 0, 0>>,
   alone |-> FALSE]

-----------------------------------------------------------------------------
(* Normalisation.                                                          *)

Fixed(i) == i <= 4 /\ found[i]

Parse(p, k, c) ==
  CASE p = 1 -> [k EXCEPT !.arch = ParseArch(c.name)]
    [] p = 2 -> [k EXCEPT !.vendor = ParseVendor(c.name)]
    [] p = 3 -> [k EXCEPT !.os = ParseOS(c.name), !.cygwin = StartsWith(c.name, "cygwin"),
                          !.mingw = StartsWith(c.name, "mingw")]
    [] p = 4 -> LET env == ParseEnvironment(c.name)
                IN  IF env # "UnknownEnvironment" THEN [k EXCEPT !.env = env]
                    ELSE [k EXCEPT !.env = env, !.format = ParseFormat(c.name)]

Valid(p, k) ==
  CASE p = 1 -> k.arch # "UnknownArch"
    [] p = 2 -> k.vendor # "UnknownVendor"
    [] p = 3 -> k.os # "UnknownOS" \/ k.cygwin \/ k.mingw
    [] p = 4 -> k.env # "UnknownEnvironment" \/ k.format # "UnknownObjectFormat"

\* Each component is put where it belongs by the one in front; an empty one
\* takes the last, or a new one does.
Shift(t, c, from) ==
  LET free  == SelectSeq([i \in 1 .. Len(t) |-> i], LAMBDA i : i >= from /\ ~Fixed(i))
      empty == {k \in DOMAIN free : t[free[k]].name = ""}
      last  == IF empty = {} THEN Len(free) ELSE Min(empty)
      moved(k) == IF k = 1 THEN c ELSE t[free[k - 1]]
      new   == [i \in 1 .. Len(t) |->
                  IF \E k \in 1 .. last : free[k] = i
                    THEN moved(CHOOSE k \in 1 .. last : free[k] = i) ELSE t[i]]
  IN  IF empty = {} THEN Append(new, t[Last(free)]) ELSE new

InsertLeft(t, p, i) == Shift([t EXCEPT ![i] = C("")], t[i], p)

NextFree(i) == CHOOSE j \in i + 1 .. i + 5 : ~Fixed(j) /\ \A k \in i + 1 .. j - 1 : Fixed(k)

RECURSIVE PushRight(_, _, _)
PushRight(t, p, i) ==
  IF i >= p THEN t ELSE PushRight(Shift(t, C(""), i), p, NextFree(i))

\* Mutant: the component that is displaced is lost.
MoveDropping(t, p, i) ==
  IF p < i THEN [t EXCEPT ![p] = t[i], ![i] = C("")] ELSE PushRight(t, p, i)

Move(t, p, i) == IF p < i THEN InsertLeft(t, p, i) ELSE PushRight(t, p, i)

NoneFound == <<FALSE, FALSE, FALSE, FALSE>>
NothingParsed == [arch |-> "UnknownArch", vendor |-> "UnknownVendor", os |-> "UnknownOS",
                  cygwin |-> FALSE, mingw |-> FALSE, env |-> "UnknownEnvironment",
                  format |-> "UnknownObjectFormat"]

StartNormalize ==
  /\ phase \in {"written", "normalized"} /\ rounds < 2
  /\ input' = data
  /\ LET os == ParseOS(At(data, 3))
     IN  /\ kinds' = [arch |-> ParseArch(At(data, 1)), vendor |-> ParseVendor(At(data, 2)),
                      os |-> os, cygwin |-> StartsWith(At(data, 3), "cygwin"),
                      mingw |-> StartsWith(At(data, 3), "mingw"),
                      env |-> ParseEnvironment(At(data, 4)), format |-> ParseFormat(At(data, 5))]
         /\ found' = <<kinds'.arch # "UnknownArch", kinds'.vendor # "UnknownVendor",
                       os # "UnknownOS", kinds'.env # "UnknownEnvironment">>
  /\ pos' = 1
  /\ phase' = "permute"
  /\ UNCHANGED <<data, read, rounds, changes, asked>>

\* The component for a position is the first that parses and is not final;
\* what was parsed last, of it or in vain, is kept.
Candidates == {i \in DOMAIN data : ~Fixed(i) /\ Valid(pos, Parse(pos, kinds, data[i]))}
Tried(n) == SelectSeq([i \in 1 .. n |-> i], LAMBDA i : ~Fixed(i))
KindsAfter(n) == FoldLeft(LAMBDA k, i : Parse(pos, k, data[i]), kinds, Tried(n))

PlaceComponent ==
  /\ phase = "permute" /\ pos <= 4 /\ ~found[pos] /\ Candidates # {}
  /\ kinds' = KindsAfter(Min(Candidates))
  /\ data' = Move(data, pos, Min(Candidates))
  /\ found' = [found EXCEPT ![pos] = TRUE]
  /\ pos' = pos + 1
  /\ UNCHANGED <<input, phase, read, rounds, changes, asked>>

FindNothing ==
  /\ phase = "permute" /\ pos <= 4 /\ ~found[pos] /\ Candidates = {}
  /\ kinds' = KindsAfter(Len(data))
  /\ pos' = pos + 1
  /\ UNCHANGED <<input, data, phase, found, read, rounds, changes, asked>>

SkipFound ==
  /\ phase = "permute" /\ pos <= 4 /\ found[pos]
  /\ pos' = pos + 1
  /\ UNCHANGED <<input, data, phase, found, kinds, read, rounds, changes, asked>>

Resize(t, n) == [i \in 1 .. n |-> IF i \in DOMAIN t THEN t[i] ELSE C("")]
Put(t, n, c) == [Resize(t, n) EXCEPT ![n] = c]

NamesFormat == kinds.format \notin {"UnknownObjectFormat", "COFF"}

Android(t) ==
  IF kinds.env = "Android" /\ t[4].name = "androideabi" THEN [t EXCEPT ![4].name = "android"]
  ELSE t
\* SUSE means gnueabihf.
Suse(t) ==
  IF kinds.vendor = "SUSE" /\ kinds.env = "GNUEABI" THEN [t EXCEPT ![4] = C("gnueabihf")] ELSE t
Windows(t) ==
  LET w(env) == [Put(t, 4, env) EXCEPT ![3] = C("windows")]
      format == C(ObjectFormatTypeName(kinds.format))
  IN  CASE kinds.os = "Win32" /\ kinds.env = "UnknownEnvironment" ->
             w(IF NamesFormat THEN format ELSE C("msvc"))
        [] OTHER ->
             LET named == CASE kinds.os = "Win32" -> w(t[4])
                            [] kinds.mingw -> w(C("gnu"))
                            [] kinds.cygwin -> w(C("cygnus"))
                            [] OTHER -> t
             IN  IF (kinds.os = "Win32" \/ kinds.mingw \/ kinds.cygwin) /\ NamesFormat
                   THEN Put(named, 5, format) ELSE named

FinishNormalize ==
  /\ phase = "permute" /\ pos = 5
  /\ data' = Windows(Suse(Android([i \in DOMAIN data |->
                IF data[i].name = "" THEN C("unknown") ELSE data[i]])))
  /\ phase' = "normalized"
  /\ rounds' = rounds + 1
  /\ pos' = 1 /\ found' = NoneFound /\ kinds' = NothingParsed
  /\ UNCHANGED <<input, read, changes, asked>>

-----------------------------------------------------------------------------
(* The setters of triple t, read as f: each writes a new name to parse.    *)

Rest(t, n) == IF Len(t) > n THEN SubSeq(t, n + 1, Len(t)) ELSE <<C("")>>
Comp(t, i) == IF i \in DOMAIN t THEN t[i] ELSE C("")

SetArchName(t, c) == <<c, Comp(t, 2)>> \o Rest(t, 2)
SetVendorName(t, c) == <<Comp(t, 1), c>> \o Rest(t, 2)
HasEnvironment(t) == At(t, 4) # "" \/ Len(t) > 4
SetOSName(t, c) ==
  <<Comp(t, 1), Comp(t, 2), c>> \o (IF HasEnvironment(t) THEN Rest(t, 3) ELSE <<>>)
SetEnvironmentName(t, names) == <<Comp(t, 1), Comp(t, 2), Comp(t, 3)>> \o names

SetArch(t, kind) == SetArchName(t, C(ArchTypeName(kind)))
SetVendor(t, kind) == SetVendorName(t, C(VendorTypeName(kind)))
SetOS(t, kind) == SetOSName(t, C(OSTypeName(kind)))

SetEnvironment(t, f, kind) ==
  LET name == C(EnvironmentTypeName(kind))
  IN  SetEnvironmentName(t, IF f.format = DefaultFormat(f.arch, f.os) THEN <<name>>
                            ELSE <<name, C(ObjectFormatTypeName(f.format))>>)

\* Mutant: the environment is left out.
SetObjectFormatAlone(t, f, kind) == SetEnvironmentName(t, <<C(ObjectFormatTypeName(kind))>>)

SetObjectFormat(t, f, kind) ==
  LET format == C(ObjectFormatTypeName(kind))
  IN  SetEnvironmentName(t, IF f.env = "UnknownEnvironment" THEN <<format>>
                            ELSE <<C(EnvironmentTypeName(f.env)), format>>)

(***************************************************************************)
(* The variants of an architecture: another kind, "same" for itself, and   *)
(* "unreachable" where the code does not know what to do.                  *)
(***************************************************************************)
To64 == [aarch64_32 |-> "aarch64", amdil |-> "amdil64", arm |-> "aarch64",
         armeb |-> "aarch64_be", hsail |-> "hsail64", le32 |-> "le64", mips |-> "mips64",
         mipsel |-> "mips64el", nvptx |-> "nvptx64", ppc |-> "ppc64", ppcle |-> "ppc64le",
         renderscript32 |-> "renderscript64", riscv32 |-> "riscv64", sparc |-> "sparcv9",
         spir |-> "spir64", thumb |-> "aarch64", thumbeb |-> "aarch64_be",
         wasm32 |-> "wasm64", x86 |-> "x86_64"]
To32 == [aarch64 |-> "arm", aarch64_be |-> "armeb", amdil64 |-> "amdil", hsail64 |-> "hsail",
         le64 |-> "le32", mips64 |-> "mips", mips64el |-> "mipsel", nvptx64 |-> "nvptx",
         ppc64 |-> "ppc", ppc64le |-> "ppcle", renderscript64 |-> "renderscript32",
         riscv64 |-> "riscv32", sparcv9 |-> "sparc", spir64 |-> "spir",
         wasm64 |-> "wasm32", x86_64 |-> "x86"]
ToBig == [aarch64 |-> "aarch64_be", bpfel |-> "bpfeb", mips64el |-> "mips64",
          mipsel |-> "mips", ppcle |-> "ppc", ppc64le |-> "ppc64", sparcel |-> "sparc",
          tcele |-> "tce"]
ToLittle == [aarch64_be |-> "aarch64", bpfeb |-> "bpfel", mips64 |-> "mips64el",
             mips |-> "mipsel", ppc |-> "ppcle", ppc64 |-> "ppc64le", sparc |-> "sparcel",
             tce |-> "tcele"]

Variant32(arch) ==
  CASE arch \in DOMAIN To32 -> To32[arch]
    [] arch \in {"UnknownArch", "amdgcn", "avr", "bpfeb", "bpfel", "msp430", "systemz", "ve"} ->
         "UnknownArch"
    [] OTHER -> "same"

Variant64(arch) ==
  CASE arch \in DOMAIN To64 -> To64[arch]
    [] arch \in {"UnknownArch", "arc", "avr", "csky", "hexagon", "kalimba", "lanai", "msp430",
                 "r600", "shave", "sparcel", "tce", "tcele", "xcore", "cpu0", "cpu0el"} ->
         "UnknownArch"
    [] OTHER -> "same"

BigEndianVariant(arch) ==
  CASE ~IsLittleEndian(arch) -> "same"
    [] arch \in DOMAIN ToBig -> ToBig[arch]
    [] arch = "aarch64_32" -> "unreachable"
    [] OTHER -> "UnknownArch"

LittleEndianVariant(arch) ==
  CASE IsLittleEndian(arch) -> "same"
    [] arch \in DOMAIN ToLittle -> ToLittle[arch]
    [] arch \in {"UnknownArch", "lanai", "sparcv9", "systemz", "armeb", "thumbeb", "cpu0",
                 "cpu0el"} -> "UnknownArch"
    [] OTHER -> "unreachable"

Variant(v, arch) ==
  CASE v = "32" -> Variant32(arch) [] v = "64" -> Variant64(arch)
    [] v = "big" -> BigEndianVariant(arch) [] v = "little" -> LittleEndianVariant(arch)

-----------------------------------------------------------------------------
(* Versions, and merging the triples of two modules.                       *)

\* Mutant: each part is compared by itself.
VersionLTPartwise(a, b) == \E k \in 1 .. 3 : a[k] < b[k]

VersionLT(a, b) ==
  \E k \in 1 .. 3 : a[k] < b[k] /\ \A j \in 1 .. k - 1 : a[j] = b[j]

\* The version of macOS that a version of Darwin is; <<>> for none.
MacOSXVersion(f) ==
  LET v == f.version
  IN  CASE f.os = "Darwin" ->
             LET major == IF v[1] = 0 THEN 8 ELSE v[1]
             IN  CASE major < 4 -> <<>>
                   [] major \in 4 .. 19 -> <<10, major - 4, 0>>
                   [] OTHER -> <<11 + major - 20, 0, 0>>
        [] f.os = "MacOSX" ->
             IF v[1] = 0 THEN <<10, 4, v[3]>> ELSE IF v[1] < 10 THEN <<>> ELSE v
        [] OTHER -> <<10, 4, 0>>

\* The version of Darwin that a version of macOS is compared as.
DarwinOf(v) == IF v[1] = 10 THEN <<v[2] + 4, v[3], 0>> ELSE <<v[1] - 11 + 20, v[2], v[3]>>

IsMacOSXVersionLT(f, v) == VersionLT(f.version, IF f.os = "MacOSX" THEN v ELSE DarwinOf(v))

IsCompatibleWith(f, g) ==
  LET armThumb == {f.arch, g.arch} \in {{"arm", "thumb"}, {"armeb", "thumbeb"}}
  IN  /\ armThumb \/ f.arch = g.arch
      /\ f.sub = g.sub /\ f.vendor = g.vendor /\ f.os = g.os
      /\ f.vendor = "Apple" \/ (f.env = g.env /\ f.format = g.format)

\* Whether merge takes the other triple, read as g.
MergesTo(f, g) == ~(f.vendor = "Apple" /\ VersionLT(g.version, f.version))

OtherRead == [other \in Others |-> Read(other)]

-----------------------------------------------------------------------------
Change(what, t) ==
  /\ phase = "made" /\ changes < MaxChanges
  /\ changes' = changes + 1
  /\ data' = t
  /\ asked' = what
  /\ read' = Read(t)
  /\ UNCHANGED <<input, phase, pos, found, kinds, rounds>>

ChangeArch == \E kind \in Archs \cap Kinds : Change(<<"arch", kind>>, SetArch(data, kind))
ChangeVendor ==
  \E kind \in Vendors \cap Kinds : Change(<<"vendor", kind>>, SetVendor(data, kind))
ChangeOS == \E kind \in OSs \cap Kinds : Change(<<"os", kind>>, SetOS(data, kind))
ChangeEnvironment ==
  \E kind \in Environments \cap Kinds : Change(<<"env", kind>>, SetEnvironment(data, read, kind))
ChangeObjectFormat ==
  \E kind \in Formats \cap Kinds : Change(<<"format", kind>>, SetObjectFormat(data, read, kind))

\* The name given to -march.
ChangeArchByName ==
  \E name \in MarchNames :
    LET kind == ArchTypeForLLVMName(name)
    IN  kind # "UnknownArch" /\ Change(<<"arch", kind>>, SetArch(data, kind))

TakeVariant ==
  \E v \in {"32", "64", "big", "little"} :
    LET arch == Variant(v, read.arch)
    IN  /\ arch # "unreachable"
        /\ Change(<<"variant", v>>, IF arch = "same" THEN data ELSE SetArch(data, arch))

MergeWith ==
  \E other \in Others :
    /\ IsCompatibleWith(read, OtherRead[other])
    /\ Change(<<"merge">>, IF MergesTo(read, OtherRead[other]) THEN other ELSE data)

Init ==
  /\ \/ phase = "written" /\ input \in Inputs /\ read = NothingRead
     \/ phase = "made" /\ input \in Targets /\ read = Read(input)
  /\ data = input
  /\ pos = 1
  /\ found = NoneFound
  /\ kinds = NothingParsed
  /\ rounds = 0
  /\ changes = 0
  /\ asked = <<>>

Next ==
  \/ StartNormalize \/ PlaceComponent \/ FindNothing \/ SkipFound \/ FinishNormalize
  \/ ChangeArch \/ ChangeVendor \/ ChangeOS \/ ChangeEnvironment \/ ChangeObjectFormat
  \/ ChangeArchByName \/ TakeVariant \/ MergeWith

Spec == Init /\ [][Next]_vars

-----------------------------------------------------------------------------
(***************************************************************************)
(* Properties.                                                             *)
(***************************************************************************)

\* What a component can be taken for.
Readings(c) ==
  {<<"arch", ParseArch(c.name)>>, <<"vendor", ParseVendor(c.name)>>,
   <<"os", IF StartsWith(c.name, "cygwin") \/ StartsWith(c.name, "mingw") THEN "Win32"
           ELSE ParseOS(c.name)>>,
   <<"env", ParseEnvironment(c.name)>>, <<"format", ParseFormat(c.name)>>}
  \ {<<"arch", "UnknownArch">>, <<"vendor", "UnknownVendor">>, <<"os", "UnknownOS">>,
     <<"env", "UnknownEnvironment">>, <<"format", "UnknownObjectFormat">>}

NamedAs(t, part) == {i \in DOMAIN t : \E r \in Readings(t[i]) : r[1] = part}

Unambiguous(t) ==
  /\ \A i \in DOMAIN t : Cardinality(Readings(t[i])) <= 1
  /\ \A part \in {"arch", "vendor", "os", "env", "format"} : Cardinality(NamedAs(t, part)) <= 1

Named(t, part, unknown) ==
  IF NamedAs(t, part) = {} THEN unknown
  ELSE LET i == CHOOSE i \in NamedAs(t, part) : TRUE
       IN  (CHOOSE r \in Readings(t[i]) : TRUE)[2]

Intended(t) ==
  LET arch   == Named(t, "arch", "UnknownArch")
      vendor == Named(t, "vendor", "UnknownVendor")
      os     == Named(t, "os", "UnknownOS")
      env    == Named(t, "env", "UnknownEnvironment")
      format == Named(t, "format", "UnknownObjectFormat")
      port(n) == os = "Win32" /\ StartsWith(t[CHOOSE i \in NamedAs(t, "os") : TRUE].name, n)
  IN  [arch |-> arch, sub |-> "NoSubArch", vendor |-> vendor, os |-> os,
       env |-> CASE port("mingw") -> "GNU"
                 [] port("cygwin") -> "Cygnus"
                 [] vendor = "SUSE" /\ env = "GNUEABI" -> "GNUEABIHF"
                 [] os = "Win32" /\ env = "UnknownEnvironment"
                    /\ format \in {"UnknownObjectFormat", "COFF"} -> "MSVC"
                 [] OTHER -> env,
       format |-> IF format = "UnknownObjectFormat" THEN DefaultFormat(arch, os) ELSE format]

\* A format in front of the environment is put where the environment belongs.
Index(t, part) == CHOOSE i \in NamedAs(t, part) : TRUE
FormatFirst(t) ==
  NamedAs(t, "format") # {} /\ NamedAs(t, "env") # {} /\ Index(t, "format") < Index(t, "env")

\* Only the end of a triple is read as a format; what was behind it stays
\* there, and what is not recognised is pushed there.
FormatNotLast(t) ==
  /\ NamedAs(t, "format") # {}
  /\ \/ Index(t, "format") # Len(t)
     \/ \E i \in DOMAIN t : t[i].name # "" /\ Readings(t[i]) = {}

\* For Windows a format behind an environment is kept in fifth place only.
FormatOnWindows(t) ==
  /\ Named(t, "os", "UnknownOS") = "Win32" /\ NamedAs(t, "env") # {}
  /\ NamedAs(t, "format") # {5}

(***************************************************************************)
(* In whatever order a triple names its parts, and whichever it leaves     *)
(* out, the normalised triple is read as having them, an object format but *)
(* for the cases above; and normalising once more changes nothing.         *)
(* (Triple::normalize)                                                     *)
(***************************************************************************)
NormalizedAsNamed ==
  /\ phase = "normalized" /\ rounds = 1 /\ Unambiguous(input) =>
       LET f == Fields(data)
           n == Intended(input)
       IN  /\ f.arch = n.arch /\ f.vendor = n.vendor /\ f.os = n.os
           /\ f.env = n.env \/ FormatFirst(input)
           /\ f.format = n.format \/ FormatNotLast(input) \/ FormatOnWindows(input)
  /\ phase = "normalized" /\ rounds = 2 => data = input

Abstract == INSTANCE TripleFields WITH fields <- read

(***************************************************************************)
(* However the setters, the variants and merge follow each other, a triple *)
(* that is printed and read again at every step behaves as a record of     *)
(* kinds: a setter changes what it is named for and nothing else, and a    *)
(* variant has the width or the byte order that was asked for.             *)
(***************************************************************************)
ImplementsFields == Abstract!Spec

\* Versions in the order of numbers.
Weight(v) == v[1] * 10000 + v[2] * 100 + v[3]

\* Versions of macOS to ask for.
MacVersions ==
  ({10} \X (0 .. 16) \X (0 .. 9)) \cup ((11 .. 13) \X (0 .. 9) \X (0 .. 2))

\* getMacOSXVersion drops the minor and the patch number of Darwin, with which
\* isMacOSXVersionLT compares: a query for a point release of the same Darwin
\* that the triple has reached.  (And 10.16 counts as the Darwin of 11.)
PointReleaseDropped(f, v) ==
  LET d == DarwinOf(v)
  IN  /\ f.os = "Darwin" /\ d[1] = f.version[1] /\ <<d[2], d[3]>> # <<0, 0>>
      /\ ~VersionLT(f.version, d) \/ (v[1] = 10 /\ d[1] = 20)

(***************************************************************************)
(* The two ways to ask for the version of macOS agree, of Darwin's numbers *)
(* too, but for a triple without a version and for PointReleaseDropped;    *)
(* and modules of one target for an Apple system, linked in either order,  *)
(* are linked for the newest.  (isMacOSXVersionLT, getMacOSXVersion,       *)
(* merge)                                                                  *)
(***************************************************************************)
VersionsAgree ==
  phase = "made" =>
    /\ LET mac == MacOSXVersion(read)
       IN  read.os \in {"Darwin", "MacOSX"} /\ read.version[1] > 0 /\ mac # <<>> =>
             \A v \in MacVersions :
               \/ IsMacOSXVersionLT(read, v) <=> Weight(mac) < Weight(v)
               \/ PointReleaseDropped(read, v)
    /\ \A other \in Others :
         LET f == read
             g == OtherRead[other]
             newest == Max({Weight(f.version), Weight(g.version)})
         IN  f.vendor = "Apple" /\ IsCompatibleWith(f, g) =>
               /\ Weight((IF MergesTo(f, g) THEN g ELSE f).version) = newest
               /\ Weight((IF MergesTo(g, f) THEN f ELSE g).version) = newest
=============================================================================
