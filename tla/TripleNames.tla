---------------------------- MODULE TripleNames ----------------------------
(***************************************************************************)
(* The names of a target triple: the kinds that llvm::Triple knows, the    *)
(* name it prints for each, and what it reads a name as.  A name is parsed *)
(* as an architecture if it is one, and as an operating system or an       *)
(* environment if it begins with one, the first entry of the table that    *)
(* fits; so the order of the tables matters.                               *)
(***************************************************************************)
EXTENDS Integers, Sequences, FiniteSets, TLC

StartsWith(s, p) == Len(s) >= Len(p) /\ SubSeq(s, 1, Len(p)) = p
EndsWith(s, p) == Len(s) >= Len(p) /\ SubSeq(s, Len(s) - Len(p) + 1, Len(s)) = p

\* The value of the first of the rows of a table, or the default.
FirstOf(table, rows, default) ==
  IF rows = {} THEN default ELSE table[CHOOSE k \in rows : \A j \in rows : k <= j][2]

-----------------------------------------------------------------------------
(* Architectures; a kind that both tables call alike is its own name.      *)

Archs ==
  {"aarch64", "aarch64_32", "aarch64_be", "amdgcn", "amdil64", "amdil", "arc", "arm",
   "armeb", "avr", "bpfeb", "bpfel", "csky", "hexagon", "hsail64", "hsail", "kalimba",
   "lanai", "le32", "le64", "mips64", "mips64el", "mips", "mipsel", "cpu0", "cpu0el",
   "msp430", "nvptx64", "nvptx", "ppc64", "ppc64le", "ppc", "ppcle", "r600",
   "renderscript32", "renderscript64", "riscv32", "riscv64", "shave", "sparc", "sparcel",
   "sparcv9", "spir64", "spir", "systemz", "tce", "tcele", "thumb", "thumbeb", "ve",
   "wasm32", "wasm64", "x86", "x86_64", "xcore"}

ArchTypeName(kind) ==
  LET other == [UnknownArch |-> "unknown", ppc64 |-> "powerpc64", ppc64le |-> "powerpc64le",
                ppc |-> "powerpc", ppcle |-> "powerpcle", systemz |-> "s390x", x86 |-> "i386"]
  IN  IF kind \in DOMAIN other THEN other[kind] ELSE kind

\* The family of an architecture; "" where the code gives none.
ArchTypePrefix(kind) ==
  CASE kind \in {"aarch64", "aarch64_be", "aarch64_32"} -> "aarch64"
    [] kind \in {"arm", "armeb", "thumb", "thumbeb"} -> "arm"
    [] kind \in {"ppc64", "ppc64le", "ppc", "ppcle"} -> "ppc"
    [] kind \in {"mips", "mipsel", "mips64", "mips64el"} -> "mips"
    [] kind \in {"cpu0", "cpu0el"} -> "cpu0"
    [] kind \in {"bpfel", "bpfeb"} -> "bpf"
    [] kind \in {"sparcv9", "sparcel", "sparc"} -> "sparc"
    [] kind = "systemz" -> "s390"
    [] kind \in {"x86", "x86_64"} -> "x86"
    [] kind \in {"nvptx", "nvptx64"} -> "nvvm"
    [] kind \in {"amdil", "amdil64"} -> "amdil"
    [] kind \in {"hsail", "hsail64"} -> "hsail"
    [] kind \in {"spir", "spir64"} -> "spir"
    [] kind \in {"wasm32", "wasm64"} -> "wasm"
    [] kind \in {"riscv32", "riscv64"} -> "riscv"
    [] kind \in {"arc", "avr", "hexagon", "amdgcn", "r600", "xcore", "le32", "le64",
                 "kalimba", "lanai", "shave", "ve", "csky"} -> kind
    [] OTHER -> ""

(***************************************************************************)
(* Names that LLVM's target parser knows as an architecture of ARM         *)
(* (external): the instruction set, the byte order, the version and        *)
(* profile, the kind.  It has no kind for a bare "arm", "thumbeb" or       *)
(* "aarch64".                                                              *)
(***************************************************************************)
ARMName(isa, big, version, kind) ==
  [isa |-> isa, big |-> big, version |-> version, kind |-> kind]
ARMNames ==
  "armv7" :> ARMName("ARM", FALSE, <<7, "A">>, "ARMV7A")
  @@ "armebv7" :> ARMName("ARM", TRUE, <<7, "A">>, "ARMV7A")
  @@ "armv7k" :> ARMName("ARM", FALSE, <<7, "A">>, "ARMV7K")
  @@ "thumbv7m" :> ARMName("THUMB", FALSE, <<7, "M">>, "ARMV7M")
  @@ "armv6m" :> ARMName("ARM", FALSE, <<6, "M">>, "ARMV6M")
  @@ "armebv6m" :> ARMName("ARM", TRUE, <<6, "M">>, "ARMV6M")
  @@ "thumbv2" :> ARMName("THUMB", FALSE, <<2, "">>, "ARMV2")
  @@ "armv8.1a" :> ARMName("ARM", FALSE, <<8, "A">>, "ARMV8_1A")
  @@ "aarch64v8" :> ARMName("AARCH64", FALSE, <<8, "A">>, "ARMV8A")
  @@ "xscale" :> ARMName("ARM", FALSE, <<5, "">>, "XSCALE")
  @@ "xscaleeb" :> ARMName("ARM", TRUE, <<5, "">>, "XSCALE")

ParseARMArch(name) ==
  IF name \notin DOMAIN ARMNames THEN "UnknownArch"
  ELSE LET n == ARMNames[name]
       IN  CASE n.isa = "THUMB" /\ n.version[1] \in {2, 3} -> "UnknownArch"
             [] n.version = <<6, "M">> -> IF n.big THEN "thumbeb" ELSE "thumb"
             [] OTHER -> CASE n.isa = "ARM" -> IF n.big THEN "armeb" ELSE "arm"
                           [] n.isa = "THUMB" -> IF n.big THEN "thumbeb" ELSE "thumb"
                           [] n.isa = "AARCH64" -> IF n.big THEN "aarch64_be" ELSE "aarch64"

\* The host is little-endian.
ParseBPFArch(name) ==
  CASE name \in {"bpf", "bpf_le", "bpfel"} -> "bpfel"
    [] name \in {"bpf_be", "bpfeb"} -> "bpfeb"
    [] OTHER -> "UnknownArch"

\* Other names of an architecture.
ArchAliases ==
  <<<<{"i386", "i486", "i586", "i686", "i786", "i886", "i986"}, "x86">>,
    <<{"amd64", "x86_64h"}, "x86_64">>,
    <<{"powerpc", "powerpcspe", "ppc32"}, "ppc">>,
    <<{"powerpcle", "ppc32le"}, "ppcle">>,
    <<{"powerpc64", "ppu"}, "ppc64">>,
    <<{"powerpc64le"}, "ppc64le">>,
    <<{"xscale"}, "arm">>,
    <<{"xscaleeb"}, "armeb">>,
    <<{"arm64", "arm64e"}, "aarch64">>,
    <<{"arm64_32"}, "aarch64_32">>,
    <<{"mipseb", "mipsallegrex", "mipsisa32r6", "mipsr6"}, "mips">>,
    <<{"mipsallegrexel", "mipsisa32r6el", "mipsr6el"}, "mipsel">>,
    <<{"mips64eb", "mipsn32", "mipsisa64r6", "mips64r6", "mipsn32r6"}, "mips64">>,
    <<{"mipsn32el", "mipsisa64r6el", "mips64r6el", "mipsn32r6el"}, "mips64el">>,
    <<{"cpu0eb", "cpu0allegrex"}, "cpu0">>,
    <<{"cpu0allegrexel"}, "cpu0el">>,
    <<{"riscvtoy"}, "riscv32">>,
    <<{"s390x"}, "systemz">>,
    <<{"sparc64"}, "sparcv9">>>>

ParseArch(name) ==
  CASE name \in Archs \ {"x86", "bpfeb", "bpfel"} -> name
    [] StartsWith(name, "kalimba") -> "kalimba"
    [] \E k \in DOMAIN ArchAliases : name \in ArchAliases[k][1] ->
         FirstOf(ArchAliases, {k \in DOMAIN ArchAliases : name \in ArchAliases[k][1]}, "")
    [] StartsWith(name, "arm") \/ StartsWith(name, "thumb") \/ StartsWith(name, "aarch64") ->
         ParseARMArch(name)
    [] StartsWith(name, "bpf") -> ParseBPFArch(name)
    [] OTHER -> "UnknownArch"

\* The name after -march: the one the target registry knows.
ArchTypeForLLVMName(name) ==
  CASE name \in Archs \ {"x86_64", "bpfeb", "bpfel"} -> name
    [] name = "x86-64" -> "x86_64"
    [] name = "arm64" -> "aarch64"
    [] name = "arm64_32" -> "aarch64_32"
    [] name = "ppc32" -> "ppc"
    [] name = "ppc32le" -> "ppcle"
    [] StartsWith(name, "bpf") -> ParseBPFArch(name)
    [] OTHER -> "UnknownArch"

SubArchOfKind(kind) ==
  LET same == {"ARMV6", "ARMV6T2", "ARMV6M", "ARMV7VE", "ARMV7K", "ARMV7M", "ARMV7S",
               "ARMV7EM", "ARMV4T", "ARMV8_1A", "ARMV8_2A", "ARMV8_3A", "ARMV8_4A",
               "ARMV8_5A", "ARMV8_6A", "ARMV8_7A", "ARMV8R", "ARMV8MBaseline",
               "ARMV8MMainline", "ARMV8_1MMainline"}
  IN  CASE kind \in same -> kind
        [] kind = "ARMV5T" -> "ARMV5"
        [] kind \in {"ARMV5TE", "ARMV5TEJ", "IWMMXT", "IWMMXT2", "XSCALE"} -> "ARMV5TE"
        [] kind \in {"ARMV6K", "ARMV6KZ"} -> "ARMV6K"
        [] kind \in {"ARMV7A", "ARMV7R"} -> "ARMV7"
        [] kind = "ARMV8A" -> "ARMV8"
        [] OTHER -> "NoSubArch"

ParseSubArch(name) ==
  CASE StartsWith(name, "mips") /\ (EndsWith(name, "r6el") \/ EndsWith(name, "r6")) -> "Mips_r6"
    [] name = "powerpcspe" -> "PPC_spe"
    [] name = "arm64e" -> "AArch64_arm64e"
    [] name \in DOMAIN ARMNames -> SubArchOfKind(ARMNames[name].kind)
    [] EndsWith(name, "kalimba3") -> "Kalimba_v3"
    [] EndsWith(name, "kalimba4") -> "Kalimba_v4"
    [] EndsWith(name, "kalimba5") -> "Kalimba_v5"
    [] OTHER -> "NoSubArch"

-----------------------------------------------------------------------------
(* Vendors, operating systems, environments and object formats.            *)

VendorNames ==
  <<<<"apple", "Apple">>, <<"pc", "PC">>, <<"scei", "SCEI">>, <<"fsl", "Freescale">>,
    <<"ibm", "IBM">>, <<"img", "ImaginationTechnologies">>, <<"mti", "MipsTechnologies">>,
    <<"nvidia", "NVIDIA">>, <<"csr", "CSR">>, <<"myriad", "Myriad">>, <<"amd", "AMD">>,
    <<"mesa", "Mesa">>, <<"suse", "SUSE">>, <<"oe", "OpenEmbedded">>>>

ParseVendor(name) ==
  FirstOf(VendorNames, {k \in DOMAIN VendorNames : name = VendorNames[k][1]}, "UnknownVendor")

OSNames ==
  <<<<"ananas", "Ananas">>, <<"cloudabi", "CloudABI">>, <<"darwin", "Darwin">>,
    <<"dragonfly", "DragonFly">>, <<"freebsd", "FreeBSD">>, <<"fuchsia", "Fuchsia">>,
    <<"ios", "IOS">>, <<"kfreebsd", "KFreeBSD">>, <<"linux", "Linux">>, <<"lv2", "Lv2">>,
    <<"macos", "MacOSX">>, <<"netbsd", "NetBSD">>, <<"openbsd", "OpenBSD">>,
    <<"solaris", "Solaris">>, <<"win32", "Win32">>, <<"windows", "Win32">>, <<"zos", "ZOS">>,
    <<"haiku", "Haiku">>, <<"minix", "Minix">>, <<"rtems", "RTEMS">>, <<"nacl", "NaCl">>,
    <<"aix", "AIX">>, <<"cuda", "CUDA">>, <<"nvcl", "NVCL">>, <<"amdhsa", "AMDHSA">>,
    <<"ps4", "PS4">>, <<"elfiamcu", "ELFIAMCU">>, <<"tvos", "TvOS">>,
    <<"watchos", "WatchOS">>, <<"mesa3d", "Mesa3D">>, <<"contiki", "Contiki">>,
    <<"amdpal", "AMDPAL">>, <<"hermit", "HermitCore">>, <<"hurd", "Hurd">>,
    <<"wasi", "WASI">>, <<"emscripten", "Emscripten">>>>

ParseOS(name) ==
  FirstOf(OSNames, {k \in DOMAIN OSNames : StartsWith(name, OSNames[k][1])}, "UnknownOS")

EnvironmentNames ==
  <<<<"eabihf", "EABIHF">>, <<"eabi", "EABI">>, <<"gnuabin32", "GNUABIN32">>,
    <<"gnuabi64", "GNUABI64">>, <<"gnueabihf", "GNUEABIHF">>, <<"gnueabi", "GNUEABI">>,
    <<"gnux32", "GNUX32">>, <<"gnu_ilp32", "GNUILP32">>, <<"code16", "CODE16">>,
    <<"gnu", "GNU">>, <<"android", "Android">>, <<"musleabihf", "MuslEABIHF">>,
    <<"musleabi", "MuslEABI">>, <<"musl", "Musl">>, <<"msvc", "MSVC">>,
    <<"itanium", "Itanium">>, <<"cygnus", "Cygnus">>, <<"coreclr", "CoreCLR">>,
    <<"simulator", "Simulator">>, <<"macabi", "MacABI">>>>

ParseEnvironment(name) ==
  FirstOf(EnvironmentNames,
          {k \in DOMAIN EnvironmentNames : StartsWith(name, EnvironmentNames[k][1])},
          "UnknownEnvironment")

\* xcoff before coff.
FormatNames ==
  <<<<"xcoff", "XCOFF">>, <<"coff", "COFF">>, <<"elf", "ELF">>, <<"goff", "GOFF">>,
    <<"macho", "MachO">>, <<"wasm", "Wasm">>>>

ParseFormat(name) ==
  FirstOf(FormatNames, {k \in DOMAIN FormatNames : EndsWith(name, FormatNames[k][1])},
          "UnknownObjectFormat")

KindsOf(table) == {table[k][2] : k \in DOMAIN table}
Vendors == KindsOf(VendorNames)
OSs == KindsOf(OSNames)
Environments == KindsOf(EnvironmentNames)
Formats == KindsOf(FormatNames)

\* What is printed for a kind; the tables of the code agree but for two systems.
NameIn(table, kind, unknown) ==
  LET rows == {k \in DOMAIN table : table[k][2] = kind}
  IN  IF rows = {} THEN unknown ELSE table[CHOOSE k \in rows : \A j \in rows : k <= j][1]
VendorTypeName(kind) == NameIn(VendorNames, kind, "unknown")
OSTypeName(kind) ==
  CASE kind = "MacOSX" -> "macosx" [] kind = "Win32" -> "windows"
    [] OTHER -> NameIn(OSNames, kind, "unknown")
EnvironmentTypeName(kind) == NameIn(EnvironmentNames, kind, "unknown")
ObjectFormatTypeName(kind) == NameIn(FormatNames, kind, "")

-----------------------------------------------------------------------------
(* What an architecture and a system imply.                                *)

IsOSDarwin(os) == os \in {"Darwin", "MacOSX", "IOS", "TvOS", "WatchOS"}

DefaultFormat(arch, os) ==
  CASE arch \in {"UnknownArch", "aarch64", "aarch64_32", "arm", "thumb", "x86", "x86_64"} ->
         IF IsOSDarwin(os) THEN "MachO" ELSE IF os = "Win32" THEN "COFF" ELSE "ELF"
    [] arch \in {"ppc64", "ppc"} -> IF os = "AIX" THEN "XCOFF" ELSE "ELF"
    [] arch = "systemz" -> IF os = "ZOS" THEN "GOFF" ELSE "ELF"
    [] arch \in {"wasm32", "wasm64"} -> "Wasm"
    [] OTHER -> "ELF"

PointerBitWidth(arch) ==
  CASE arch = "UnknownArch" -> 0
    [] arch \in {"avr", "msp430"} -> 16
    [] arch \in {"aarch64", "aarch64_be", "amdgcn", "amdil64", "bpfeb", "bpfel", "hsail64",
                 "le64", "mips64", "mips64el", "nvptx64", "ppc64", "ppc64le",
                 "renderscript64", "riscv64", "sparcv9", "spir64", "systemz", "ve",
                 "wasm64", "x86_64"} -> 64
    [] OTHER -> 32

IsLittleEndian(arch) ==
  arch \in Archs \ {"aarch64_be", "arc", "armeb", "bpfeb", "lanai", "mips64", "mips", "cpu0",
                    "ppc64", "ppc", "sparc", "sparcv9", "systemz", "tce", "thumbeb"}
=============================================================================
