------------------------------ MODULE MCTriple ------------------------------
EXTENDS Triple

(***************************************************************************)
(* Triples to normalise: every one of up to three different words of       *)
(* these, of four of fewer, and every order of five.                       *)
(***************************************************************************)
Words == {C("cpu0"), C("pc"), C("suse"), C("linux"), C("win32"), C("cygwin"), C("mingw32"),
          C("gnu"), C("gnueabi"), [name |-> "androideabi", ver |-> <<21>>],
          C("elf"), C("macho"), C("foo"), C("")}
Distinct(t) == \A i, j \in DOMAIN t : t[i] = t[j] => i = j
Few == {C("cpu0"), C("pc"), C("linux"), C("win32"), C("mingw32"), C("gnueabi"), C("elf"), C("foo")}
Five == {{C("cpu0"), C("suse"), C("linux"), C("gnueabi"), C("elf")},
         {C("cpu0"), C("pc"), C("win32"), C("gnu"), C("macho")},
         {C("pc"), C("foo"), C("cygwin"), C(""), C("elf")}}
MCInputs == UNION {{t \in [1 .. n -> Words] : Distinct(t)} : n \in 1 .. 3}
   \cup {t \in [1 .. 4 -> Few] : Distinct(t)}
   \cup UNION {{t \in [1 .. 5 -> s] : Distinct(t)} : s \in Five}

\* Triples to change: every architecture alone, and full ones, some with a
\* version; and triples of other modules to merge with.
V(name, ver) == [name |-> name, ver |-> ver]
MCTargets ==
  {<<C(ArchTypeName(kind))>> : kind \in Archs} \cup
  {<<C("cpu0el"), C("unknown"), C("linux"), C("gnu")>>,
   <<C("riscvtoy"), C("unknown"), C("linux")>>, <<C("mipsisa32r6el")>>,
   <<C("xscale"), C("unknown"), C("linux"), C("eabi")>>,
   <<C("xscaleeb"), C("apple"), V("darwin", <<9, 2>>)>>,
   <<C("powerpc"), C("ibm"), C("aix")>>, <<C("x86_64"), C("pc"), C("win32"), C("gnu"), C("elf")>>,
   <<C("sparcel"), C(""), C("solaris"), C("eabihf")>>,
   <<C("armv7"), C("apple"), V("ios", <<9, 1>>)>>, <<C("arm"), C("apple"), V("ios", <<9, 2>>)>>,
   <<C("aarch64"), C("apple"), V("macosx", <<10, 15, 2>>)>>,
   <<C("aarch64"), C("apple"), V("darwin", <<20, 1>>)>>,
   <<C("i386"), C("apple"), V("darwin", <<9, 8, 0>>), C("macho")>>}
MCOthers ==
  {<<C("aarch64"), C("apple"), V("macosx", <<11>>)>>,
   <<C("aarch64"), C("apple"), V("macosx", <<10, 9, 5>>)>>,
   <<C("aarch64"), C("apple"), V("macos", <<10, 15>>), C("macabi")>>,
   <<C("aarch64"), C("apple"), V("darwin", <<19, 6>>)>>,
   <<C("thumbv7m"), C("apple"), V("ios", <<10, 0>>)>>,
   <<C("thumb"), C("apple"), V("ios", <<9, 3>>)>>,
   <<C("arm"), C("apple"), V("ios", <<9, 1>>), C("simulator")>>,
   <<C("cpu0el"), C("unknown"), C("linux"), C("gnu"), C("elf")>>}

MCKinds == {"cpu0el", "ppc64", "x86_64", "Apple", "Win32", "Darwin", "AIX", "GNU", "Android",
            "ELF", "MachO", "XCOFF"}
MCMarchNames == {"x86-64", "arm64_32", "ppc32le", "bpf_be", "riscvtoy", "cpu0"}
=============================================================================
