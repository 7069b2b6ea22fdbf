---------------------------- MODULE TripleFields ----------------------------
(***************************************************************************)
(* What llvm::Triple promises whoever changes a triple: it is a record of  *)
(* independent kinds.  A format that is not given is the one the           *)
(* architecture and the system imply.                                      *)
(***************************************************************************)
EXTENDS TripleNames

VARIABLES
  fields,  \* what the triple is read as
  asked    \* the change that was asked for last, and to what

vars == <<fields, asked>>

AnyArch == Archs \cup {"UnknownArch"}
AnyFields ==
  [arch : AnyArch, sub : STRING, vendor : Vendors \cup {"UnknownVendor"},
   os : OSs \cup {"UnknownOS"}, env : Environments \cup {"UnknownEnvironment"},
   format : Formats, given : BOOLEAN, version : Seq(Nat), alone : BOOLEAN]

Init == fields \in AnyFields /\ asked = <<>>

\* An architecture that stands alone implies an environment, which is not
\* kept once there is more; a format that is not given changes with the rest.
Becomes(f) ==
  LET g == [f EXCEPT !.alone = FALSE,
                     !.env = IF fields.alone THEN "UnknownEnvironment" ELSE @]
  IN  fields' = IF g.given THEN g ELSE [g EXCEPT !.format = DefaultFormat(g.arch, g.os)]

BecomesArch(kind) == Becomes([fields EXCEPT !.arch = kind, !.sub = "NoSubArch"])

SetArch == \E kind \in AnyArch : asked' = <<"arch", kind>> /\ BecomesArch(kind)
SetVendor ==
  \E kind \in Vendors :
    asked' = <<"vendor", kind>> /\ Becomes([fields EXCEPT !.vendor = kind])
SetOS ==
  \E kind \in OSs :
    /\ asked' = <<"os", kind>>
    /\ Becomes([fields EXCEPT !.os = kind, !.version = <<0, 0, 0>>])

\* A format that is the default is implied again.
SetEnvironment ==
  \E kind \in Environments :
    /\ asked' = <<"env", kind>>
    /\ fields' = [fields EXCEPT !.alone = FALSE, !.env = kind,
                                !.given = fields.format # DefaultFormat(fields.arch, fields.os)]

SetObjectFormat ==
  \E kind \in Formats :
    /\ asked' = <<"format", kind>>
    /\ fields' = [fields EXCEPT !.alone = FALSE, !.format = kind, !.given = TRUE]

\* Architectures of one family.
Family(kind) ==
  CASE kind \in {"tce", "tcele"} -> "tce"
    [] kind \in {"le32", "le64"} -> "le"
    [] kind \in {"renderscript32", "renderscript64"} -> "renderscript"
    [] ArchTypePrefix(kind) \in {"arm", "aarch64"} -> "arm"
    [] ArchTypePrefix(kind) = "" -> kind
    [] OTHER -> ArchTypePrefix(kind)

Siblings(width, little) ==
  {kind \in Archs : /\ Family(kind) = Family(fields.arch)
                    /\ PointerBitWidth(kind) = width
                    /\ IsLittleEndian(kind) = little}

TakeWidth(v, width) ==
  LET little   == IsLittleEndian(fields.arch)
      siblings == Siblings(width, little)
  IN  /\ asked' = <<"variant", v>>
      /\ IF PointerBitWidth(fields.arch) = width THEN UNCHANGED fields
         ELSE IF siblings = {} THEN BecomesArch("UnknownArch")
         ELSE \E kind \in siblings : BecomesArch(kind)

\* An architecture whose names would lose their suffix, and cpu0, whose
\* variants were not told of each other, become unknown.
TakeByteOrder(v, little) ==
  LET siblings == Siblings(PointerBitWidth(fields.arch), little)
  IN  /\ asked' = <<"variant", v>>
      /\ IF IsLittleEndian(fields.arch) = little THEN UNCHANGED fields
         ELSE IF siblings = {} \/ ArchTypePrefix(fields.arch) \in {"arm", "cpu0"}
           THEN BecomesArch("UnknownArch")
         ELSE \E kind \in siblings : BecomesArch(kind)

\* With a triple that differs in the instruction set of ARM, or, of Apple's,
\* in the environment, the format and the version, and then is no older.
MergeWith ==
  LET f == fields
  IN  /\ asked' = <<"merge">>
      /\ fields' \in AnyFields
      /\ {f.arch, fields'.arch} \in
           {{"arm", "thumb"}, {"armeb", "thumbeb"}, {f.arch}}
      /\ f.sub = fields'.sub /\ f.vendor = fields'.vendor /\ f.os = fields'.os
      /\ f.vendor # "Apple" => f.env = fields'.env /\ f.format = fields'.format
      /\ f.vendor = "Apple" =>
           \E k \in 1 .. 4 : /\ \A j \in 1 .. k - 1 : f.version[j] = fields'.version[j]
                             /\ k = 4 \/ f.version[k] < fields'.version[k]

Next ==
  \/ SetArch \/ SetVendor \/ SetOS \/ SetEnvironment \/ SetObjectFormat
  \/ TakeWidth("32", 32) \/ TakeWidth("64", 64)
  \/ TakeByteOrder("little", TRUE) \/ TakeByteOrder("big", FALSE)
  \/ MergeWith

Spec == Init /\ [][Next]_vars
=============================================================================
