---------------------------- MODULE ArgumentLists ----------------------------
(***************************************************************************)
(* Every argument list of a bounded length, built one argument at a time:  *)
(* the fixed arguments of a prototype, then what a call passes for its     *)
(* ellipsis.  Checks that the caller's and the callee's half of            *)
(* Cpu0CallConv agree on each, whatever the frames around the call.        *)
(***************************************************************************)
EXTENDS Cpu0CallConv

CONSTANTS
  Conventions,   \* the calling conventions: sets of records of abi and conv
  ArgTypes,      \* the types of arguments
  MaxArgs        \* bound on the length of a list

ASSUME ConventionsAssumption == Conventions \subseteq ConvType
ASSUME ArgTypesAssumption    == ArgTypes \subseteq ArgType

VARIABLES
  cc,      \* the convention of the function
  vararg,  \* whether it is variadic
  args,    \* its fixed arguments
  extra    \* what a call passes for its ellipsis

vars == <<cc, vararg, args, extra>>

\* CallingConv::Fast is not used for vararg functions: analyzeCallOperands.
Init ==
  /\ cc \in Conventions
  /\ vararg \in (IF cc.conv = "fast" THEN {FALSE} ELSE BOOLEAN)
  /\ args = <<>> /\ extra = <<>>

Short == Len(args) + Len(extra) < MaxArgs

AddFixed ==
  /\ Short /\ extra = <<>>
  /\ \E a \in ArgTypes : args' = Append(args, a)
  /\ UNCHANGED <<cc, vararg, extra>>

\* What is passed for an ellipsis is a scalar here.
AddExtra ==
  /\ Short /\ vararg
  /\ \E a \in {b \in ArgTypes : ~b.byval} : extra' = Append(extra, a)
  /\ UNCHANGED <<cc, vararg, args>>

Next == AddFixed \/ AddExtra
Spec == Init /\ [][Next]_vars

-----------------------------------------------------------------------------
Passed == args \o extra
Area   == Analyze(cc, Passed).stack

TypeOK ==
  /\ cc \in Conventions /\ vararg \in BOOLEAN
  /\ args \in Seq(ArgTypes) /\ extra \in Seq(ArgTypes)
  /\ Analyze(cc, Passed).regs \in 0 .. 2
  /\ Area % RegSize = 0

(***************************************************************************)
(* The callee looks for a word where the caller put it: on the stack at    *)
(* the same offset, in the same register, or at the offset where the       *)
(* callee has stored that register.  Two analyses that do not see the same *)
(* argument list decide it: analyzeCallOperands sees the variable          *)
(* arguments, analyzeFormalArguments does not.                             *)
(***************************************************************************)
WordsFound ==
  LET sent  == CallerWords(cc, Passed)
      found == CalleeWords(cc, args, extra)
      homed == ToSet(HomedRegs(cc, args, vararg))
  IN  /\ Len(sent) = Len(found)
      /\ \A i \in DOMAIN sent :
           \/ found[i] = sent[i]
           \/ \E h \in homed : sent[i] = InReg(h.reg) /\ found[i] = OnStack(h.off)

(***************************************************************************)
(* No two words share a register or a stack slot, the callee stores an     *)
(* argument register over no word, and all of it is in the outgoing area   *)
(* whose size LowerCall gives the call frame.                              *)
(***************************************************************************)
WordsApart ==
  LET sent    == CallerWords(cc, Passed)
      onStack == {w \in ToSet(sent) : w.reg = -1}
      homes   == {OnStack(h.off) : h \in ToSet(HomedRegs(cc, args, vararg))}
      area    == Area
  IN  /\ IsInjective(sent)
      /\ homes \cap onStack = {}
      /\ \A w \in homes \cup onStack : w.off \in 0 .. area - RegSize
=============================================================================
