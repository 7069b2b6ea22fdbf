------------------------------ MODULE AtomicRMW ------------------------------
(***************************************************************************)
(* What an atomicrmw or cmpxchg instruction promises: between its issue    *)
(* and its completion there is one instant at which it reads the addressed *)
(* word and writes it back updated.  Code that is not atomic stores single *)
(* bytes at any time.                                                      *)
(*                                                                         *)
(* Result(i, w) is the value instruction i returns, and Updated(i, w) the  *)
(* word it leaves, when it finds the word w.                               *)
(***************************************************************************)
CONSTANTS
  Threads,           \* hardware threads
  Addrs,             \* word addresses
  Words,             \* values of a word
  Insts,             \* the instructions that may be issued
  AddrOf(_),         \* the word an instruction addresses
  Result(_, _),
  Updated(_, _),
  PlainStores(_),    \* what a byte store can turn a word into
  NoValue            \* the destination register before it is written

VARIABLES
  mem,       \* contents of the memory
  busy,      \* the threads with an instruction in flight
  inst,      \* the instruction a thread issued last
  dest       \* its result

vars == <<mem, busy, inst, dest>>

Init ==
  /\ mem \in [Addrs -> Words]
  /\ busy = {}
  /\ inst \in [Threads -> Insts]
  /\ dest = [t \in Threads |-> NoValue]

Issue(t, i) ==
  /\ t \notin busy
  /\ busy' = busy \cup {t}
  /\ inst' = [inst EXCEPT ![t] = i]
  /\ dest' = [dest EXCEPT ![t] = NoValue]
  /\ UNCHANGED mem

Perform(t) ==
  /\ t \in busy
  /\ busy' = busy \ {t}
  /\ mem' = [mem EXCEPT ![AddrOf(inst[t])] = Updated(inst[t], @)]
  /\ dest' = [dest EXCEPT ![t] = Result(inst[t], mem[AddrOf(inst[t])])]
  /\ UNCHANGED inst

PlainStore(a) ==
  /\ \E w \in PlainStores(mem[a]) : mem' = [mem EXCEPT ![a] = w]
  /\ UNCHANGED <<busy, inst, dest>>

Next ==
  \/ \E t \in Threads : Perform(t) \/ \E i \in Insts : Issue(t, i)
  \/ \E a \in Addrs : PlainStore(a)

Spec == Init /\ [][Next]_vars
=============================================================================
