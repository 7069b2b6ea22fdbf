------------------------------ MODULE MCFrames ------------------------------
(***************************************************************************)
(* Programs for Cpu0Frames: what decides a frame, in the combinations that *)
(* the comments of the source call delicate.  MaxImm is 31, so a call      *)
(* frame of 24 bytes is too large to be reserved.                          *)
(***************************************************************************)
EXTENDS Cpu0FramesInv

F == [abi |-> "O32", pic |-> FALSE, tails |-> FALSE,
      conv |-> "C", args |-> <<>>, vararg |-> FALSE, locals |-> 0, uses |-> {},
      dyn |-> FALSE, frameAddr |-> FALSE, eh |-> FALSE, calls |-> <<>>]
Site(fn, extra) == [callee |-> fn, tail |-> FALSE, extra |-> extra]
Tail1(fn)       == [callee |-> fn, tail |-> TRUE, extra |-> <<>>]
Ints(n) == [i \in 1 .. n |-> I32]

\* Structures, i64, variable arguments; nested calls; s0 and s1 in use.
Arguments ==
  [main  |-> [F EXCEPT !.locals = 1, !.uses = {"s0"},
                       !.calls = <<Site("byval", <<>>), Site("var", <<I64, I32>>)>>],
   byval |-> [F EXCEPT !.args = <<I32, Struct(3, 4), I64>>, !.uses = {"s1"},
                       !.calls = <<Site("mixed", <<>>)>>],
   mixed |-> [F EXCEPT !.args = <<I32, I64, I32>>, !.locals = 1],
   var   |-> [F EXCEPT !.args = <<I32>>, !.vararg = TRUE, !.uses = {"s0"},
                       !.calls = <<Site("wide", <<>>), Site("none", <<I32, I32, I32>>)>>],
   wide  |-> [F EXCEPT !.args = <<I64, Struct(1, 8), I32>>],
   none  |-> [F EXCEPT !.vararg = TRUE, !.locals = 1]]

\* Allocated stack space, a frame pointer, and fp as an ordinary register.
Dynamic ==
  [main |-> [F EXCEPT !.locals = 1, !.uses = {"s0"}, !.dyn = TRUE,
                      !.calls = <<Site("addr", <<>>), Site("plain", <<>>)>>],
   addr |-> [F EXCEPT !.args = Ints(4), !.locals = 1, !.frameAddr = TRUE,
                      !.uses = {"fp", "s1"}, !.calls = <<Site("leaf", <<>>)>>],
   plain |-> [F EXCEPT !.args = <<I32, Struct(1, 4), I32>>, !.uses = {"fp"},
                       !.dyn = TRUE],
   leaf |-> [F EXCEPT !.args = Ints(3), !.uses = {"fp"}]]

\* Tail calls: from C to fast, with a frame to pop, and one that is refused.
Tails ==
  [main  |-> [F EXCEPT !.uses = {"s0"}, !.calls = <<Site("outer", <<>>), Site("mid", <<>>)>>],
   outer |-> [F EXCEPT !.args = Ints(4), !.locals = 1, !.uses = {"s0"},
                       !.calls = <<Site("leaf", <<>>), Tail1("quick")>>],
   quick |-> [F EXCEPT !.conv = "fast", !.args = Ints(5), !.uses = {"s1"}, !.frameAddr = TRUE,
                       !.calls = <<Tail1("leaf")>>],
   mid   |-> [F EXCEPT !.locals = 1, !.calls = <<Site("small", <<>>)>>],
   small |-> [F EXCEPT !.args = Ints(1), !.locals = 1, !.calls = <<Tail1("outer")>>],
   leaf  |-> F]

\* A function that calls llvm.eh.return, with and without a call before it.
Throws ==
  [main  |-> [F EXCEPT !.locals = 1, !.uses = {"s0"}, !.calls = <<Site("throw", <<>>)>>],
   throw |-> [F EXCEPT !.args = Ints(2), !.locals = 1, !.uses = {"s0", "s1"}, !.eh = TRUE,
                       !.calls = <<Site("raise", <<>>)>>],
   raise |-> [F EXCEPT !.args = Ints(3), !.eh = TRUE]]

\* Position-independent: every call passes three words, and an even number
\* of words is saved, so the slot of gp falls into padding.
Independent ==
  [main  |-> [F EXCEPT !.locals = 1, !.calls = <<Site("mid", <<>>), Site("leaf", <<>>)>>],
   mid   |-> [F EXCEPT !.args = Ints(3), !.uses = {"s0"}, !.frameAddr = TRUE, !.locals = 1,
                       !.calls = <<Site("leaf", <<>>)>>],
   leaf  |-> [F EXCEPT !.args = Ints(3), !.locals = 1]]

\* The outgoing area of main is too large to be reserved.
Large ==
  [main |-> [F EXCEPT !.locals = 1, !.uses = {"s0"}, !.calls = <<Site("many", <<>>)>>],
   many |-> [F EXCEPT !.args = Ints(6), !.uses = {"s0"}]]

MCSources ==
  [args |-> Arguments, dyn |-> Dynamic, tails |-> Tails, eh |-> Throws,
   pic |-> Independent, large |-> Large]

\* The programs, by source and ABI; a function has the name of its program
\* and its own there.
MCPrograms == {"args", "tails"} \X {"O32", "S32"} \cup {"dyn", "eh", "pic", "large"} \X {"O32"}

Compile[sources \in {MCSources}] ==
  [x \in UNION {{p} \X DOMAIN sources[p[1]] : p \in MCPrograms} |->
     [sources[x[1][1]][x[2]] EXCEPT
        !.abi = x[1][2], !.pic = x[1][1] = "pic", !.tails = x[1][1] = "tails",
        !.calls = [k \in DOMAIN @ |-> [@[k] EXCEPT !.callee = <<x[1], @>>]]]]

MCFuncs   == Compile[MCSources]
MCEntries == {<<p, "main">> : p \in MCPrograms}

\* The functions above are of those that the theorems about frames are for.
ASSUME MCFuncsHandled == Handled
=============================================================================
