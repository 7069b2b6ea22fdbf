----------------------------- MODULE MCRiscvToy -----------------------------
(***************************************************************************)
(* Programs for RiscvToy.                                                  *)
(***************************************************************************)
EXTENDS RiscvToy

MCW == 30

Block(ops, term) == [ops |-> ops, term |-> term, pad |-> 0, data |-> <<>>]
Fn(args, locals, saved, blocks) ==
  [args |-> args, locals |-> locals, saved |-> saved, blocks |-> blocks]
Program(funcs, order, args, ptr, shuffled) ==
  [funcs |-> funcs, order |-> order, args |-> args, ptr |-> ptr, shuffled |-> shuffled]
Single(f, args) == Program([main |-> f], <<"main">>, args, "", "main")

(* Every condition as a value, against zero, in a select and in a branch.  *)
Conditions == {"EQ", "NE", "LT", "GE", "GT", "LE", "ULT", "UGE", "UGT", "ULE"}
Compare(cc) ==
  Fn(2, <<>>, {},
     <<Block(<<<<"setcc", 5, cc, 10, 11>>, <<"setcc", 7, cc, 10, 0>>,
               <<"shc", "SLL", 7, 7, 1>>, <<"bin", "OR", 28, 5, 7>>,
               <<"select", 6, cc, 11, 10, 10, 11>>>>, <<"condbr", cc, 10, 11, 2, 3>>),
       Block(<<<<"addc", 28, 28, 4>>>>, <<"br", 4>>),
       Block(<<<<"addc", 28, 28, 8>>>>, <<"br", 4>>),
       Block(<<<<"shc", "SLL", 28, 28, 8>>, <<"bin", "XOR", 28, 28, 6>>>>, <<"ret", 28>>)>>)
Comparisons ==
  {Single(Compare(cc), args) : cc \in Conditions, args \in {<<-1, 3>>, <<3, -1>>, <<7, 7>>}}

(* Constants around the bounds of the immediate and of the rounding.       *)
Constants == {0, -1, 2047, 2048, -2048, -2049, 4095, 4096, 6143, 6144, -6145,
              2 ^ 29 - 1, 2 ^ 29 - 2048, 2 ^ 29 - 2049, -(2 ^ 29)}
ConstantPrograms ==
  {Single(Fn(0, <<>>, {}, <<Block(<<<<"const", 5, c>>>>, <<"ret", 5>>)>>), <<>>) : c \in Constants}

(* Loads and stores of every width in a frame of three objects.            *)
Accesses ==
  Fn(2, <<4, 3, 8>>, {8},
     <<Block(<<<<"store", "SW", 10, 1, 0>>, <<"store", "SW", 11, 3, 4>>,
               <<"store", "SH", 10, 3, 0>>, <<"store", "SB", 11, 2, 2>>,
               <<"store", "SB", 10, 1, 1>>,
               <<"load", "LB", 8, 2, 2>>, <<"load", "LBU", 5, 2, 2>>,
               <<"bin", "ADD", 8, 8, 5>>, <<"load", "LH", 5, 3, 0>>, <<"bin", "XOR", 8, 8, 5>>,
               <<"load", "LHU", 6, 3, 0>>, <<"bin", "SUB", 8, 8, 6>>,
               <<"load", "LW", 6, 1, 0>>, <<"load", "LW", 7, 3, 4>>,
               <<"bin", "SUB", 6, 6, 7>>, <<"shc", "SRA", 7, 6, 3>>, <<"shc", "SRL", 5, 6, 5>>,
               <<"bin", "AND", 5, 5, 7>>, <<"bin", "XOR", 8, 8, 5>>>>, <<"ret", 8>>)>>)
(* A loop over a frame of the given object sizes.                          *)
Loop(locals, far) ==
  Fn(1, locals, {},
     <<Block(<<<<"const", 5, 0>>, <<"store", "SW", 5, 1, far>>>>, <<"br", 2>>),
       Block(<<<<"load", "LW", 6, 1, far>>, <<"bin", "ADD", 6, 6, 10>>,
               <<"store", "SW", 6, 1, far>>, <<"addc", 10, 10, -1>>>>, <<"condbrv", 10, 2, 3>>),
       Block(<<>>, <<"ret", 6>>)>>)
Frames ==
  {Single(Accesses, <<-77, 200>>), Single(Loop(<<4000>>, 0), <<3>>),
   Single(Loop(<<4096>>, 2044), <<2>>), Single(Loop(<<2048>>, 2044), <<2>>),
   Single(Loop(<<6200>>, 40), <<2>>), Single(Loop(<<4, 2040>>, 0), <<2>>),
   Single(Loop(<<4, 2044>>, 0), <<2>>), Single(Loop(<<4000>>, 2048), <<1>>)}

(* Calls: main keeps two values over calls of g, which calls leaf.         *)
Leaf == Fn(2, <<>>, {}, <<Block(<<<<"bin", "SUB", 5, 10, 11>>, <<"const", 11, 9>>,
                                  <<"const", 17, 1>>>>, <<"ret", 5>>)>>)
Inner(leaf) ==
  Fn(2, <<4>>, {1, 18},
     <<Block(<<<<"addc", 18, 10, 5>>, <<"store", "SW", 11, 1, 0>>,
               <<"call", leaf, <<18, 11>>, 5>>, <<"bin", "ADD", 18, 18, 5>>,
               <<"load", "LW", 6, 1, 0>>>>, <<"condbr", "GT", 18, 6, 2, 3>>),
       Block(<<<<"addc", 18, 18, 100>>>>, <<"br", 3>>),
       Block(<<>>, <<"ret", 18>>)>>)
Caller(g) ==
  Fn(2, <<8>>, {1, 8, 9, 19},
     <<Block(<<<<"addc", 8, 10, 0>>, <<"addc", 9, 11, 0>>, <<"addc", 19, 17, 0>>,
               <<"call", g, <<8, 9>>, 8>>, <<"store", "SW", 8, 1, 4>>,
               <<"calli", 19, <<9, 8>>, 9>>, <<"load", "LW", 5, 1, 4>>,
               <<"bin", "SUB", 9, 9, 5>>>>, <<"ret", 9>>)>>)
Calls(g, leaf, args) ==
  Program("main" :> Caller(g) @@ g :> Inner(leaf) @@ leaf :> Leaf,
          <<"main", g, leaf>>, args, leaf, g)

Take(n) == Fn(n, <<>>, {}, <<Block(<<<<"bin", "SUB", 5, 10, 9 + n>>>>, <<"ret", 5>>)>>)
Pass(n) ==
  Fn(1, <<>>, {1, 8},
     <<Block(<<<<"addc", 8, 10, 9>>, <<"const", 9, 44>>,
               <<"call", "take", [i \in 1 .. n |-> IF i = n THEN 9 ELSE 8], 5>>>>, <<"ret", 5>>)>>)
Passing(n) ==
  Program([main |-> [Pass(n) EXCEPT !.saved = {1, 8, 9}], take |-> Take(n)],
          <<"main", "take">>, <<5>>, "", "main")

CallPrograms ==
  {Calls("g", "leaf", <<3, 4>>), Calls("g", "leaf", <<40, -4>>), Calls("g", "t0", <<3, 4>>),
   Passing(9)}

(* Branches and jumps at the ends of their ranges, forwards and backwards. *)
Far(pad, yes) ==
  Fn(2, <<>>, {},
     <<Block(<<<<"const", 5, 1>>>>, <<"condbr", "LT", 10, 11, 3, 2>>),
       Block(<<<<"addc", 5, 5, 2>>, <<"addc", 10, 10, -9>>>>, <<"br", yes>>),
       Block(<<<<"addc", 5, 5, 4>>, <<"addc", 10, 10, 5>>>>, <<"condbr", "GT", 11, 10, 2, 4>>),
       [Block(<<>>, <<"ret", 5>>) EXCEPT !.pad = pad]>>)
FarPrograms ==
  {Single(Far(pad, 4), args) :
     pad \in {1015, 1018, 1020, 1021, 1022, 1100, 2 ^ 18 - 6, 2 ^ 18 - 1},
     args \in {<<3, 4>>, <<4, 3>>, <<-20, 4>>}}

(* Words of other instructions and of none behind a function.              *)
Words == <<Word(51, 10, 0, 11, 12, 1), Word(51, 10, 5, 11, 12, 32), Word(19, 1, 1, 2, 31, 32),
           Word(19, 1, 5, 2, 31, 32), Word(19, 1, 7, 2, 3, 0), Word(19, 1, 3, 2, 31, 127),
           Word(3, 1, 3, 2, 0, 0), Word(3, 31, 5, 2, 17, 64), Word(35, 19, 2, 2, 8, 101),
           Word(35, 0, 3, 2, 8, 1), Word(103, 0, 0, 1, 0, 0), Word(103, 3, 0, 1, 21, 90),
           Word(103, 3, 1, 1, 21, 90), Word(99, 21, 5, 3, 30, 85), Word(99, 10, 2, 3, 30, 42),
           Word(111, 1, 5, 19, 21, 85), Word(111, 0, 2, 12, 10, 42), Word(55, 31, 7, 31, 31, 127),
           Word(19, 5, 5, 6, 3, 1), Word(0, 0, 0, 0, 0, 0)>>
Data ==
  {Single(Fn(1, <<>>, {}, <<[Block(<<>>, <<"ret", 10>>) EXCEPT !.pad = Len(Words),
                                                               !.data = Words]>>), <<6>>)}

MCPrograms ==
  UNION {Comparisons, ConstantPrograms, Frames, CallPrograms, FarPrograms, Data, {Passing(8)}}
=============================================================================
