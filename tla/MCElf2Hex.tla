----------------------------- MODULE MCElf2Hex -----------------------------
(***************************************************************************)
(* Files of up to three sections behind each other, of the shapes below.   *)
(***************************************************************************)
EXTENDS Elf2Hex

Sec(text, nobits, sz, syms, illegal) ==
  [text |-> text, nobits |-> nobits, size |-> sz, symbols |-> syms, illegal |-> illegal]

Text(sz, syms) == Sec(TRUE, FALSE, sz, syms, {})
Data(sz) == Sec(FALSE, FALSE, sz, {}, {})
Bss(sz) == Sec(FALSE, TRUE, sz, {}, {})

Shapes == {Text(8, {}), Text(12, {0, 8}), Data(8), Bss(8)}

\* Data in .text, before or behind an instruction; text without bytes; a
\* string; a short .bss; a text section that is shorter than another.
OddShapes == {Sec(TRUE, FALSE, 8, {0}, {4}), Sec(TRUE, FALSE, 8, {0}, {0}),
              Sec(TRUE, TRUE, 8, {0}, {}), Text(4, {0}), Text(8, {4}), Data(5), Bss(6)}

\* Sections at the end of the one before plus a gap.
Place(shapes, gaps) ==
  [i \in DOMAIN shapes |->
     [addr |-> FirstAddr + FoldFunctionOnSet(+, 0, gaps, 1..i)
                 + FoldFunctionOnSet(LAMBDA sh, n : sh.size + n, 0, shapes, 1..i-1)]
       @@ shapes[i]]

\* At the end of a file come sections that take no memory; their address is 0.
Comment == [addr |-> 0] @@ Data(5)

MCObjects ==
  {[sections |-> Append(Place(shapes, gaps), Comment), le |-> (gaps[2] = 0), isr |-> 8 * gaps[2],
    main |-> IF shapes[1].text THEN 1 ELSE IF shapes[2].text THEN 2 ELSE 0]
     : <<shapes, gaps>> \in
        ((Shapes \X Shapes \X Shapes) \X ({<<0, 0, 0>>, <<0, 3, 1>>, <<0, 4, 8>>, <<4, 0, 8>>}))
        \cup
        (((Shapes \cup OddShapes) \X (Shapes \cup OddShapes)) \X ({<<0, 0>>, <<0, 3>>, <<2, 4>>}))}

=============================================================================
