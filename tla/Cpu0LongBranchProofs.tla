------------------------ MODULE Cpu0LongBranchProofs ------------------------
(***************************************************************************)
(* The invariant of Cpu0LongBranch is inductive; and what follows from it  *)
(* about the finished function: its control flow, which branches are short *)
(* and reach, and what the sequence of a long branch does to the registers;*)
(* and that the loops of the pass cannot go on for ever.                   *)
(***************************************************************************)
EXTENDS Cpu0LongBranchInv, SumTheorems, SequenceTheorems, FiniteSetTheorems

-----------------------------------------------------------------------------
(* The blocks that splitMBB makes.                                         *)

LEMMA FuncType ==
  ASSUME func \in Funcs
  PROVE  /\ Len(func) \in Nat /\ Len(func) > 0
         /\ \A n : n \in DOMAIN func <=> n \in 1 .. Len(func)
         /\ func[Len(func)].ret \/ func[Len(func)].jump # 0
         /\ \A n \in 1 .. Len(func) :
              /\ func[n].body \in Nat
              /\ func[n].cond \in 0 .. Len(func) /\ func[n].jump \in 0 .. Len(func)
              /\ func[n].ret \in BOOLEAN
              /\ func[n].ret => func[n].cond = 0 /\ func[n].jump = 0
<1> DEFINE S == [body : Nat, cond : 0 .. Len(func), jump : 0 .. Len(func), ret : BOOLEAN]
<1>1. /\ func \in Seq(S)
      /\ \A n \in DOMAIN func : func[n].ret => func[n].cond = 0 /\ func[n].jump = 0
      /\ Len(func) > 0 /\ (func[Len(func)].ret \/ func[Len(func)].jump # 0)
  BY FunctionsAssumption
<1>2. Len(func) \in Nat /\ func \in [1 .. Len(func) -> S] /\ DOMAIN func = 1 .. Len(func)
  <2>. HIDE DEF S
  <2>. QED
    BY <1>1, LenProperties
<1>. QED
  BY <1>1, <1>2

LEMMA OrigFacts ==
  ASSUME func \in Funcs, NEW id, IsSelf(id)
  PROVE  /\ id[1] \in 1 .. Len(func) /\ id \in Ids /\ id = Name(id[1], id[2], "self")
         /\ Orig(id) \in BlockType
         /\ Orig(id).id = id /\ Orig(id).sense = TRUE
         /\ Orig(id).op \in {"cond", "jmp", "ret", "none"}
         /\ Orig(id).op = "cond" <=> id[2] = "first" /\ func[id[1]].cond # 0
         /\ Orig(id).op = "cond" => Orig(id).tgt = Entry(func[id[1]].cond)
         /\ Orig(id).op = "jmp" <=> /\ func[id[1]].jump # 0
                                    /\ id[2] = "second" \/ func[id[1]].cond = 0
         /\ Orig(id).op = "jmp" => Orig(id).tgt = Entry(func[id[1]].jump)
         /\ Orig(id).op = "ret" <=> func[id[1]].ret
         /\ Orig(id).op \in {"ret", "none"} => Orig(id).tgt = id
<1> DEFINE n == id[1]
<1>1. /\ n \in 1 .. Len(func) /\ id \in Ids /\ id = Name(n, id[2], "self")
      /\ id[2] \in {"first", "second"}
  BY DEF IsSelf, Ids, Name
<1>2. /\ func[n].body \in Nat
      /\ func[n].cond \in 0 .. Len(func) /\ func[n].jump \in 0 .. Len(func)
      /\ func[n].ret \in BOOLEAN
      /\ func[n].ret => func[n].cond = 0 /\ func[n].jump = 0
      /\ Len(func) \in Nat
  BY <1>1, FuncType
<1>3. CASE func[n].cond # 0 /\ func[n].jump # 0
  <2>1. CASE id[2] = "first"
    BY SMTT(60), <1>1, <1>2, <1>3, <2>1 DEF Orig, SplitMBB, Block, BlockType, Ids, Entry, Name
  <2>2. CASE id[2] = "second"
    BY <1>1, <1>2, <1>3, <2>2 DEF Orig, SplitMBB, Block, BlockType, Ids, Entry, Name
  <2>. QED
    BY <1>1, <2>1, <2>2
<1>4. CASE ~(func[n].cond # 0 /\ func[n].jump # 0)
  <2>1. id[2] = "first" /\ id = Entry(n)
    BY <1>1, <1>4 DEF IsSelf, Entry
  <2>2. CASE func[n].cond # 0
    BY <1>1, <1>2, <1>4, <2>1, <2>2 DEF Orig, SplitMBB, Block, BlockType, Ids, Entry, Name
  <2>3. CASE func[n].jump # 0
    BY <1>1, <1>2, <1>4, <2>1, <2>3 DEF Orig, SplitMBB, Block, BlockType, Ids, Entry, Name
  <2>4. CASE func[n].cond = 0 /\ func[n].jump = 0
    BY <1>1, <1>2, <1>4, <2>1, <2>4 DEF Orig, SplitMBB, Block, BlockType, Ids, Entry, Name
  <2>. QED
    BY <2>2, <2>3, <2>4
<1>. QED
  BY <1>3, <1>4

LEMMA Tuples ==
  ASSUME NEW S, NEW x \in S
  PROVE  /\ <<x>> \in Seq(S) /\ Len(<<x>>) = 1 /\ <<x>>[1] = x
         /\ \A y \in S : /\ <<x, y>> \in Seq(S) /\ Len(<<x, y>>) = 2
                         /\ <<x, y>>[1] = x /\ <<x, y>>[2] = y
OBVIOUS

LEMMA FunctionIsSeq ==
  ASSUME NEW S, NEW n \in Nat, NEW s \in [1 .. n -> S]
  PROVE  s \in Seq(S) /\ Len(s) = n
<1>1. s \in Seq(S)
  BY SeqDef
<1>2. Len(s) \in Nat /\ \A k : k \in 1 .. Len(s) <=> k \in 1 .. n
  BY <1>1, LenProperties
<1>3. Len(s) > 0 => Len(s) <= n
  BY <1>2
<1>4. n > 0 => n <= Len(s)
  BY <1>2
<1>. QED
  BY <1>1, <1>2, <1>3, <1>4

LEMMA SplitFacts ==
  ASSUME func \in Funcs, NEW n \in 1 .. Len(func)
  PROVE  LET both == func[n].cond # 0 /\ func[n].jump # 0
         IN  /\ IsSelf(Entry(n))
             /\ both => IsSelf(Name(n, "second", "self"))
             /\ SplitMBB(n) \in Seq(BlockType)
             /\ Len(SplitMBB(n)) = IF both THEN 2 ELSE 1
             /\ SplitMBB(n)[1] = Orig(Entry(n))
             /\ both => SplitMBB(n)[2] = Orig(Name(n, "second", "self"))
<1> DEFINE both == func[n].cond # 0 /\ func[n].jump # 0
           tail == Name(n, "second", "self")
<1>1. IsSelf(Entry(n)) /\ (both => IsSelf(tail))
  BY DEF IsSelf, Ids, Entry, Name
<1>2. SplitMBB(n)[1] = Orig(Entry(n)) /\ SplitMBB(n)[2] = Orig(tail)
  BY DEF Orig, Entry, Name
<1>3. Orig(Entry(n)) \in BlockType /\ (both => Orig(tail) \in BlockType)
  BY <1>1, OrigFacts
<1>4. CASE both
  <2>1. SplitMBB(n) = <<SplitMBB(n)[1], SplitMBB(n)[2]>>
    BY <1>4 DEF SplitMBB
  <2>. QED
    BY SMTT(60), <1>1, <1>2, <1>3, <1>4, <2>1
<1>5. CASE ~both
  <2>1. SplitMBB(n) = <<SplitMBB(n)[1]>>
    BY <1>5, FuncType DEF SplitMBB
  <2>2. /\ SplitMBB(n) \in Seq(BlockType) /\ Len(SplitMBB(n)) = 1
        /\ SplitMBB(n)[1] = Orig(Entry(n))
    BY ZenonT(60), <1>2, <1>3, <2>1, Tuples
  <2>. QED
    BY <1>1, <1>5, <2>2
<1>. QED
  BY <1>4, <1>5

LEMMA NextSelfFacts ==
  ASSUME func \in Funcs, NEW id, IsSelf(id)
  PROVE  LET n == id[1]
         IN  \/ /\ id = Entry(n) /\ func[n].cond # 0 /\ func[n].jump # 0
                /\ NextSelf(id) = Name(n, "second", "self") /\ IsSelf(NextSelf(id))
             \/ /\ id = Entry(n) /\ ~(func[n].cond # 0 /\ func[n].jump # 0)
                /\ NextSelf(id) = Entry(n + 1)
             \/ /\ id = Name(n, "second", "self")
                /\ func[n].cond # 0 /\ func[n].jump # 0
                /\ NextSelf(id) = Entry(n + 1)
BY OrigFacts DEF NextSelf, IsSelf, Ids, Entry, Name

LEMMA InputKept ==
  ASSUME UNCHANGED input
  PROVE  /\ \A id : /\ Orig(id)' = Orig(id) /\ IsSelf(id)' = IsSelf(id)
                    /\ NextSelf(id)' = NextSelf(id)
         /\ \A b : Sequence(b)' = Sequence(b)
         /\ Own' = Own /\ LongBranchSeqSize' = LongBranchSeqSize
         /\ Ids' = Ids /\ BlockType' = BlockType /\ InfoType' = InfoType
BY DEF input, Orig, IsSelf, NextSelf, Sequence, Own, LongBranchSeqSize, Ids, BlockType, InfoType,
       SplitMBB

LEMMA BlocksType ==
  ASSUME BlocksInv
  PROVE  /\ Len(blocks) \in Nat
         /\ \A p : p \in DOMAIN blocks <=> p \in 1 .. Len(blocks)
         /\ \A p \in DOMAIN blocks : blocks[p] \in BlockType
BY LenProperties DEF BlocksInv

-----------------------------------------------------------------------------
(* Each action keeps the invariant.                                        *)

LEMMA InitIInv == Init => IInv
<1> SUFFICES ASSUME Init PROVE IInv
  OBVIOUS
<1>1. Len(func) \in Nat /\ Len(func) > 0
  BY FuncType DEF Init
<1>2. BlocksInv
  BY DEF Init, BlocksInv
<1>3. InputInv
  <2>1. at \in 1 .. (IF phase = "split" THEN Len(func) ELSE Len(infos)) + 1
    BY <1>1 DEF Init
  <2>. QED
    BY <2>1 DEF Init, InputInv
<1>4. SplitInv
  BY DEF Init, SplitInv
<1>. QED
  BY <1>2, <1>3, <1>4 DEF Init, IInv, InfosInv, OrderInv, GroupInv, RoundInv

LEMMA SplitStep ==
  ASSUME IInv, Split
  PROVE  IInv'
<1> DEFINE both == func[at].cond # 0 /\ func[at].jump # 0
           tail == Name(at, "second", "self")
           N    == Len(blocks)
<1>1. /\ phase = "split" /\ at \in 1 .. Len(func) /\ Len(func) \in Nat
      /\ func \in Funcs /\ BlocksInv /\ SplitInv /\ InputInv
  BY FuncType DEF IInv, InputInv, Split
<1>2. UNCHANGED input /\ phase' = "split" /\ at' = at + 1 /\ infos' = infos
  BY <1>1 DEF Split
<1>3. /\ IsSelf(Entry(at)) /\ (both => IsSelf(tail))
      /\ SplitMBB(at) \in Seq(BlockType)
      /\ Len(SplitMBB(at)) = IF both THEN 2 ELSE 1
      /\ SplitMBB(at)[1] = Orig(Entry(at))
      /\ both => SplitMBB(at)[2] = Orig(tail)
  BY <1>1, SplitFacts
<1>4. /\ N \in Nat /\ blocks \in Seq(BlockType)
      /\ \A p : p \in DOMAIN blocks <=> p \in 1 .. N
  BY <1>1, BlocksType DEF BlocksInv
<1>5. /\ blocks' \in Seq(BlockType)
      /\ Len(blocks') = N + IF both THEN 2 ELSE 1
      /\ \A p : p \in DOMAIN blocks' <=> p \in 1 .. Len(blocks')
      /\ \A p \in 1 .. N : blocks'[p] = blocks[p]
      /\ blocks'[N + 1] = Orig(Entry(at))
      /\ both => blocks'[N + 2] = Orig(tail)
  <2>1. blocks' = blocks \o SplitMBB(at)
    BY DEF Split
  <2>2. /\ blocks' \in Seq(BlockType)
        /\ Len(blocks') = N + Len(SplitMBB(at))
        /\ \A p \in 1 .. N + Len(SplitMBB(at)) :
             blocks'[p] = IF p <= N THEN blocks[p] ELSE SplitMBB(at)[p - N]
    BY <2>1, <1>3, <1>4, ConcatProperties
  <2>3. \A p : p \in DOMAIN blocks' <=> p \in 1 .. Len(blocks')
    BY <2>2, LenProperties
  <2>. QED
    BY <1>3, <1>4, <2>2, <2>3
<1>6. /\ Orig(Entry(at)).id = Entry(at)
      /\ both => Orig(tail).id = tail
  BY <1>1, <1>3, OrigFacts
<1>7. \A p \in DOMAIN blocks' :
        \/ p \in DOMAIN blocks /\ blocks'[p] = blocks[p]
        \/ p = N + 1 /\ blocks'[p] = Orig(Entry(at)) /\ blocks'[p].id = Entry(at)
        \/ p = N + 2 /\ both /\ blocks'[p] = Orig(tail) /\ blocks'[p].id = tail
  BY <1>4, <1>5, <1>6
<1>8. InputInv'
  BY <1>1, <1>2 DEF InputInv, Split, input
<1>9. BlocksInv'
  <2>1. \A p \in DOMAIN blocks : blocks[p].id[1] < at
    BY <1>1 DEF SplitInv
  <2>2. Entry(at)[1] = at /\ tail[1] = at /\ Entry(at) # tail
    BY DEF Entry, Name
  <2>3. ASSUME NEW p \in DOMAIN blocks', NEW q \in DOMAIN blocks',
               blocks'[q].id = blocks'[p].id
        PROVE  q = p
    <3>. HIDE DEF tail, both, N
    <3>1. blocks'[p].id[1] = at <=> p \notin DOMAIN blocks
      BY <1>1, <1>4, <1>7, <2>1, <2>2
    <3>2. blocks'[q].id[1] = at <=> q \notin DOMAIN blocks
      BY <1>1, <1>4, <1>7, <2>1, <2>2
    <3>3. CASE p \in DOMAIN blocks
      BY <1>1, <1>4, <1>7, <2>3, <3>1, <3>2, <3>3 DEF BlocksInv
    <3>4. CASE p \notin DOMAIN blocks
      BY <1>4, <1>7, <2>2, <2>3, <3>1, <3>2, <3>4
    <3>. QED
      BY <3>3, <3>4
  <2>. QED
    BY <1>2, <1>5, <2>3, InputKept DEF BlocksInv
<1>10. SplitInv'
  <2>1. ASSUME NEW p \in DOMAIN blocks'
        PROVE  /\ IsSelf(blocks'[p].id) /\ blocks'[p].id[1] < at + 1
               /\ blocks'[p] = Orig(blocks'[p].id)
               /\ p + 1 \in DOMAIN blocks' => blocks'[p + 1].id = NextSelf(blocks'[p].id)
    <3>1. CASE p \in DOMAIN blocks /\ blocks'[p] = blocks[p]
      <4>1. /\ IsSelf(blocks[p].id) /\ blocks[p].id[1] < at
            /\ blocks[p] = Orig(blocks[p].id)
            /\ p + 1 \in DOMAIN blocks => blocks[p + 1].id = NextSelf(blocks[p].id)
        BY <1>1, <3>1 DEF SplitInv
      <4>2. blocks[p].id[1] \in 1 .. Len(func)
        BY <1>1, <4>1, OrigFacts
      <4>3. CASE p = N
        <5>1. at # 1
          BY <1>1, <1>4, <3>1 DEF SplitInv
        <5>2. NextSelf(blocks[p].id) = Entry(at)
          BY <1>1, <4>3, <5>1 DEF SplitInv
        <5>. QED
          BY <1>1, <1>5, <1>6, <3>1, <4>1, <4>2, <4>3, <5>2
      <4>4. CASE p # N
        <5>1. p + 1 \in 1 .. N
          BY <1>4, <3>1, <4>4
        <5>. QED
          BY SMTT(60), <1>1, <1>4, <1>5, <3>1, <4>1, <4>2, <5>1
      <4>. QED
        BY <4>3, <4>4
    <3>2. CASE p = N + 1 /\ blocks'[p] = Orig(Entry(at)) /\ blocks'[p].id = Entry(at)
      <4>1. Entry(at)[1] = at
        BY DEF Entry, Name
      <4>2. both => NextSelf(Entry(at)) = tail
        BY DEF NextSelf, Entry, Name
      <4>3. p + 1 \in DOMAIN blocks' => both /\ blocks'[p + 1].id = tail
        BY <1>4, <1>5, <1>6, <3>2
      <4>. QED
        BY <1>1, <1>3, <3>2, <4>1, <4>2, <4>3
    <3>3. CASE p = N + 2 /\ both /\ blocks'[p] = Orig(tail) /\ blocks'[p].id = tail
      <4>1. tail[1] = at
        BY DEF Name
      <4>. QED
        BY <1>1, <1>3, <1>4, <1>5, <3>3, <4>1
    <3>. QED
      BY <1>7, <3>1, <3>2, <3>3
  <2>2. ASSUME NEW n \in 1 .. at' - 1
        PROVE  \E p \in DOMAIN blocks' : blocks'[p].id = Entry(n)
    <3>1. CASE n = at
      BY <1>4, <1>5, <1>6, <3>1
    <3>2. CASE n # at
      <4>1. n \in 1 .. at - 1
        BY <1>1, <1>2, <3>2
      <4>2. PICK p \in DOMAIN blocks : blocks[p].id = Entry(n)
        BY <1>1, <4>1 DEF SplitInv
      <4>. QED
        BY <1>4, <1>5, <4>2
    <3>. QED
      BY <3>1, <3>2
  <2>3. blocks' # <<>> /\ NextSelf(blocks'[Len(blocks')].id) = Entry(at')
    <3>1. blocks' # <<>>
      BY <1>4, <1>5
    <3>2. both => NextSelf(tail) = Entry(at + 1)
      BY DEF NextSelf, Name
    <3>3. ~both => NextSelf(Entry(at)) = Entry(at + 1)
      BY DEF NextSelf, Entry, Name
    <3>. QED
      BY <1>2, <1>4, <1>5, <1>6, <3>1, <3>2, <3>3
  <2>4. at' # 1 /\ infos' = <<>> /\ made' = FALSE /\ ever' = FALSE
    BY <1>1 DEF Split, SplitInv
  <2>. QED
    BY <1>2, <2>1, <2>2, <2>3, <2>4, InputKept DEF SplitInv
<1>. QED
  BY <1>2, <1>8, <1>9, <1>10 DEF IInv, InfosInv, OrderInv, GroupInv, RoundInv

LEMMA InfosType ==
  ASSUME InfosInv, phase # "split"
  PROVE  /\ Len(infos) \in Nat
         /\ \A e : e \in DOMAIN infos <=> e \in 1 .. Len(infos)
         /\ \A e \in DOMAIN infos :
              infos[e] \in InfoType
BY LenProperties DEF InfosInv

LEMMA MeasureStep ==
  ASSUME IInv, Measure
  PROVE  IInv'
<1> DEFINE N == Len(blocks)
<1>1. /\ phase = "split" /\ at = Len(func) + 1 /\ Len(func) \in Nat /\ Len(func) > 0
      /\ func \in Funcs /\ BlocksInv /\ SplitInv /\ InputInv
  BY FuncType DEF IInv, InputInv, Measure
<1>2. /\ UNCHANGED input /\ phase' = "scan" /\ at' = 1 /\ blocks' = blocks
      /\ made' = FALSE /\ ever' = FALSE
  BY <1>1 DEF Measure, SplitInv
<1>3. N \in Nat /\ \A p : p \in DOMAIN blocks <=> p \in 1 .. N
  BY <1>1, BlocksType
<1>3a. \A p \in DOMAIN blocks : blocks[p] \in BlockType
  BY <1>1, BlocksType
<1>4. \A p \in DOMAIN blocks :
        /\ IsSelf(blocks[p].id) /\ blocks[p] = Orig(blocks[p].id)
        /\ p # N => blocks[p + 1].id = NextSelf(blocks[p].id)
  BY <1>1, <1>3 DEF SplitInv
<1>5. N > 0 /\ NextSelf(blocks[N].id) = Entry(Len(func) + 1)
  BY <1>1, <1>3 DEF SplitInv, BlocksInv
<1>6. /\ infos' \in Seq(InfoType) /\ Len(infos') = N
      /\ \A e : e \in DOMAIN infos' <=> e \in 1 .. N
      /\ \A e \in 1 .. N :
           /\ infos'[e].mbb = blocks[e].id
           /\ infos'[e].size = SizeOf(blocks[e])
           /\ infos'[e].br <=> blocks[e].op = "cond" \/ (blocks[e].op = "jmp" /\ isPIC)
           /\ infos'[e].long = FALSE
  <2>1. infos' = InitMBBInfo(blocks)
    BY DEF Measure
  <2>2. \A p \in DOMAIN blocks : blocks[p].id \in Ids /\ SizeOf(blocks[p]) \in Nat
    BY <1>3a DEF BlockType, SizeOf, BranchWords
  <2>3. InitMBBInfo(blocks) \in [1 .. N -> InfoType]
    BY <1>1, <1>3, <2>2 DEF InitMBBInfo, InputInv, InfoType
  <2>4. infos' \in Seq(InfoType) /\ Len(infos') = N
    BY <1>3, <2>1, <2>3, FunctionIsSeq
  <2>. QED
    BY <1>3, <2>1, <2>3, <2>4 DEF InitMBBInfo
<1>7. InputInv'
  <2>1. at' \in 1 .. (IF phase' = "split" THEN Len(func') ELSE Len(infos')) + 1
    BY <1>2, <1>3, <1>6
  <2>. QED
    BY <1>1, <1>2, <2>1 DEF InputInv, input
<1>8. BlocksInv' /\ SplitInv'
  BY <1>1, <1>2, InputKept DEF BlocksInv, SplitInv
<1>9. InfosInv'
  <2>1. \A e \in DOMAIN infos' :
          /\ IsSelf(infos'[e].mbb)
          /\ infos'[e].br <=> \/ Orig(infos'[e].mbb).op = "cond"
                              \/ Orig(infos'[e].mbb).op = "jmp" /\ isPIC
          /\ infos'[e].long = FALSE
          /\ infos'[e].size = SizeOf(Orig(infos'[e].mbb))
          /\ NextSelf(infos'[e].mbb)
              = IF e < N THEN infos'[e + 1].mbb ELSE Entry(Len(func) + 1)
    <3>1. ASSUME NEW e \in 1 .. N
          PROVE NextSelf(infos'[e].mbb)
                  = IF e < N THEN infos'[e + 1].mbb ELSE Entry(Len(func) + 1)
      <4>1. CASE e = N
        BY <1>3, <1>5, <1>6, <4>1
      <4>2. CASE e # N
        <5>1. e + 1 \in 1 .. N /\ e < N
          BY <1>3, <4>2
        <5>. QED
          BY <1>3, <1>4, <1>6, <4>2, <5>1
      <4>. QED
        BY <4>1, <4>2
    <3>. QED
      BY <1>3, <1>4, <1>6, <3>1
  <2>2. \A e, t \in DOMAIN infos' : infos'[t].mbb = infos'[e].mbb => t = e
    BY <1>1, <1>3, <1>6 DEF BlocksInv
  <2>3. \A n \in DOMAIN func : \E e \in DOMAIN infos' : infos'[e].mbb = Entry(n)
    <3>1. ASSUME NEW n \in 1 .. Len(func)
          PROVE  \E e \in DOMAIN infos' : infos'[e].mbb = Entry(n)
      <4>1. PICK p \in DOMAIN blocks : blocks[p].id = Entry(n)
        <5>1. n \in 1 .. at - 1
          BY <1>1
        <5>. QED
          BY <1>1, <5>1 DEF SplitInv
      <4>. QED
        BY <1>3, <1>6, <4>1
    <3>. QED
      BY <1>1, <3>1, FuncType
  <2>4. \A e \in DOMAIN infos' :
          infos'[e].size = SizeOf(Orig(infos'[e].mbb))
                             + IF infos'[e].long THEN LongBranchSeqSize * 4 ELSE 0
    BY <1>3, <1>3a, <1>4, <1>6, <2>1 DEF BlockType, SizeOf, BranchWords
  <2>5. func' = func /\ isPIC' = isPIC
    BY <1>2 DEF input
  <2>. QED
    BY <1>2, <1>6, <2>1, <2>2, <2>3, <2>4, <2>5, InputKept DEF InfosInv
<1>10. \A e, p : IsAt(e, p)' <=> e \in 1 .. N /\ p = e
  BY <1>1, <1>2, <1>3, <1>6 DEF IsAt, BlocksInv
<1>11. \A e : Expanded(e)' = FALSE /\ Behind(e)' = 0
  BY <1>2 DEF Expanded, Behind
<1>12. OrderInv'
  <2>1. \A p \in DOMAIN blocks : blocks[p].id = Name(blocks[p].id[1], blocks[p].id[2], "self")
    BY <1>1, <1>4, OrigFacts
  <2>2. \A p \in DOMAIN blocks : blocks[p].id[3] = "self"
    BY <1>4 DEF IsSelf
  <2>. QED
    BY <1>2, <1>3, <1>5, <1>6, <1>10, <2>1, <2>2 DEF OrderInv
<1>13. GroupInv'
  <2>1. ASSUME NEW e \in 1 .. N
        PROVE  /\ blocks[e] = Orig(infos'[e].mbb)
               /\ e + 0 \in DOMAIN blocks
               /\ IF e = Len(infos') THEN e + 0 = Len(blocks) ELSE IsAt(e + 1, e + 0 + 1)'
    BY <1>3, <1>4, <1>6, <1>10
  <2>. QED
    BY <1>2, <1>3, <1>6, <1>10, <1>11, <2>1, InputKept DEF GroupInv
<1>14. RoundInv'
  BY <1>2, <1>6 DEF RoundInv, LongNeeded
<1>. QED
  BY <1>7, <1>8, <1>9, <1>12, <1>13, <1>14 DEF IInv

LEMMA PositionIs ==
  ASSUME BlocksInv, NEW p \in DOMAIN blocks
  PROVE  Position(blocks, blocks[p].id) = p
BY DEF BlocksInv, Position

\* The layout does not change while the blocks and the expanded entries do not.
LEMMA LayoutKept ==
  ASSUME phase # "split", phase' # "split", phase' = "scan" => phase = "scan",
         OrderInv, GroupInv, UNCHANGED <<input, blocks>>, Len(infos') = Len(infos),
         \A e : e \in DOMAIN infos' <=> e \in DOMAIN infos,
         \A e \in DOMAIN infos :
            infos'[e].mbb = infos[e].mbb /\ Expanded(e)' = Expanded(e)
  PROVE  OrderInv' /\ GroupInv'
<1>1. \A e, p : IsAt(e, p)' <=> IsAt(e, p)
  BY DEF IsAt
<1>2. \A e \in DOMAIN infos : Behind(e)' = Behind(e)
  BY InputKept DEF Behind
<1>3. OrderInv'
  BY <1>1 DEF OrderInv
<1>4. GroupInv'
  <2>1. ASSUME NEW e \in DOMAIN infos', NEW p \in DOMAIN blocks', IsAt(e, p)'
        PROVE  /\ blocks[p] = IF Expanded(e)
                                THEN Redirect(Orig(infos[e].mbb), NextSelf(infos[e].mbb))
                                ELSE Orig(infos[e].mbb)
               /\ p + Behind(e) \in DOMAIN blocks
               /\ \A j \in 1 .. Behind(e) : blocks[p + j] = Sequence(Orig(infos[e].mbb))[j]
               /\ IF e = Len(infos) THEN p + Behind(e) = Len(blocks)
                                    ELSE IsAt(e + 1, p + Behind(e) + 1)
    BY <1>1, <2>1 DEF GroupInv
  <2>2. ASSUME NEW e \in DOMAIN infos', NEW p \in DOMAIN blocks', IsAt(e, p)'
        PROVE  /\ (blocks[p] = IF Expanded(e)
                                 THEN Redirect(Orig(infos[e].mbb), NextSelf(infos[e].mbb))
                                 ELSE Orig(infos[e].mbb))'
               /\ (p + Behind(e) \in DOMAIN blocks)'
               /\ (\A j \in 1 .. Behind(e) :
                      blocks[p + j] = Sequence(Orig(infos[e].mbb))[j])'
               /\ (IF e = Len(infos) THEN p + Behind(e) = Len(blocks)
                                     ELSE IsAt(e + 1, p + Behind(e) + 1))'
    <3>1. /\ infos'[e].mbb = infos[e].mbb /\ Expanded(e)' = Expanded(e)
          /\ Behind(e)' = Behind(e) /\ blocks' = blocks
      BY <1>2, <2>2
    <3>2. /\ Orig(infos[e].mbb)' = Orig(infos[e].mbb)
          /\ NextSelf(infos[e].mbb)' = NextSelf(infos[e].mbb)
      BY <3>1, InputKept
    <3>3. Sequence(Orig(infos[e].mbb))' = Sequence(Orig(infos[e].mbb))
      BY <3>2, InputKept
    <3>. QED
      BY <1>1, <2>1, <2>2, <3>1, <3>2, <3>3
  <2>. QED
    BY <2>2 DEF GroupInv
<1>. QED
  BY <1>3, <1>4

LEMMA InfosKept ==
  ASSUME phase # "split", UNCHANGED <<input, infos>>, InfosInv
  PROVE  InfosInv'
<1>1. func' = func /\ isPIC' = isPIC
  BY DEF input
<1>. QED
  BY <1>1, InputKept DEF InfosInv

-----------------------------------------------------------------------------
(* The rounds.                                                             *)

LEMMA SizesType ==
  ASSUME InfosInv, phase # "split"
  PROVE  \A e \in 1 .. Len(infos) :
           Sizes(infos)[e] = infos[e].size /\ infos[e].size \in Nat
BY InfosType DEF Sizes, InfoType

\* No other entry than the target of the branch of block p is its target.
LEMMA OffsetInScan ==
  ASSUME IInv, phase = "scan", NEW e \in DOMAIN infos, NEW t, IsTgt(e, t)
  PROVE  ComputeOffset(infos, e) = OffsetTo(infos, e, t)
<1>1. BlocksInv /\ IsAt(e, e) /\ IsAt(t, t)
  BY DEF IInv, OrderInv, IsTgt
<1>2. blocks[e] = Orig(infos[e].mbb)
  BY <1>1 DEF IInv, GroupInv, Expanded, IsAt
<1>3. blocks[t].id = blocks[e].tgt /\ t \in DOMAIN blocks
  BY <1>1, <1>2 DEF IsTgt, IsAt
<1>4. Position(blocks, blocks[e].tgt) = t
  BY <1>1, <1>3, PositionIs
<1>. QED
  BY <1>4 DEF ComputeOffset

LEMMA KeepStep ==
  ASSUME IInv, Keep
  PROVE  IInv'
<1>1. /\ phase = "scan" /\ at \in 1 .. Len(infos) /\ at' = at + 1
      /\ UNCHANGED <<input, phase, blocks, infos, made, ever>>
  BY DEF IInv, InputInv, Keep
<1>2. Len(infos) \in Nat /\ \A e : e \in DOMAIN infos <=> e \in 1 .. Len(infos)
  BY <1>1, InfosType DEF IInv
<1>3. InputInv'
  <2>1. at' \in 1 .. (IF phase' = "split" THEN Len(func') ELSE Len(infos')) + 1
    BY <1>1, <1>2
  <2>. QED
    BY <1>1, <2>1 DEF IInv, InputInv, input
<1>4. BlocksInv' /\ SplitInv'
  BY <1>1, InputKept DEF IInv, BlocksInv, SplitInv
<1>5. InfosInv'
  BY <1>1, InfosKept DEF IInv
<1>6. OrderInv' /\ GroupInv'
  BY <1>1, LayoutKept DEF IInv, Expanded
<1>7. ShortFits(at)
  BY <1>1, <1>2, OffsetInScan DEF Keep, TooFar, ShortFits
<1>8. \A e : /\ ShortFits(e)' <=> ShortFits(e)
             /\ LongNeeded(e)' <=> LongNeeded(e)
  BY <1>1, InputKept DEF ShortFits, LongNeeded, IsTgt, OwnSize, input
<1>9. RoundInv'
  <2>1. ~made' => \A e \in 1 .. at' - 1 : ShortFits(e)
    BY <1>1, <1>7 DEF IInv, RoundInv
  <2>. QED
    BY <1>1, <1>8, <2>1 DEF IInv, RoundInv
<1>. QED
  BY <1>3, <1>4, <1>5, <1>6, <1>9 DEF IInv

LEMMA EndRoundStep ==
  ASSUME IInv, EndRound
  PROVE  IInv'
<1>1. /\ phase = "scan" /\ at = Len(infos) + 1 /\ at' = 1 /\ made' = FALSE
      /\ phase' = IF made THEN "scan" ELSE IF ever THEN "expand" ELSE "done"
      /\ UNCHANGED <<input, blocks, infos, ever>>
  BY InfosType DEF IInv, InputInv, EndRound
<1>2. Len(infos) \in Nat /\ \A e : e \in DOMAIN infos <=> e \in 1 .. Len(infos)
  BY <1>1, InfosType DEF IInv
<1>3. phase' \in {"scan", "expand", "done"} /\ (phase' = "done" => ~ever)
  BY <1>1 DEF IInv, InputInv
<1>4. InputInv'
  <2>1. at' \in 1 .. (IF phase' = "split" THEN Len(func') ELSE Len(infos')) + 1
    BY <1>1, <1>2, <1>3
  <2>. QED
    BY <1>1, <1>3, <2>1 DEF IInv, InputInv, input
<1>5. BlocksInv' /\ SplitInv'
  BY <1>1, <1>3, InputKept DEF IInv, BlocksInv, SplitInv
<1>6. InfosInv'
  BY <1>1, InfosKept DEF IInv
<1>7. \A e \in DOMAIN infos : Expanded(e) = FALSE /\ Expanded(e)' = FALSE
  <2>1. ~ever => \A e \in DOMAIN infos : ~infos[e].long
    BY <1>1 DEF IInv, RoundInv
  <2>2. ASSUME NEW e \in DOMAIN infos PROVE Expanded(e)' = FALSE
    <3>1. CASE phase' = "done"
      BY <1>1, <1>3, <2>1, <3>1 DEF Expanded
    <3>2. CASE phase' # "done"
      BY <1>1, <1>2, <3>2 DEF Expanded
    <3>. QED
      BY <3>1, <3>2
  <2>. QED
    BY <1>1, <2>2 DEF Expanded
<1>8. OrderInv' /\ GroupInv'
  BY <1>1, <1>3, <1>7, LayoutKept DEF IInv
<1>9. \A e : /\ ShortFits(e)' <=> ShortFits(e)
             /\ LongNeeded(e)' <=> LongNeeded(e)
  BY <1>1, InputKept DEF ShortFits, LongNeeded, IsTgt, OwnSize, input
<1>10. RoundInv'
  <2>1. ~made => \A e \in DOMAIN infos : ShortFits(e)
    BY <1>1, <1>2 DEF IInv, RoundInv
  <2>2. phase' \in {"expand", "done"} => ~made
    BY <1>1 DEF IInv, InputInv
  <2>. QED
    BY <1>1, <1>3, <1>9, <2>1, <2>2 DEF IInv, RoundInv
<1>. QED
  BY <1>4, <1>5, <1>6, <1>8, <1>10 DEF IInv

LEMMA SkipShortStep ==
  ASSUME IInv, SkipShort
  PROVE  IInv'
<1>1. /\ phase = "expand" /\ at \in 1 .. Len(infos) /\ at' = at + 1 /\ ~infos[at].long
      /\ UNCHANGED <<input, phase, blocks, infos, made, ever>>
  BY DEF IInv, InputInv, SkipShort
<1>2. Len(infos) \in Nat /\ \A e : e \in DOMAIN infos <=> e \in 1 .. Len(infos)
  BY <1>1, InfosType DEF IInv
<1>3. InputInv'
  <2>1. at' \in 1 .. (IF phase' = "split" THEN Len(func') ELSE Len(infos')) + 1
    BY <1>1, <1>2
  <2>. QED
    BY <1>1, <2>1 DEF IInv, InputInv, input
<1>4. BlocksInv' /\ SplitInv'
  BY <1>1, InputKept DEF IInv, BlocksInv, SplitInv
<1>5. InfosInv'
  BY <1>1, InfosKept DEF IInv
<1>6. \A e \in DOMAIN infos : Expanded(e)' = Expanded(e)
  BY <1>1, <1>2 DEF Expanded
<1>7. OrderInv' /\ GroupInv'
  BY <1>1, <1>6, LayoutKept DEF IInv
<1>8. \A e : /\ ShortFits(e)' <=> ShortFits(e)
             /\ LongNeeded(e)' <=> LongNeeded(e)
  BY <1>1, InputKept DEF ShortFits, LongNeeded, IsTgt, OwnSize, input
<1>9. RoundInv'
  BY <1>1, <1>8 DEF IInv, RoundInv
<1>. QED
  BY <1>3, <1>4, <1>5, <1>7, <1>9 DEF IInv

LEMMA FinishStep ==
  ASSUME IInv, Finish
  PROVE  IInv'
<1>1. /\ phase = "expand" /\ at = Len(infos) + 1 /\ phase' = "done"
      /\ UNCHANGED <<input, blocks, infos, at, made, ever>>
  BY InfosType DEF IInv, InputInv, Finish
<1>2. Len(infos) \in Nat /\ \A e : e \in DOMAIN infos <=> e \in 1 .. Len(infos)
  BY <1>1, InfosType DEF IInv
<1>3. InputInv'
  <2>1. at' \in 1 .. (IF phase' = "split" THEN Len(func') ELSE Len(infos')) + 1
    BY <1>1, <1>2
  <2>. QED
    BY <1>1, <2>1 DEF IInv, InputInv, input
<1>4. BlocksInv' /\ SplitInv'
  BY <1>1, InputKept DEF IInv, BlocksInv, SplitInv
<1>5. InfosInv'
  BY <1>1, InfosKept DEF IInv
<1>6. \A e \in DOMAIN infos : Expanded(e)' = Expanded(e)
  BY <1>1, <1>2 DEF Expanded
<1>7. OrderInv' /\ GroupInv'
  BY <1>1, <1>6, LayoutKept DEF IInv
<1>8. \A e : /\ ShortFits(e)' <=> ShortFits(e)
             /\ LongNeeded(e)' <=> LongNeeded(e)
  BY <1>1, InputKept DEF ShortFits, LongNeeded, IsTgt, OwnSize, input
<1>9. RoundInv'
  BY <1>1, <1>8 DEF IInv, RoundInv
<1>. QED
  BY <1>3, <1>4, <1>5, <1>7, <1>9 DEF IInv

LEMMA FitsRange ==
  \E B \in Int : B > 44 /\ \A x : FitsImm(x) <=> x \in -B .. B - 1
<1>1. 2 ^ (ImmBits - 1) \in Int /\ 2 ^ (ImmBits - 1) > 44
  BY ImmBitsAssumption
<1>. QED
  BY <1>1 DEF FitsImm

\* What is too far away stays so when it goes farther.
LEMMA FarStaysFar ==
  ASSUME NEW x \in Int, NEW y \in Int, ~FitsImm(x \div 4),
         (x >= 0 /\ y >= x) \/ (x <= 0 /\ y <= x)
  PROVE  ~FitsImm(y \div 4)
<1>1. PICK B \in Int : B > 44 /\ \A z : FitsImm(z) <=> z \in -B .. B - 1
  BY FitsRange
<1>. QED
  BY <1>1

LEMMA BranchSize ==
  ASSUME func \in Funcs, NEW id, IsSelf(id)
  PROVE  /\ SizeOf(Orig(id)) \in Nat
         /\ Orig(id).op \in {"cond", "jmp"} => SizeOf(Orig(id)) >= 4
<1>1. Orig(id).body \in Nat
  BY OrigFacts DEF BlockType
<1>. QED
  BY <1>1 DEF SizeOf, BranchWords

LEMMA MarkStep ==
  ASSUME IInv, Mark
  PROVE  IInv'
<1> DEFINE N == Len(infos)
           own == LongBranchSeqSize * 4
           f   == Sizes(infos)
           g   == Sizes(infos')
<1>1. /\ phase = "scan" /\ at \in 1 .. N /\ at' = at + 1
      /\ infos[at].br /\ ~infos[at].long /\ TooFar(at)
      /\ infos' = [infos EXCEPT ![at].long = TRUE, ![at].size = @ + LongBranchSeqSize * 4]
      /\ made' = TRUE /\ ever' = TRUE
      /\ UNCHANGED <<input, phase, blocks>>
  BY DEF IInv, InputInv, Mark
<1>2. /\ N \in Nat /\ infos \in Seq(InfoType) /\ func \in Funcs
      /\ \A e : e \in DOMAIN infos <=> e \in 1 .. N
  BY <1>1, InfosType DEF IInv, InfosInv, InputInv
<1>2a. N \in Nat /\ \A e \in 1 .. N : infos[e] \in InfoType /\ infos[e].size \in Nat
  BY <1>1, InfosType DEF IInv, InfoType
<1>3. own \in Nat /\ own > 0
  BY DEF LongBranchSeqSize
<1> HIDE DEF own
<1>4. /\ infos' \in Seq(InfoType) /\ Len(infos') = N
      /\ \A e : e \in DOMAIN infos' <=> e \in 1 .. N
      /\ \A e \in 1 .. N :
           /\ infos'[e].mbb = infos[e].mbb /\ infos'[e].br = infos[e].br
           /\ infos'[e].long = (IF e = at THEN TRUE ELSE infos[e].long)
           /\ infos'[e].size = infos[e].size + IF e = at THEN own ELSE 0
  <2> DEFINE new == [infos[at] EXCEPT !.long = TRUE, !.size = @ + own]
  <2>1. infos' = [infos EXCEPT ![at] = new]
    BY <1>1, <1>2 DEF own
  <2>2. infos[at] \in InfoType
    BY <1>1, <1>2a
  <2>3. infos[at].size + own \in Nat
    BY <1>1, <1>2a, <1>3
  <2>4. /\ new \in InfoType /\ new.mbb = infos[at].mbb /\ new.br = infos[at].br
        /\ new.long = TRUE /\ new.size = infos[at].size + own
    BY <2>2, <2>3 DEF InfoType
  <2>. HIDE DEF new
  <2>5. /\ infos' \in Seq(InfoType) /\ Len(infos') = Len(infos)
        /\ \A e \in 1 .. Len(infos) : infos'[e] = IF e = at THEN new ELSE infos[e]
    <3>1. at \in 1 .. Len(infos) /\ infos \in Seq(InfoType)
      BY <1>1, <1>2
    <3>2. /\ [infos EXCEPT ![at] = new] \in Seq(InfoType)
          /\ Len([infos EXCEPT ![at] = new]) = Len(infos)
          /\ \A e \in 1 .. Len(infos) :
               [infos EXCEPT ![at] = new][e] = IF e = at THEN new ELSE infos[e]
      BY <2>4, <3>1, ExceptSeq
    <3>. QED
      BY <2>1, <3>2
  <2>6. \A e : e \in DOMAIN infos' <=> e \in 1 .. N
    BY <1>2, <2>1
  <2>7. ASSUME NEW e \in 1 .. N
        PROVE  /\ infos'[e].mbb = infos[e].mbb /\ infos'[e].br = infos[e].br
               /\ infos'[e].long = (IF e = at THEN TRUE ELSE infos[e].long)
               /\ infos'[e].size = infos[e].size + IF e = at THEN own ELSE 0
    <3>1. CASE e = at
      BY <2>4, <2>5, <3>1
    <3>2. CASE e # at
      BY <1>2a, <2>5, <3>2
    <3>. QED
      BY <3>1, <3>2
  <2>. QED
    BY <2>5, <2>6, <2>7
<1>5. InputInv'
  <2>1. at' \in 1 .. (IF phase' = "split" THEN Len(func') ELSE Len(infos')) + 1
    BY <1>1, <1>2, <1>4
  <2>. QED
    BY <1>1, <2>1 DEF IInv, InputInv, input
<1>6. BlocksInv' /\ SplitInv'
  BY <1>1, InputKept DEF IInv, BlocksInv, SplitInv
<1>7. OrderInv' /\ GroupInv'
  <2>1. \A e \in DOMAIN infos : Expanded(e)' = Expanded(e)
    BY <1>1 DEF Expanded
  <2>. QED
    BY <1>1, <1>2, <1>4, <2>1, LayoutKept DEF IInv
<1>8. InfosInv'
  <2>1. InfosInv /\ func' = func /\ isPIC' = isPIC
    BY <1>1 DEF IInv, input
  <2>2. ASSUME NEW e \in 1 .. N
        PROVE  /\ IsSelf(infos'[e].mbb)
               /\ infos'[e].br <=> \/ Orig(infos'[e].mbb).op = "cond"
                                   \/ Orig(infos'[e].mbb).op = "jmp" /\ isPIC
               /\ infos'[e].long => infos'[e].br
               /\ infos'[e].size = SizeOf(Orig(infos'[e].mbb))
                                     + IF infos'[e].long THEN LongBranchSeqSize * 4 ELSE 0
               /\ NextSelf(infos'[e].mbb)
                    = IF e < N THEN infos'[e + 1].mbb ELSE Entry(Len(func) + 1)
    <3>1. /\ IsSelf(infos[e].mbb)
          /\ infos[e].br <=> \/ Orig(infos[e].mbb).op = "cond"
                             \/ Orig(infos[e].mbb).op = "jmp" /\ isPIC
          /\ infos[e].long => infos[e].br
          /\ infos[e].size = SizeOf(Orig(infos[e].mbb)) + IF infos[e].long THEN own ELSE 0
          /\ NextSelf(infos[e].mbb)
               = IF e < N THEN infos[e + 1].mbb ELSE Entry(Len(func) + 1)
      BY <1>1, <1>2, <2>1 DEF InfosInv, own
    <3>2. SizeOf(Orig(infos[e].mbb)) \in Nat
      BY <1>2, <3>1, BranchSize
    <3>3. e < N => infos'[e + 1].mbb = infos[e + 1].mbb
      <4>1. e < N => e + 1 \in 1 .. N
        BY <1>2a
      <4>. QED
        BY <1>4, <4>1
    <3>. QED
      BY <1>1, <1>3, <1>4, <3>1, <3>2, <3>3 DEF own
  <2>3. /\ \A e, t \in DOMAIN infos' : infos'[t].mbb = infos'[e].mbb => t = e
        /\ \A n \in DOMAIN func : \E e \in DOMAIN infos' : infos'[e].mbb = Entry(n)
    BY SMTT(60), <1>1, <1>2, <1>4, <2>1 DEF InfosInv
  <2>. QED
    BY <1>1, <1>4, <2>1, <2>2, <2>3, InputKept DEF InfosInv
<1>9. \A e, t : IsTgt(e, t)' /\ e \in 1 .. N => IsTgt(e, t) /\ t \in 1 .. N
  BY <1>1, <1>2, <1>4, InputKept DEF IsTgt
<1>10. /\ N \in Nat
       /\ \A k \in 1 .. N :
            /\ f[k] = infos[k].size /\ f[k] \in Nat /\ g[k] \in Nat
            /\ g[k] = f[k] + IF k = at THEN own ELSE 0
  <2>1. \A k \in 1 .. N : f[k] = infos[k].size /\ g[k] = infos'[k].size
    BY <1>2, <1>4 DEF Sizes
  <2>2. \A k \in 1 .. N :
          /\ infos[k].size \in Nat
          /\ infos'[k].size = infos[k].size + IF k = at THEN own ELSE 0
    BY <1>2a, <1>4
  <2>. HIDE DEF f, g
  <2>. QED
    BY <1>2a, <1>3, <2>1, <2>2
<1>11. ASSUME NEW e \in 1 .. N, infos'[e].long, ~force, NEW t \in 1 .. N, IsTgt(e, t)
       PROVE  ~FitsImm((OffsetTo(infos', e, t) + OwnSize(e, t)) \div 4)
  <2> HIDE DEF f, g, N
  <2>1. CASE e = at
    <3>1. ~FitsImm(OffsetTo(infos, e, t) \div 4)
      BY <1>1, <1>2, <1>11, <2>1, OffsetInScan DEF TooFar, N
    <3>2. CASE e < t
      <4>1. SumOf(g, e + 1, t - 1) = SumOf(f, e + 1, t - 1)
        <5>1. \A k \in e + 1 .. t - 1 : f[k] \in Int /\ g[k] = f[k]
          BY <1>10, <2>1
        <5>. QED
          BY <5>1, SumSame
      <4>2. SumOf(f, e + 1, t - 1) \in Int
        <5>1. \A k \in e + 1 .. t - 1 : f[k] \in Int
          BY <1>10
        <5>. QED
          BY <5>1, SumType
      <4>. QED
        BY <3>1, <3>2, <4>1, <4>2 DEF OffsetTo, OwnSize, f, g
    <3>3. CASE ~(e < t)
      <4>1. /\ SumOf(f, t, e - 1) \in Int /\ SumOf(f, t, e) \in Int
            /\ SumOf(f, t, e) = SumOf(f, t, e - 1) + f[e]
        <5>1. t <= e /\ \A k \in t .. e : f[k] \in Int
          BY <1>10, <3>3
        <5>. QED
          BY <5>1, SumStep
      <4>2. /\ SumOf(g, t, e) \in Int
            /\ SumOf(g, t, e) = SumOf(g, t, e - 1) + g[e]
        <5>1. t <= e /\ \A k \in t .. e : g[k] \in Int
          BY <1>10, <3>3
        <5>. QED
          BY <5>1, SumStep
      <4>3. SumOf(g, t, e - 1) = SumOf(f, t, e - 1)
        <5>1. \A k \in t .. e - 1 : f[k] \in Int /\ g[k] = f[k]
          BY <1>10, <2>1
        <5>. QED
          BY <5>1, SumSame
      <4>4. g[e] = f[e] + own /\ f[e] \in Int
        BY <1>10, <2>1
      <4>5. 4 - SumOf(g, t, e) + own = 4 - SumOf(f, t, e)
        BY <1>3, <4>1, <4>2, <4>3, <4>4
      <4>. QED
        BY <3>1, <3>3, <4>5 DEF OffsetTo, OwnSize, own, f, g
    <3>. QED
      BY <3>2, <3>3
  <2>2. CASE e # at
    <3>1. infos[e].long
      BY <1>4, <1>11, <2>2
    <3>2. ~FitsImm((OffsetTo(infos, e, t) + OwnSize(e, t)) \div 4)
      BY <1>1, <1>2, <1>11, <3>1 DEF IInv, RoundInv, LongNeeded, N
    <3>3. CASE e < t
      <4>1. SumOf(f, e + 1, t - 1) <= SumOf(g, e + 1, t - 1)
        <5>1. \A k \in e + 1 .. t - 1 : f[k] \in Int /\ g[k] \in Int /\ f[k] <= g[k]
          BY <1>3, <1>10
        <5>. QED
          BY <5>1, SumAtMost
      <4>2. SumOf(f, e + 1, t - 1) \in Nat /\ SumOf(g, e + 1, t - 1) \in Nat
        <5>1. \A k \in e + 1 .. t - 1 : f[k] \in Nat /\ g[k] \in Nat
          BY <1>10
        <5>. QED
          BY <5>1, SumNat
      <4> DEFINE x == OffsetTo(infos, e, t) + OwnSize(e, t)
                 y == OffsetTo(infos', e, t) + OwnSize(e, t)
      <4>3. x \in Int /\ y \in Int /\ x >= 0 /\ y >= x
        BY <3>3, <4>1, <4>2 DEF OffsetTo, OwnSize, f, g
      <4>. HIDE DEF x, y
      <4>4. ~FitsImm(y \div 4)
        BY <3>2, <4>3, FarStaysFar DEF x
      <4>. QED
        BY <4>4 DEF y
    <3>4. CASE ~(e < t)
      <4>1. SumOf(f, t, e) <= SumOf(g, t, e)
        <5>1. \A k \in t .. e : f[k] \in Int /\ g[k] \in Int /\ f[k] <= g[k]
          BY <1>3, <1>10
        <5>. QED
          BY <5>1, SumAtMost
      <4>2. SumOf(f, t, e - 1) \in Nat /\ SumOf(g, t, e) \in Nat
        <5>1. /\ \A k \in t .. e - 1 : f[k] \in Nat
              /\ \A k \in t .. e : g[k] \in Nat
          BY <1>10
        <5>. QED
          BY <5>1, SumNat
      <4>3. SumOf(f, t, e) = SumOf(f, t, e - 1) + f[e]
        <5>1. t <= e /\ \A k \in t .. e : f[k] \in Int
          BY <1>10, <3>4
        <5>. QED
          BY <5>1, SumStep
      <4>4. f[e] \in Int /\ f[e] >= 4 + own
        <5>1. /\ IsSelf(infos[e].mbb)
              /\ Orig(infos[e].mbb).op \in {"cond", "jmp"}
              /\ infos[e].size = SizeOf(Orig(infos[e].mbb)) + own
          BY <1>1, <1>2, <3>1 DEF IInv, InfosInv, own, N
        <5>2. SizeOf(Orig(infos[e].mbb)) \in Nat /\ SizeOf(Orig(infos[e].mbb)) >= 4
          BY <1>2, <5>1, BranchSize
        <5>. QED
          BY <1>3, <1>10, <5>1, <5>2
      <4> DEFINE x == OffsetTo(infos, e, t) + OwnSize(e, t)
                 y == OffsetTo(infos', e, t) + OwnSize(e, t)
      <4>5. OwnSize(e, t) = own
        BY <3>4 DEF OwnSize, own
      <4>6. x = 4 - SumOf(f, t, e) + own /\ y = 4 - SumOf(g, t, e) + own
        BY <3>4, <4>5 DEF OffsetTo, f, g
      <4>. HIDE DEF x, y
      <4>7. x \in Int /\ y \in Int /\ x <= 0 /\ y <= x
        BY <1>3, <4>1, <4>2, <4>3, <4>4, <4>6
      <4>8. ~FitsImm(y \div 4)
        BY <3>2, <4>7, FarStaysFar DEF x
      <4>. QED
        BY <4>8 DEF y
    <3>. QED
      BY <3>3, <3>4
  <2>. QED
    BY <2>1, <2>2
<1>12. RoundInv'
  <2>1. ASSUME NEW e \in 1 .. N PROVE LongNeeded(e)'
    <3>1. \A t : OwnSize(e, t)' = OwnSize(e, t)
      BY <1>1, InputKept DEF OwnSize
    <3>2. force' = force
      BY <1>1 DEF input
    <3>. QED
      BY <1>4, <1>9, <1>11, <3>1, <3>2 DEF LongNeeded
  <2>. QED
    BY <1>1, <1>4, <2>1 DEF RoundInv
<1>. QED
  BY <1>5, <1>6, <1>7, <1>8, <1>12 DEF IInv

-----------------------------------------------------------------------------
(* The expansion of an entry.                                              *)

\* A sequence with element p replaced by r and the elements of q behind it.
Splice(s, p, r, q) == SubSeq(s, 1, p - 1) \o <<r>> \o q \o SubSeq(s, p + 1, Len(s))

IsSplice(w, s, p, r, q) ==
  /\ Len(w) = Len(s) + Len(q)
  /\ \A i \in 1 .. p - 1 : w[i] = s[i]
  /\ w[p] = r
  /\ \A j \in 1 .. Len(q) : w[p + j] = q[j]
  /\ \A i \in p + 1 .. Len(s) : w[i + Len(q)] = s[i]

LEMMA Spliced ==
  ASSUME NEW S, NEW s \in Seq(S), NEW q \in Seq(S), NEW r \in S, NEW p \in 1 .. Len(s),
         NEW w, w = Splice(s, p, r, q)
  PROVE  w \in Seq(S) /\ IsSplice(w, s, p, r, q)
<1> DEFINE L == Len(s)
           n == Len(q)
           a == SubSeq(s, 1, p - 1)
           z == SubSeq(s, p + 1, L)
           b == a \o <<r>>
           c == b \o q
           t == c \o z
<1>1. L \in Nat /\ n \in Nat /\ p \in 1 .. L /\ \A i \in 1 .. L : s[i] \in S
  BY LenProperties, ElementOfSeq
<1>2. /\ a \in Seq(S) /\ Len(a) = p - 1 /\ \A i \in 1 .. p - 1 : a[i] = s[i]
  <2>1. 1 \in Int /\ p - 1 \in Int /\ \A i \in 1 .. p - 1 : s[i] \in S
    BY <1>1
  <2>2. /\ a \in Seq(S) /\ Len(a) = IF 1 <= p - 1 THEN (p - 1) - 1 + 1 ELSE 0
        /\ \A i \in 1 .. (p - 1) - 1 + 1 : a[i] = s[1 + i - 1]
    BY <2>1, SubSeqProperties
  <2>. HIDE DEF a
  <2>. QED
    BY <1>1, <2>2
<1>3. /\ z \in Seq(S) /\ Len(z) = L - p /\ \A i \in 1 .. L - p : z[i] = s[p + i]
  <2>1. p + 1 \in Int /\ L \in Int /\ \A i \in p + 1 .. L : s[i] \in S
    BY <1>1
  <2>. HIDE DEF L
  <2>2. /\ z \in Seq(S) /\ Len(z) = IF p + 1 <= L THEN L - (p + 1) + 1 ELSE 0
        /\ \A i \in 1 .. L - (p + 1) + 1 : z[i] = s[(p + 1) + i - 1]
    BY <2>1, SubSeqProperties
  <2>. HIDE DEF z
  <2>. QED
    BY <1>1, <2>2
<1> HIDE DEF a, z
<1>4. /\ b \in Seq(S) /\ Len(b) = p
      /\ \A i \in 1 .. p : b[i] = IF i <= p - 1 THEN a[i] ELSE r
  <2>1. <<r>> \in Seq(S) /\ Len(<<r>>) = 1 /\ <<r>>[1] = r
    BY Tuples
  <2>2. /\ b \in Seq(S) /\ Len(b) = Len(a) + Len(<<r>>)
        /\ \A i \in 1 .. Len(a) + Len(<<r>>) :
             b[i] = IF i <= Len(a) THEN a[i] ELSE <<r>>[i - Len(a)]
    BY <1>2, <2>1, ConcatProperties
  <2>. HIDE DEF b
  <2>. QED
    BY <1>1, <1>2, <2>1, <2>2
<1> HIDE DEF b
<1>5. /\ c \in Seq(S) /\ Len(c) = p + n
      /\ \A i \in 1 .. p + n : c[i] = IF i <= p THEN b[i] ELSE q[i - p]
  <2>1. /\ c \in Seq(S) /\ Len(c) = Len(b) + Len(q)
        /\ \A i \in 1 .. Len(b) + Len(q) : c[i] = IF i <= Len(b) THEN b[i] ELSE q[i - Len(b)]
    BY <1>4, ConcatProperties
  <2>. HIDE DEF c
  <2>. QED
    BY <1>4, <2>1
<1> HIDE DEF c
<1>6. /\ t \in Seq(S) /\ Len(t) = (p + n) + (L - p)
      /\ \A i \in 1 .. (p + n) + (L - p) :
           t[i] = IF i <= p + n THEN c[i] ELSE z[i - (p + n)]
  <2>1. /\ t \in Seq(S) /\ Len(t) = Len(c) + Len(z)
        /\ \A i \in 1 .. Len(c) + Len(z) : t[i] = IF i <= Len(c) THEN c[i] ELSE z[i - Len(c)]
    BY <1>3, <1>5, ConcatProperties
  <2>. HIDE DEF t
  <2>. QED
    BY <1>3, <1>5, <2>1
<1>7. w = t /\ n = Len(q) /\ L = Len(s)
  BY DEF Splice, t, c, b, a, z
<1> HIDE DEF t, n, L
<1>8. Len(t) = L + n
  BY <1>1, <1>6
<1>9. \A i \in 1 .. p - 1 : t[i] = s[i]
  <2>1. ASSUME NEW i \in 1 .. p - 1 PROVE t[i] = s[i]
    <3>1. /\ i \in 1 .. (p + n) + (L - p) /\ i \in 1 .. p + n /\ i <= p + n
          /\ i \in 1 .. p /\ i <= p
      BY <1>1
    <3>2. t[i] = b[i]
      BY <1>5, <1>6, <3>1
    <3>. QED
      BY <1>2, <1>4, <3>1, <3>2
  <2>. QED
    BY <2>1
<1>10. t[p] = r
  BY <1>1, <1>4, <1>5, <1>6
<1>11. \A j \in 1 .. n : t[p + j] = q[j]
  <2>1. ASSUME NEW j \in 1 .. n PROVE t[p + j] = q[j]
    <3>1. p + j \in 1 .. (p + n) + (L - p) /\ p + j \in 1 .. p + n /\ p + j <= p + n
          /\ ~(p + j <= p) /\ p + j - p = j
      BY <1>1
    <3>. QED
      BY <1>5, <1>6, <3>1
  <2>. QED
    BY <2>1
<1>12. \A i \in p + 1 .. L : t[i + n] = s[i]
  <2>1. ASSUME NEW i \in p + 1 .. L PROVE t[i + n] = s[i]
    <3>1. i + n \in 1 .. (p + n) + (L - p) /\ ~(i + n <= p + n) /\ i + n - (p + n) = i - p
          /\ i - p \in 1 .. L - p /\ p + (i - p) = i
      BY <1>1
    <3>2. t[i + n] = z[i - p]
      <4> DEFINE k == i + n
      <4>1. k \in 1 .. (p + n) + (L - p) /\ ~(k <= p + n) /\ k - (p + n) = i - p
        BY <1>1
      <4>. HIDE DEF k
      <4>2. t[k] = z[k - (p + n)]
        BY <1>6, <4>1
      <4>. QED
        BY <4>1, <4>2 DEF k
    <3>3. z[i - p] = s[p + (i - p)]
      BY <1>3, <3>1
    <3>. QED
      BY <3>1, <3>2, <3>3
  <2>. QED
    BY <2>1
<1>. QED
  BY <1>6, <1>7, <1>8, <1>9, <1>10, <1>11, <1>12 DEF IsSplice

LEMMA SequenceFacts ==
  ASSUME func \in Funcs, isPIC \in BOOLEAN, NEW id, IsSelf(id)
  PROVE  /\ Own \in {1, 2}
         /\ Sequence(Orig(id)) \in Seq(BlockType) /\ Len(Sequence(Orig(id))) = Own
         /\ \A j \in 1 .. Own :
              /\ Sequence(Orig(id))[j].op # "cond"
              /\ Sequence(Orig(id))[j].id = IF j = 1 THEN LongBr(id) ELSE BalTgt(id)
<1>1. /\ id \in Ids /\ Orig(id) \in BlockType /\ Orig(id).id = id
      /\ LongBr(id) \in Ids /\ BalTgt(id) \in Ids
  <2>1. id \in Ids /\ Orig(id) \in BlockType /\ Orig(id).id = id
    BY OrigFacts
  <2>. QED
    BY <2>1 DEF Ids, LongBr, BalTgt, Name
<1>2. Orig(id).tgt \in Ids
  BY <1>1 DEF BlockType
<1> DEFINE one   == Block(LongBr(id), 5, "bal", BalTgt(id), TRUE)
           two   == Block(BalTgt(id), 5, "jr", Orig(id).tgt, TRUE)
           three == Block(LongBr(id), 1, "jmp", Orig(id).tgt, TRUE)
<1>3. one \in BlockType /\ two \in BlockType /\ three \in BlockType
  BY <1>1, <1>2 DEF BlockType, Block, Ids
<1>4. /\ one.id = LongBr(id) /\ two.id = BalTgt(id) /\ three.id = LongBr(id)
      /\ one.op = "bal" /\ two.op = "jr" /\ three.op = "jmp"
  BY DEF Block
<1>5. Sequence(Orig(id)) = IF isPIC THEN <<one, two>> ELSE <<three>>
  BY <1>1 DEF Sequence
<1> HIDE DEF one, two, three
<1>6. CASE isPIC
  BY <1>3, <1>4, <1>5, <1>6, Tuples DEF Own
<1>7. CASE ~isPIC
  BY <1>3, <1>4, <1>5, <1>7, Tuples DEF Own
<1>. QED
  BY <1>6, <1>7

\* The last block of a function ends in a jump or a return.
LEMMA LastIsNoBranch ==
  ASSUME func \in Funcs, NEW id, IsSelf(id), NextSelf(id) = Entry(Len(func) + 1)
  PROVE  Orig(id).op # "cond" /\ Orig(id).op # "none"
<1>1. id[1] \in 1 .. Len(func)
  BY OrigFacts
<1>2. /\ Len(func) \in Nat
      /\ func[Len(func)].ret \/ func[Len(func)].jump # 0
      /\ func[Len(func)].ret => func[Len(func)].cond = 0
  BY <1>1, FuncType
<1>3. CASE id = Name(id[1], "second", "self")
  <2>1. id[2] = "second"
    BY <1>3 DEF Name
  <2>2. func[id[1]].jump # 0
    BY <2>1 DEF IsSelf
  <2>3. Orig(id).op = "jmp"
    BY <2>1, <2>2, OrigFacts
  <2>. QED
    BY <2>3
<1>4. CASE id = Entry(id[1]) /\ ~(func[id[1]].cond # 0 /\ func[id[1]].jump # 0)
  <2>1. NextSelf(id) = Entry(id[1] + 1)
    BY <1>4 DEF NextSelf
  <2>2. id[1] + 1 = Len(func) + 1
    BY <2>1 DEF Entry, Name
  <2>3. id[1] = Len(func)
    BY <1>1, <1>2, <2>2
  <2>. QED
    BY ZenonT(60), <1>2, <1>4, <2>3, OrigFacts
<1>5. CASE func[id[1]].cond # 0 /\ func[id[1]].jump # 0 /\ id = Entry(id[1])
  BY <1>1, <1>5 DEF NextSelf, Entry, Name
<1>. QED
  BY <1>3, <1>4, <1>5, NextSelfFacts

LEMMA ExpandStep ==
  ASSUME IInv, Expand
  PROVE  IInv'
<1> DEFINE N == Len(infos)
           L == Len(blocks)
<1>1. /\ phase = "expand" /\ at \in 1 .. N /\ at' = at + 1 /\ infos[at].long
      /\ UNCHANGED <<input, phase, infos, made, ever>>
  BY DEF IInv, InputInv, Expand
<1>2. /\ BlocksInv /\ InfosInv /\ OrderInv /\ GroupInv /\ RoundInv
      /\ func \in Funcs /\ isPIC \in BOOLEAN
  BY DEF IInv, InputInv
<1>3. N \in Nat /\ \A e : e \in DOMAIN infos <=> e \in 1 .. N
  BY <1>1, <1>2, InfosType
<1>4. /\ L \in Nat /\ \A i : i \in DOMAIN blocks <=> i \in 1 .. L
  BY <1>2, BlocksType
<1>a. PICK id : id = infos[at].mbb
  OBVIOUS
<1>b. PICK own : own = Own
  OBVIOUS
<1>5. IsSelf(id) /\ id[3] = "self" /\ ~Expanded(at) /\ Behind(at) = 0
  BY <1>a, <1>1, <1>2, <1>3 DEF InfosInv, IsSelf, Expanded, Behind
<1>6. PICK p \in 1 .. L : blocks[p].id = id /\ IsAt(at, p) /\ p = Position(blocks, id)
  <2>1. PICK i \in DOMAIN blocks : IsAt(at, i)
    BY <1>1, <1>2, <1>3 DEF OrderInv
  <2>2. i = Position(blocks, id)
    BY <1>a, <1>2, <2>1, PositionIs DEF IsAt
  <2>. QED
    BY <1>a, <1>4, <2>1, <2>2 DEF IsAt
<1> DEFINE q  == Sequence(Orig(id))
           r  == Redirect(Orig(id), NextSelf(id))
           Moved(i) == IF i <= p THEN i ELSE i + own
<1>7. /\ blocks[p] = Orig(id)
      /\ IF at = N THEN p = L ELSE IsAt(at + 1, p + 1)
  BY <1>a, <1>1, <1>2, <1>3, <1>4, <1>5, <1>6 DEF GroupInv
<1>8. r = Redirect(blocks[p], IF p < L THEN blocks[p + 1].id ELSE blocks[p].id)
  <2>1. NextSelf(id) = IF at < N THEN infos[at + 1].mbb ELSE Entry(Len(func) + 1)
    BY <1>a, <1>1, <1>2, <1>3 DEF InfosInv
  <2>2. CASE at = N
    <3>1. Orig(id).op # "cond"
      BY <1>2, <1>3, <1>5, <2>1, <2>2, LastIsNoBranch
    <3>2. Orig(id).op = "jmp"
      BY <1>a, <1>1, <1>2, <1>3, <3>1 DEF InfosInv
    <3>. QED
      BY <1>7, <3>2 DEF Redirect
  <2>3. CASE at # N
    <3>1. IsAt(at + 1, p + 1) /\ at < N
      BY <1>1, <1>3, <1>7, <2>3
    <3>2. p < L /\ blocks[p + 1].id = infos[at + 1].mbb
      BY <1>4, <1>6, <3>1 DEF IsAt
    <3>. QED
      BY <1>7, <2>1, <3>1, <3>2
  <2>. QED
    BY <2>2, <2>3
<1>9. /\ own \in {1, 2} /\ q \in Seq(BlockType) /\ Len(q) = own
      /\ \A j \in 1 .. own :
           q[j].op # "cond" /\ q[j].id = IF j = 1 THEN LongBr(id) ELSE BalTgt(id)
  BY <1>b, <1>2, <1>5, SequenceFacts
<1>10. r \in BlockType /\ r.id = id
  <2>1. /\ Orig(id) \in BlockType /\ Orig(id).id = id
        /\ LongBr(id) \in Ids
    <3>1. id \in Ids /\ Orig(id) \in BlockType /\ Orig(id).id = id
      BY <1>2, <1>5, OrigFacts
    <3>. QED
      BY <3>1 DEF Ids, LongBr, Name
  <2>2. Orig(id).op = "jmp" \/ NextSelf(id) \in Ids
    <3>1. CASE at = N
      BY <1>a, <1>2, <1>3, <1>5, <1>1, <3>1, LastIsNoBranch DEF InfosInv
    <3>2. CASE at # N
      <4>1. at + 1 \in 1 .. N /\ at < N
        BY <1>1, <1>3, <3>2
      <4>2. NextSelf(id) = infos[at + 1].mbb
        BY <1>a, <1>1, <1>2, <1>3, <4>1 DEF InfosInv
      <4>3. infos[at + 1].mbb \in Ids
        BY SMTT(60), <1>1, <1>2, <1>3, <4>1 DEF InfosInv, IsSelf
      <4>. QED
        BY <4>2, <4>3
    <3>. QED
      BY <3>1, <3>2
  <2>. QED
    BY <2>1, <2>2 DEF Redirect, BlockType
<1>11. /\ blocks' \in Seq(BlockType) /\ Len(blocks') = L + own
       /\ \A i \in 1 .. p - 1 : blocks'[i] = blocks[i]
       /\ blocks'[p] = r
       /\ \A j \in 1 .. own : blocks'[p + j] = q[j]
       /\ \A i \in p + 1 .. L : blocks'[i + own] = blocks[i]
  <2>1. blocks' = Splice(blocks, p, r, q)
    BY <1>a, <1>6, <1>7, <1>8 DEF Expand, Splice
  <2>2. blocks \in Seq(BlockType) /\ p \in 1 .. Len(blocks)
    BY <1>2, <1>6 DEF BlocksInv
  <2>. HIDE DEF q, r
  <2>3. blocks' \in Seq(BlockType) /\ IsSplice(blocks', blocks, p, r, q)
    BY <1>9, <1>10, <2>1, <2>2, Spliced
  <2>. QED
    BY <1>9, <2>3 DEF IsSplice
<1> HIDE DEF q, r, N, L
<1>12. \A i : i \in DOMAIN blocks' <=> i \in 1 .. L + own
  BY <1>11, LenProperties
<1>13. \A i \in 1 .. L :
         /\ Moved(i) \in 1 .. L + own
         /\ blocks'[Moved(i)] = IF i = p THEN r ELSE blocks[i]
         /\ blocks'[Moved(i)].id = blocks[i].id
  <2>1. ASSUME NEW i \in 1 .. L
        PROVE  /\ Moved(i) \in 1 .. L + own
               /\ blocks'[Moved(i)] = IF i = p THEN r ELSE blocks[i]
    <3>1. CASE i < p
      BY SMTT(60), <1>4, <1>6, <1>9, <1>11, <3>1
    <3>2. CASE i = p
      BY <1>4, <1>6, <1>9, <1>11, <3>2
    <3>3. CASE i > p
      BY <1>4, <1>6, <1>9, <1>11, <3>3
    <3>. QED
      BY <1>6, <3>1, <3>2, <3>3
  <2>. QED
    BY <1>6, <1>10, <2>1
<1>14. ASSUME NEW k \in 1 .. L + own
       PROVE  \/ \E i \in 1 .. L : k = Moved(i)
              \/ \E j \in 1 .. own : k = p + j
  <2>1. CASE k <= p
    BY <1>4, <1>6, <1>9, <2>1
  <2>2. CASE k > p /\ k <= p + own
    <3>1. k - p \in 1 .. own /\ k = p + (k - p)
      BY <1>6, <1>9, <2>2
    <3>. QED
      BY <3>1
  <2>3. CASE k > p + own
    <3>1. k - own \in 1 .. L /\ ~(k - own <= p) /\ k = (k - own) + own
      BY <1>4, <1>6, <1>9, <2>3
    <3>2. k = Moved(k - own)
      BY <3>1
    <3>. QED
      BY <3>1, <3>2
  <2>. QED
    BY <1>6, <1>9, <2>1, <2>2, <2>3
<1>15. \A i, k \in 1 .. L : i < k <=> Moved(i) < Moved(k)
  BY <1>4, <1>6, <1>9
\* The new blocks have new names.
<1>16. \A j \in 1 .. own :
         /\ blocks'[p + j] = q[j] /\ p + j \in 1 .. L + own
         /\ q[j].id[3] # "self" /\ Name(q[j].id[1], q[j].id[2], "self") = id
         /\ \A i \in 1 .. L : q[j].id # blocks[i].id
  <2>1. ASSUME NEW j \in 1 .. own
        PROVE  /\ q[j].id[3] # "self" /\ q[j].id[1] = id[1] /\ q[j].id[2] = id[2]
    BY <1>9 DEF LongBr, BalTgt, Name
  <2>2. Name(id[1], id[2], "self") = id
    BY <1>2, <1>5, OrigFacts
  <2>3. ASSUME NEW i \in 1 .. L, Name(blocks[i].id[1], blocks[i].id[2], "self") = id
        PROVE  blocks[i].id[3] = "self"
    <3>1. PICK e \in DOMAIN infos :
            /\ infos[e].mbb = Name(blocks[i].id[1], blocks[i].id[2], "self")
            /\ blocks[i].id[3] # "self" => Expanded(e)
      BY <1>1, <1>2, <1>4 DEF OrderInv
    <3>2. e = at
      BY <1>a, <1>1, <1>2, <1>3, <2>3, <3>1 DEF InfosInv
    <3>. QED
      BY <1>5, <3>1, <3>2
  <2>4. ASSUME NEW j \in 1 .. own
        PROVE  /\ blocks'[p + j] = q[j] /\ p + j \in 1 .. L + own
               /\ Name(q[j].id[1], q[j].id[2], "self") = id
    BY <1>4, <1>6, <1>9, <1>11, <2>1, <2>2
  <2>. QED
    BY <2>1, <2>3, <2>4
<1>17. InputInv'
  <2>1. at' \in 1 .. (IF phase' = "split" THEN Len(func') ELSE Len(infos')) + 1
    BY <1>1, <1>3 DEF N
  <2>. QED
    BY <1>1, <2>1 DEF IInv, InputInv, input
<1>18. BlocksInv'
  <2>1. ASSUME NEW k \in 1 .. L + own, NEW l \in 1 .. L + own, blocks'[l].id = blocks'[k].id
        PROVE  l = k
    <3>1. CASE \E i, h \in 1 .. L : k = Moved(i) /\ l = Moved(h)
      <4>1. PICK i \in 1 .. L, h \in 1 .. L : k = Moved(i) /\ l = Moved(h)
        BY <3>1
      <4>. HIDE DEF Moved
      <4>2. blocks[h].id = blocks[i].id
        BY <1>13, <2>1, <4>1
      <4>. QED
        BY <1>2, <1>4, <4>1, <4>2 DEF BlocksInv
    <3>2. CASE \E i \in 1 .. L, j \in 1 .. own : {k, l} = {Moved(i), p + j}
      <4>1. PICK i \in 1 .. L, j \in 1 .. own : {k, l} = {Moved(i), p + j}
        BY <3>2
      <4>. HIDE DEF Moved
      <4>2. blocks'[Moved(i)].id = blocks'[p + j].id
        BY <2>1, <4>1
      <4>. QED
        BY <1>13, <1>16, <4>1, <4>2
    <3>3. CASE \E i, j \in 1 .. own : k = p + i /\ l = p + j
      <4>1. PICK i \in 1 .. own, j \in 1 .. own : k = p + i /\ l = p + j
        BY <3>3
      <4>2. q[i].id = q[j].id
        BY <1>16, <2>1, <4>1
      <4>3. i = j
        BY <1>9, <4>2 DEF LongBr, BalTgt, Name
      <4>. QED
        BY <4>1, <4>3
    <3>. HIDE DEF Moved
    <3>. QED
      BY <1>14, <3>1, <3>2, <3>3
  <2>. QED
    BY <1>1, <1>11, <1>12, <2>1, InputKept DEF BlocksInv
<1>19. SplitInv' /\ InfosInv'
  BY <1>1, <1>2, InfosKept DEF SplitInv
<1>20. \A e \in DOMAIN infos : Expanded(e)' = (Expanded(e) \/ e = at)
  BY <1>1, <1>3 DEF Expanded
<1>21. \A e, k : IsAt(e, k)' <=> \E i \in 1 .. L : k = Moved(i) /\ IsAt(e, i)
  <2>1. ASSUME NEW e, NEW i \in 1 .. L, IsAt(e, i), NEW k, k = Moved(i) PROVE IsAt(e, k)'
    <3>. HIDE DEF Moved
    <3>. QED
      BY <1>1, <1>12, <1>13, <2>1 DEF IsAt
  <2>2. ASSUME NEW e, NEW k, IsAt(e, k)' PROVE \E i \in 1 .. L : k = Moved(i) /\ IsAt(e, i)
    <3>1. k \in 1 .. L + own /\ e \in DOMAIN infos /\ blocks'[k].id = infos[e].mbb
      BY <1>1, <1>12, <2>2 DEF IsAt
    <3>. HIDE DEF Moved
    <3>2. CASE \E i \in 1 .. L : k = Moved(i)
      BY <1>4, <1>13, <3>1, <3>2 DEF IsAt
    <3>3. CASE \E j \in 1 .. own : k = p + j
      <4>1. infos[e].mbb[3] = "self"
        BY <1>1, <1>2, <3>1 DEF InfosInv, IsSelf
      <4>. QED
        BY <1>16, <3>1, <3>3, <4>1
    <3>. QED
      BY <1>14, <3>1, <3>2, <3>3
  <2>. HIDE DEF Moved
  <2>. QED
    BY <2>1, <2>2
<1>22. OrderInv'
  <2>1. \A e \in DOMAIN infos : \E k \in DOMAIN blocks' : IsAt(e, k)'
    <3>1. ASSUME NEW e \in DOMAIN infos PROVE \E k \in DOMAIN blocks' : IsAt(e, k)'
      <4>1. PICK i \in DOMAIN blocks : IsAt(e, i)
        BY <1>1, <1>2 DEF OrderInv
      <4>. HIDE DEF Moved
      <4>2. PICK k : k = Moved(i)
        OBVIOUS
      <4>3. k \in DOMAIN blocks' /\ IsAt(e, k)'
        BY <1>4, <1>12, <1>13, <1>21, <4>1, <4>2
      <4>. QED
        BY <4>3
    <3>. QED
      BY <3>1
  <2>2. ASSUME NEW e \in DOMAIN infos, NEW t \in DOMAIN infos,
               NEW k \in DOMAIN blocks', NEW l \in DOMAIN blocks',
               IsAt(e, k)', IsAt(t, l)', e < t
        PROVE  k < l
    <3>1. PICK i \in 1 .. L : k = Moved(i) /\ IsAt(e, i)
      BY <1>21, <2>2
    <3>2. PICK h \in 1 .. L : l = Moved(h) /\ IsAt(t, h)
      BY <1>21, <2>2
    <3>3. i < h
      BY <1>1, <1>2, <1>4, <2>2, <3>1, <3>2 DEF OrderInv
    <3>. HIDE DEF Moved
    <3>. QED
      BY <1>15, <3>1, <3>2, <3>3
  <2>3. 1 \in DOMAIN blocks' => IsAt(1, 1)'
    <3>1. 1 \in 1 .. L /\ Moved(1) = 1
      BY <1>4, <1>6
    <3>2. IsAt(1, 1)
      BY <1>1, <1>2, <1>4, <3>1 DEF OrderInv
    <3>. HIDE DEF Moved
    <3>. QED
      BY <1>21, <3>1, <3>2
  <2>4. ASSUME NEW k \in DOMAIN blocks'
        PROVE  \E e \in DOMAIN infos :
                 /\ infos[e].mbb = Name(blocks'[k].id[1], blocks'[k].id[2], "self")
                 /\ blocks'[k].id[3] # "self" => Expanded(e)' /\ blocks'[k].op # "cond"
    <3>1. CASE \E i \in 1 .. L : k = Moved(i)
      <4>1. PICK i \in 1 .. L : k = Moved(i)
        BY <3>1
      <4>. HIDE DEF Moved
      <4>2. blocks'[k].id = blocks[i].id /\ (i # p => blocks'[k] = blocks[i])
        BY <1>13, <4>1
      <4>3. PICK e \in DOMAIN infos :
              /\ infos[e].mbb = Name(blocks[i].id[1], blocks[i].id[2], "self")
              /\ blocks[i].id[3] # "self" => Expanded(e) /\ blocks[i].op # "cond"
        BY <1>1, <1>2, <1>4 DEF OrderInv
      <4>4. i = p => blocks[i].id[3] = "self"
        BY <1>5, <1>6
      <4>. QED
        BY <1>20, <4>2, <4>3, <4>4
    <3>2. CASE \E j \in 1 .. own : k = p + j
      <4>1. PICK j \in 1 .. own : k = p + j
        BY <3>2
      <4>2. blocks'[k] = q[j] /\ q[j].op # "cond"
            /\ Name(q[j].id[1], q[j].id[2], "self") = infos[at].mbb
        BY <1>a, <1>9, <1>16, <4>1
      <4>. QED
        BY <1>1, <1>3, <1>20, <4>2
    <3>. HIDE DEF Moved
    <3>. QED
      BY <1>12, <1>14, <3>1, <3>2
  <2>. QED
    BY <1>1, <2>1, <2>2, <2>3, <2>4 DEF OrderInv
<1>23. \A e \in DOMAIN infos : Behind(e)' = IF e = at THEN own ELSE Behind(e)
  BY <1>b, <1>1, <1>20, InputKept DEF Behind
<1>24. ASSUME NEW e \in DOMAIN infos, NEW i \in 1 .. L, IsAt(e, i),
              NEW k, k = Moved(i), NEW h, h = IF e = at THEN own ELSE Behind(e)
       PROVE  /\ blocks'[k] = IF Expanded(e) \/ e = at
                                THEN Redirect(Orig(infos[e].mbb), NextSelf(infos[e].mbb))
                                ELSE Orig(infos[e].mbb)
              /\ k + h \in 1 .. L + own
              /\ \A j \in 1 .. h : blocks'[k + j] = Sequence(Orig(infos[e].mbb))[j]
              /\ e = N => k + h = L + own
              /\ e # N => IsAt(e + 1, k + h + 1)'
  <2>1. CASE e = at
    <3>1. i = p
      BY <1>2, <1>4, <1>6, <1>24, <2>1 DEF IsAt, BlocksInv
    <3>2. k = p /\ h = own
      BY <1>6, <1>24, <2>1, <3>1
    <3>3. /\ blocks'[p] = r /\ r = Redirect(Orig(infos[e].mbb), NextSelf(infos[e].mbb))
          /\ \A j \in 1 .. own : blocks'[p + j] = Sequence(Orig(infos[e].mbb))[j]
      BY <1>a, <1>11, <2>1 DEF r, q
    <3>4. p + own \in 1 .. L + own
      BY <1>4, <1>6, <1>9
    <3>5. CASE e = N
      <4>1. p = L
        BY <1>7, <2>1, <3>5
      <4>. HIDE DEF Moved
      <4>. QED
        BY <2>1, <3>2, <3>3, <3>4, <3>5, <4>1
    <3>6. CASE e # N
      <4>1. IsAt(e + 1, p + 1) /\ p + 1 \in 1 .. L
        BY <1>4, <1>7, <2>1, <3>6 DEF IsAt
      <4>2. p + own + 1 = Moved(p + 1) /\ k + h + 1 = p + own + 1
        BY <1>6, <1>9, <3>2
      <4>. HIDE DEF Moved
      <4>3. IsAt(e + 1, k + h + 1)'
        BY <1>21, <4>1, <4>2
      <4>. QED
        BY <2>1, <3>2, <3>3, <3>4, <3>6, <4>3
    <3>. QED
      BY <3>5, <3>6
  <2>2. CASE e # at
    <3>0. h = Behind(e)
      BY <1>24, <2>2
    <3>1. /\ blocks[i] = IF Expanded(e)
                           THEN Redirect(Orig(infos[e].mbb), NextSelf(infos[e].mbb))
                           ELSE Orig(infos[e].mbb)
          /\ i + h \in 1 .. L
          /\ \A j \in 1 .. h : blocks[i + j] = Sequence(Orig(infos[e].mbb))[j]
          /\ IF e = N THEN i + h = L ELSE IsAt(e + 1, i + h + 1)
      <4>1. /\ blocks[i] = IF Expanded(e)
                             THEN Redirect(Orig(infos[e].mbb), NextSelf(infos[e].mbb))
                             ELSE Orig(infos[e].mbb)
            /\ i + Behind(e) \in DOMAIN blocks
            /\ \A j \in 1 .. Behind(e) : blocks[i + j] = Sequence(Orig(infos[e].mbb))[j]
            /\ IF e = Len(infos) THEN i + Behind(e) = Len(blocks)
                                 ELSE IsAt(e + 1, i + Behind(e) + 1)
        BY <1>1, <1>2, <1>4, <1>24 DEF GroupInv
      <4>. QED
        BY <1>4, <3>0, <4>1 DEF N, L
    <3>2. h \in {0, own}
      BY <3>0, <1>b DEF Behind
    <3>3. i # p
      <4>1. i = p => infos[e].mbb = infos[at].mbb
        BY <1>a, <1>6, <1>24 DEF IsAt
      <4>. QED
        BY <1>1, <1>2, <1>3, <2>2, <4>1 DEF InfosInv
    <3>4. ASSUME NEW j \in 1 .. h PROVE blocks[i + j].id[3] # "self"
      <4>1. IsSelf(infos[e].mbb)
        BY <1>1, <1>2 DEF InfosInv
      <4>2. j \in 1 .. own
        BY <3>2, <1>9
      <4>3. Sequence(Orig(infos[e].mbb))[j].id
              = IF j = 1 THEN LongBr(infos[e].mbb) ELSE BalTgt(infos[e].mbb)
        BY <1>b, <1>2, <4>1, <4>2, SequenceFacts
      <4>. QED
        BY <3>1, <4>3 DEF LongBr, BalTgt, Name
    <3>5. i < p => i + h < p
      <4>1. ASSUME i < p, ~(i + h < p) PROVE FALSE
        <5>1. p - i \in 1 .. h /\ i + (p - i) = p
          BY <1>6, <1>9, <3>2, <4>1
        <5>. QED
          BY <1>5, <1>6, <3>4, <5>1
      <4>. QED
        BY <4>1
    <3>6. \A j \in 0 .. h : /\ i + j \in 1 .. L /\ i + j # p /\ Moved(i + j) = Moved(i) + j
      <4>1. CASE i < p
        BY <1>4, <1>6, <1>9, <3>1, <3>2, <3>5, <4>1
      <4>2. CASE i > p
        BY <1>4, <1>6, <1>9, <3>1, <3>2, <4>2
      <4>. QED
        BY <1>6, <3>3, <4>1, <4>2
    <3>7. h \in 0 .. h /\ 0 \in 0 .. h /\ (\A j \in 1 .. h : j \in 0 .. h)
      BY <1>9, <3>2
    <3>8. i + h + 1 \in 1 .. L => Moved(i + h + 1) = Moved(i) + h + 1
      <4>1. CASE i < p
        BY <1>4, <1>6, <1>9, <3>2, <3>5, <4>1
      <4>2. CASE i > p
        BY <1>4, <1>6, <1>9, <3>2, <4>2
      <4>. QED
        BY <1>6, <3>3, <4>1, <4>2
    <3>9. e = N => Moved(i) + h = L + own
      <4>1. ASSUME e = N PROVE ~(i < p)
        BY <1>4, <1>6, <1>9, <3>1, <3>2, <3>5, <4>1
      <4>. QED
        BY <1>4, <1>6, <1>9, <3>1, <3>2, <3>3, <4>1
    <3>. HIDE DEF Moved
    <3>10. blocks'[k] = blocks[i]
      BY <1>13, <1>24, <3>3
    <3>11. k + h \in 1 .. L + own
      BY <1>13, <1>24, <3>1, <3>6, <3>7
    <3>12. ASSUME NEW j \in 1 .. h
           PROVE  blocks'[k + j] = Sequence(Orig(infos[e].mbb))[j]
      <4>1. i + j \in 1 .. L /\ i + j # p /\ Moved(i + j) = Moved(i) + j
        BY <3>6, <3>7
      <4>2. blocks'[Moved(i + j)] = blocks[i + j]
        BY <1>13, <4>1
      <4>. QED
        BY <1>24, <3>1, <4>1, <4>2
    <3>13. e # N => IsAt(e + 1, k + h + 1)'
      <4>1. ASSUME e # N PROVE IsAt(e + 1, k + h + 1)'
        <5>1. IsAt(e + 1, i + h + 1) /\ i + h + 1 \in 1 .. L
          BY <1>4, <3>1, <4>1 DEF IsAt
        <5>. QED
          BY <1>21, <1>24, <3>8, <5>1
      <4>. QED
        BY <4>1
    <3>14. e = N => k + h = L + own
      BY <1>24, <3>9
    <3>. QED
      BY <2>2, <3>1, <3>10, <3>11, <3>12, <3>13, <3>14
  <2>. QED
    BY <2>1, <2>2
<1>25. GroupInv'
  <2>1. ASSUME NEW e \in DOMAIN infos', NEW k \in DOMAIN blocks', IsAt(e, k)'
        PROVE  /\ (blocks[k] = IF Expanded(e)
                                 THEN Redirect(Orig(infos[e].mbb), NextSelf(infos[e].mbb))
                                 ELSE Orig(infos[e].mbb))'
               /\ (k + Behind(e) \in DOMAIN blocks)'
               /\ (\A j \in 1 .. Behind(e) :
                      blocks[k + j] = Sequence(Orig(infos[e].mbb))[j])'
               /\ (IF e = Len(infos) THEN k + Behind(e) = Len(blocks)
                                     ELSE IsAt(e + 1, k + Behind(e) + 1))'
    <3>1. PICK i \in 1 .. L : k = Moved(i) /\ IsAt(e, i)
      BY <1>21, <2>1
    <3>h. PICK h : h = IF e = at THEN own ELSE Behind(e)
      OBVIOUS
    <3>2. /\ blocks'[k] = IF Expanded(e) \/ e = at
                            THEN Redirect(Orig(infos[e].mbb), NextSelf(infos[e].mbb))
                            ELSE Orig(infos[e].mbb)
          /\ k + h \in 1 .. L + own
          /\ \A j \in 1 .. h : blocks'[k + j] = Sequence(Orig(infos[e].mbb))[j]
          /\ e = N => k + h = L + own
          /\ e # N => IsAt(e + 1, k + h + 1)'
      <4>. HIDE DEF Moved
      <4>. QED
        BY <1>1, <1>24, <3>1, <3>h
    <3>3. /\ infos' = infos /\ Expanded(e)' = (Expanded(e) \/ e = at) /\ Behind(e)' = h
      BY <1>1, <1>20, <1>23, <3>h
    <3>4. /\ Orig(infos[e].mbb)' = Orig(infos[e].mbb)
          /\ NextSelf(infos[e].mbb)' = NextSelf(infos[e].mbb)
          /\ Sequence(Orig(infos[e].mbb))' = Sequence(Orig(infos[e].mbb))
      BY <1>1, <3>3, InputKept
    <3>5. (blocks[k] = IF Expanded(e)
                         THEN Redirect(Orig(infos[e].mbb), NextSelf(infos[e].mbb))
                         ELSE Orig(infos[e].mbb))'
      BY <3>2, <3>3, <3>4
    <3>6. (k + Behind(e) \in DOMAIN blocks)'
      BY <1>12, <3>2, <3>3
    <3>7. (\A j \in 1 .. Behind(e) :
             blocks[k + j] = Sequence(Orig(infos[e].mbb))[j])'
      BY <3>2, <3>3, <3>4
    <3>8. (IF e = Len(infos) THEN k + Behind(e) = Len(blocks)
                             ELSE IsAt(e + 1, k + Behind(e) + 1))'
      <4>1. CASE e = N
        BY <1>11, <3>2, <3>3, <4>1 DEF N
      <4>2. CASE e # N
        <5>1. \A l : l = k + h + 1 => IsAt(e + 1, l)'
          BY <3>2, <4>2
        <5>. QED
          BY <3>3, <4>2, <5>1 DEF N
      <4>. QED
        BY <4>1, <4>2
    <3>. QED
      BY <3>5, <3>6, <3>7, <3>8
  <2>. QED
    BY <2>1 DEF GroupInv
<1>26. RoundInv'
  <2>1. \A e : /\ ShortFits(e)' <=> ShortFits(e)
               /\ LongNeeded(e)' <=> LongNeeded(e)
    BY <1>1, InputKept DEF ShortFits, LongNeeded, IsTgt, OwnSize, input
  <2>. QED
    BY <1>1, <1>2, <2>1 DEF RoundInv
<1>. QED
  BY SMTT(60), <1>17, <1>18, <1>19, <1>22, <1>25, <1>26 DEF IInv

-----------------------------------------------------------------------------
(***************************************************************************)
(* The theorems about the Cpu0LongBranch pass: its invariant holds in      *)
(* every state, and the properties that the runs check follow from it.     *)
(***************************************************************************)

LEMMA StutterStep ==
  ASSUME IInv, UNCHANGED vars
  PROVE  IInv'
<1>1. /\ UNCHANGED <<input, phase, blocks, infos, at, made, ever>>
      /\ UNCHANGED input
  BY DEF vars
<1>2. InputInv'
  <2>1. func' = func /\ isPIC' = isPIC /\ force' = force /\ gpSet' = gpSet
    BY <1>1 DEF input
  <2>. QED
    BY <1>1, <2>1 DEF IInv, InputInv
<1>3. BlocksInv' /\ SplitInv'
  <2>1. BlocksInv'
    BY <1>1, InputKept DEF IInv, BlocksInv
  <2>2. SplitInv'
    BY <1>1, InputKept DEF IInv, SplitInv
  <2>. QED
    BY <2>1, <2>2
<1>4. CASE phase = "split"
  BY <1>1, <1>2, <1>3, <1>4 DEF IInv, InfosInv, OrderInv, GroupInv, RoundInv
<1>5. CASE phase # "split"
  <2>1. InfosInv'
    BY <1>1, <1>5, InfosKept DEF IInv
  <2>2. OrderInv' /\ GroupInv'
    BY <1>1, <1>5, LayoutKept DEF IInv, Expanded
  <2>3. \A e : /\ ShortFits(e)' <=> ShortFits(e)
               /\ LongNeeded(e)' <=> LongNeeded(e)
    BY <1>1, InputKept DEF ShortFits, LongNeeded, IsTgt, OwnSize, input
  <2>4. RoundInv'
    BY <1>1, <2>3 DEF IInv, RoundInv
  <2>. QED
    BY <1>2, <1>3, <2>1, <2>2, <2>4 DEF IInv
<1>. QED
  BY <1>4, <1>5

(***************************************************************************)
(* The invariant of the pass holds in every state: what each loop has left *)
(* behind it when the next one starts.                                     *)
(***************************************************************************)
THEOREM Invariant == Spec => []IInv
<1>1. IInv /\ [Next]_vars => IInv'
  BY SplitStep, MeasureStep, KeepStep, MarkStep, EndRoundStep, ExpandStep, SkipShortStep,
     FinishStep, StutterStep DEF Next
<1>. QED
  BY <1>1, InitIInv, PTL DEF Spec

-----------------------------------------------------------------------------
(* The finished layout.                                                    *)

\* Every block is that of an entry or one of the sequence behind it.
LEMMA Placed ==
  ASSUME IInv, phase # "split", NEW p \in DOMAIN blocks
  PROVE  \E e \in DOMAIN infos, i \in DOMAIN blocks, j \in Nat :
           IsAt(e, i) /\ j <= Behind(e) /\ p = i + j
<1> DEFINE In(k) == \E e \in DOMAIN infos, i \in DOMAIN blocks, j \in Nat :
                      IsAt(e, i) /\ j <= Behind(e) /\ k = i + j
           S == {k \in Nat : In(k)}
           L == Len(blocks)
<1>1. /\ L \in Nat /\ \A i : i \in DOMAIN blocks <=> i \in 1 .. L
      /\ OrderInv /\ GroupInv /\ \A e : Behind(e) \in 0 .. 2
  BY BlocksType DEF IInv, Behind, Own
<1>2. p \in 1 .. L /\ 1 \in 1 .. L
  BY <1>1
<1>3. 1 \in S
  <2>1. IsAt(1, 1) /\ 0 <= Behind(1) /\ 1 = 1 + 0
    BY SMTT(60), <1>1, <1>2 DEF OrderInv
  <2>2. 1 \in DOMAIN infos /\ 1 \in DOMAIN blocks
    BY <2>1 DEF IsAt
  <2>. QED
    BY <2>1, <2>2
<1>4. ASSUME NEW k \in 1 .. L - 1, In(k) PROVE k + 1 \in S
  <2>1. PICK e \in DOMAIN infos, i \in DOMAIN blocks, j \in Nat :
          IsAt(e, i) /\ j <= Behind(e) /\ k = i + j
    BY <1>4
  <2>2. i \in Nat /\ k \in Nat
    BY <1>1
  <2>3. CASE j < Behind(e)
    <3>1. j + 1 \in Nat /\ j + 1 <= Behind(e) /\ k + 1 = i + (j + 1)
      BY SMTT(60), <1>1, <2>1, <2>2, <2>3
    <3>. QED
      BY <2>1, <2>2, <3>1
  <2>4. CASE ~(j < Behind(e))
    <3>1. j = Behind(e) /\ k = i + Behind(e)
      BY <1>1, <2>1, <2>4
    <3>2. e # Len(infos)
      BY <1>1, <2>1, <3>1 DEF GroupInv
    <3>3. IsAt(e + 1, k + 1)
      BY <1>1, <2>1, <3>1, <3>2 DEF GroupInv
    <3>4. e + 1 \in DOMAIN infos /\ k + 1 \in DOMAIN blocks /\ 0 <= Behind(e + 1)
          /\ k + 1 = (k + 1) + 0 /\ k + 1 \in Nat
      BY <1>1, <2>2, <3>3 DEF IsAt
    <3>. QED
      BY <3>3, <3>4
  <2>. QED
    BY <2>3, <2>4
<1>5. \A k \in 1 .. L - 1 : k \in S => k + 1 \in S
  BY <1>4
<1> HIDE DEF S, L
<1>6. \A k \in 1 .. L : k \in S
  BY <1>1, <1>3, <1>5, IntervalInduction
<1>. QED
  BY <1>2, <1>6 DEF S

\* The block of an entry and what lies behind it.
GroupAt(e, i, id, o) ==
  /\ e \in 1 .. Len(infos) /\ Len(infos) \in Nat
  /\ i \in 1 .. Len(blocks) /\ Len(blocks) \in Nat /\ blocks[i].id = id
  /\ IsSelf(id) /\ o \in BlockType /\ o.id = id
  /\ ~Expanded(e) => blocks[i] = o /\ Behind(e) = 0
  /\ Expanded(e) =>
       /\ blocks[i] = Redirect(o, NextSelf(id)) /\ i + 1 \in DOMAIN blocks
       /\ o.op = "cond" \/ (o.op = "jmp" /\ isPIC)
       /\ isPIC => /\ Behind(e) = 2 /\ i + 2 \in DOMAIN blocks
                   /\ blocks[i + 1] = Block(LongBr(id), 5, "bal", BalTgt(id), TRUE)
                   /\ blocks[i + 2] = Block(BalTgt(id), 5, "jr", o.tgt, TRUE)
       /\ ~isPIC => /\ Behind(e) = 1
                    /\ blocks[i + 1] = Block(LongBr(id), 1, "jmp", o.tgt, TRUE)
  /\ e = Len(infos) => i + Behind(e) = Len(blocks) /\ o.op \in {"jmp", "ret"}
  /\ e # Len(infos) => /\ IsAt(e + 1, i + Behind(e) + 1)
                       /\ NextSelf(id) = infos[e + 1].mbb

LEMMA Group ==
  ASSUME IInv, phase # "split", NEW e, NEW i, IsAt(e, i)
  PROVE  GroupAt(e, i, infos[e].mbb, Orig(infos[e].mbb))
<1>a. PICK id, o : id = infos[e].mbb /\ o = Orig(id)
  OBVIOUS
<1>1. /\ e \in DOMAIN infos /\ i \in DOMAIN blocks /\ blocks[i].id = id
      /\ func \in Funcs /\ BlocksInv /\ InfosInv /\ GroupInv /\ isPIC \in BOOLEAN
  BY <1>a DEF IsAt, IInv, InputInv
<1>2. /\ \A k : k \in DOMAIN infos <=> k \in 1 .. Len(infos)
      /\ \A k : k \in DOMAIN blocks <=> k \in 1 .. Len(blocks)
      /\ Len(infos) \in Nat /\ Len(blocks) \in Nat
  BY <1>1, InfosType, BlocksType
<1>3. /\ IsSelf(id) /\ (infos[e].long => infos[e].br)
      /\ infos[e].br <=> o.op = "cond" \/ (o.op = "jmp" /\ isPIC)
      /\ NextSelf(id) = IF e < Len(infos) THEN infos[e + 1].mbb ELSE Entry(Len(func) + 1)
  BY <1>a, <1>1 DEF InfosInv
<1>4. /\ o \in BlockType /\ o.id = id /\ o.op \in {"cond", "jmp", "ret", "none"}
  BY <1>a, <1>1, <1>3, OrigFacts
<1>5. /\ blocks[i] = IF Expanded(e) THEN Redirect(o, NextSelf(id)) ELSE o
      /\ i + Behind(e) \in DOMAIN blocks
      /\ \A j \in 1 .. Behind(e) : blocks[i + j] = Sequence(o)[j]
      /\ e = Len(infos) => i + Behind(e) = Len(blocks)
      /\ e # Len(infos) => IsAt(e + 1, i + Behind(e) + 1)
  <2>1. /\ blocks[i] = IF Expanded(e)
                         THEN Redirect(Orig(infos[e].mbb), NextSelf(infos[e].mbb))
                         ELSE Orig(infos[e].mbb)
        /\ i + Behind(e) \in DOMAIN blocks
        /\ \A j \in 1 .. Behind(e) : blocks[i + j] = Sequence(Orig(infos[e].mbb))[j]
        /\ IF e = Len(infos) THEN i + Behind(e) = Len(blocks)
                             ELSE IsAt(e + 1, i + Behind(e) + 1)
    BY <1>1 DEF GroupInv
  <2>. QED
    BY <1>a, <2>1
<1>6. e # Len(infos) => NextSelf(id) = infos[e + 1].mbb
  BY <1>a, <1>1, <1>2, <1>3
<1>7. e = Len(infos) => o.op \in {"jmp", "ret"}
  <2>1. CASE e = Len(infos)
    <3>1. NextSelf(id) = Entry(Len(func) + 1)
      BY <1>2, <1>3, <2>1
    <3>2. o.op # "cond" /\ o.op # "none"
      BY <1>a, <1>1, <1>3, <3>1, LastIsNoBranch
    <3>. QED
      BY <1>4, <3>2
  <2>. QED
    BY <2>1
<1>8. CASE ~Expanded(e)
  BY <1>a, <1>1, <1>2, <1>3, <1>4, <1>5, <1>6, <1>7, <1>8 DEF Behind, GroupAt
<1>9. CASE Expanded(e)
  <2>1. o.op = "cond" \/ (o.op = "jmp" /\ isPIC)
    BY <1>3, <1>9 DEF Expanded
  <2>2. CASE isPIC
    <3>1. Behind(e) = 2 /\ 1 \in 1 .. 2 /\ 2 \in 1 .. 2
      BY <1>9, <2>2 DEF Behind, Own
    <3>2. /\ Sequence(o)[1] = Block(LongBr(id), 5, "bal", BalTgt(id), TRUE)
          /\ Sequence(o)[2] = Block(BalTgt(id), 5, "jr", o.tgt, TRUE)
      BY <1>4, <2>2 DEF Sequence
    <3>3. i + 1 \in DOMAIN blocks /\ i + 2 \in DOMAIN blocks
      BY <1>1, <1>2, <1>5, <3>1
    <3>. QED
      BY <1>a, <1>1, <1>2, <1>3, <1>4, <1>5, <1>6, <1>7, <1>9, <2>1, <2>2, <3>1, <3>2, <3>3 DEF GroupAt
  <2>3. CASE ~isPIC
    <3>1. Behind(e) = 1 /\ 1 \in 1 .. 1
      BY <1>9, <2>3 DEF Behind, Own
    <3>2. Sequence(o)[1] = Block(LongBr(id), 1, "jmp", o.tgt, TRUE)
      BY <1>4, <2>3 DEF Sequence
    <3>. QED
      BY <1>a, <1>1, <1>2, <1>3, <1>4, <1>5, <1>6, <1>7, <1>9, <2>1, <2>3, <3>1, <3>2
      DEF GroupAt
  <2>. QED
    BY <2>2, <2>3
<1>. QED
  BY <1>8, <1>9

\* The block of the function that another one branches to.
LEMMA EntryAt ==
  ASSUME IInv, phase # "split", NEW n \in 1 .. Len(func)
  PROVE  \E e \in DOMAIN infos, i \in DOMAIN blocks :
           /\ infos[e].mbb = Entry(n) /\ IsAt(e, i)
           /\ blocks[i].id = Entry(n) /\ Position(blocks, Entry(n)) = i
<1>1. n \in DOMAIN func
  BY FuncType DEF IInv, InputInv
<1>2. PICK e \in DOMAIN infos : infos[e].mbb = Entry(n)
  BY <1>1 DEF IInv, InfosInv
<1>3. PICK i \in DOMAIN blocks : IsAt(e, i)
  BY <1>2 DEF IInv, OrderInv
<1>4. blocks[i].id = Entry(n)
  BY <1>2, <1>3 DEF IsAt
<1>5. Position(blocks, Entry(n)) = i
  BY <1>4, PositionIs DEF IInv
<1>. QED
  BY <1>2, <1>3, <1>4, <1>5

\* The target of a branch is a block of the function.
LEMMA TargetAt ==
  ASSUME IInv, phase # "split", NEW e, NEW i, IsAt(e, i),
         NEW o, o = Orig(infos[e].mbb)
  PROVE  /\ \E q \in DOMAIN blocks : blocks[q].id = o.tgt
         /\ o.op \in {"cond", "jmp"} =>
              \E t \in DOMAIN infos, q \in DOMAIN blocks :
                /\ IsTgt(e, t) /\ IsAt(t, q) /\ blocks[q].id = o.tgt
                /\ Position(blocks, o.tgt) = q /\ IsEntry(q)
<1> DEFINE id == infos[e].mbb
<1>1. IsSelf(id) /\ blocks[i].id = id /\ i \in DOMAIN blocks /\ func \in Funcs
  BY Group DEF IInv, InputInv, IsAt, GroupAt
<1>2. id[1] \in 1 .. Len(func)
  BY <1>1, OrigFacts
<1>3. /\ func[id[1]].cond \in 0 .. Len(func) /\ func[id[1]].jump \in 0 .. Len(func)
      /\ Len(func) \in Nat
  BY <1>1, <1>2, FuncType
<1>4. /\ o.op \in {"cond", "jmp", "ret", "none"}
      /\ o.op = "cond" <=> id[2] = "first" /\ func[id[1]].cond # 0
      /\ o.op = "cond" => o.tgt = Entry(func[id[1]].cond)
      /\ o.op = "jmp" => func[id[1]].jump # 0 /\ o.tgt = Entry(func[id[1]].jump)
      /\ o.op \in {"ret", "none"} => o.tgt = id
  BY <1>1, OrigFacts
<1>5. CASE o.op \in {"ret", "none"}
  BY <1>1, <1>4, <1>5
<1>6. CASE o.op \in {"cond", "jmp"}
  <2>1. PICK n \in 1 .. Len(func) : o.tgt = Entry(n)
    BY <1>3, <1>4, <1>6
  <2>2. PICK t \in DOMAIN infos, q \in DOMAIN blocks :
          /\ infos[t].mbb = Entry(n) /\ IsAt(t, q)
          /\ blocks[q].id = Entry(n) /\ Position(blocks, Entry(n)) = q
    BY EntryAt
  <2>3. IsEntry(q)
    <3>1. Entry(n)[1] = n
      BY DEF Entry, Name
    <3>. QED
      BY <2>2, <3>1 DEF IsEntry
  <2>4. IsTgt(e, t)
    BY <2>1, <2>2 DEF IsTgt
  <2>. QED
    BY <2>1, <2>2, <2>3, <2>4
<1>. QED
  BY <1>4, <1>5, <1>6

LEMMA EveryTarget ==
  ASSUME IInv, phase # "split", NEW p \in DOMAIN blocks
  PROVE  \E q \in DOMAIN blocks : blocks[q].id = blocks[p].tgt
<1>1. PICK e \in DOMAIN infos, i \in DOMAIN blocks, j \in Nat :
        IsAt(e, i) /\ j <= Behind(e) /\ p = i + j
  BY Placed
<1>2. PICK id : id = infos[e].mbb
  OBVIOUS
<1>3. PICK o : o = Orig(id)
  OBVIOUS
<1>g. GroupAt(e, i, id, o)
  BY <1>1, <1>2, <1>3, Group
<1>4. PICK q \in DOMAIN blocks : blocks[q].id = o.tgt
  BY <1>1, <1>2, <1>3, TargetAt
<1>5. i \in Nat /\ o.id = id /\ o \in BlockType
  BY <1>g DEF GroupAt
<1>6. CASE ~Expanded(e)
  <2>1. blocks[i] = o /\ Behind(e) = 0
    BY <1>g, <1>6 DEF GroupAt
  <2>2. p = i
    BY <1>1, <1>5, <2>1
  <2>. QED
    BY <1>4, <2>1, <2>2
<1>7. CASE Expanded(e)
  <2>1. /\ blocks[i] = Redirect(o, NextSelf(id)) /\ i + 1 \in DOMAIN blocks
        /\ isPIC => /\ Behind(e) = 2 /\ i + 2 \in DOMAIN blocks
                    /\ blocks[i + 1] = Block(LongBr(id), 5, "bal", BalTgt(id), TRUE)
                    /\ blocks[i + 2] = Block(BalTgt(id), 5, "jr", o.tgt, TRUE)
        /\ ~isPIC => /\ Behind(e) = 1
                     /\ blocks[i + 1] = Block(LongBr(id), 1, "jmp", o.tgt, TRUE)
    BY <1>g, <1>7 DEF GroupAt
  <2>2. /\ blocks[i + 1].id = LongBr(id)
        /\ isPIC => blocks[i + 1].tgt = BalTgt(id) /\ blocks[i + 2].id = BalTgt(id)
        /\ isPIC => blocks[i + 2].tgt = o.tgt
        /\ ~isPIC => blocks[i + 1].tgt = o.tgt
    BY <2>1 DEF Block
  <2>3. j \in {0, 1} \/ (isPIC /\ j = 2)
    <3>1. (Behind(e) = 2 /\ isPIC) \/ Behind(e) = 1
      BY <2>1
    <3>. QED
      BY <1>1, <3>1
  <2>4. CASE j = 0
    <3>1. p = i
      BY <1>1, <1>5, <2>4
    <3>2. CASE o.op = "jmp"
      <4>1. blocks[i].tgt = LongBr(id)
        BY <1>5, <2>1, <3>2 DEF Redirect, BlockType
      <4>. QED
        BY <2>1, <2>2, <3>1, <4>1
    <3>3. CASE o.op # "jmp"
      <4>1. blocks[i].tgt = NextSelf(id)
        BY <1>5, <2>1, <3>3 DEF Redirect, BlockType
      <4>2. o.op = "cond" \/ o.op = "jmp"
        BY <1>g, <1>7 DEF GroupAt
      <4>3. e # Len(infos)
        BY <1>g, <3>3, <4>2 DEF GroupAt
      <4>4. PICK k : IsAt(e + 1, k) /\ NextSelf(id) = infos[e + 1].mbb
        BY <1>g, <4>3 DEF GroupAt
      <4>. QED
        BY <3>1, <4>1, <4>4 DEF IsAt
    <3>. QED
      BY <3>2, <3>3
  <2>5. CASE j = 1
    <3>1. p = i + 1
      BY <1>1, <2>5
    <3>. QED
      BY <1>4, <2>1, <2>2, <3>1
  <2>6. CASE isPIC /\ j = 2
    BY <1>1, <1>4, <2>2, <2>6
  <2>. QED
    BY <2>3, <2>4, <2>5, <2>6
<1>. QED
  BY <1>6, <1>7

(***************************************************************************)
(* The blocks keep distinct names through splitMBB and the insertions of   *)
(* expandToLongBranch, and no step leaves a branch to a block that is not  *)
(* there.                                                                  *)
(***************************************************************************)
THEOREM Typed == Spec => []TypeOK
<1>1. IInv => TypeOK
  <2> SUFFICES ASSUME IInv PROVE TypeOK
    OBVIOUS
  <2>1. phase # "split" =>
          \A p \in DOMAIN blocks : \E q \in DOMAIN blocks : blocks[q].id = blocks[p].tgt
    BY EveryTarget
  <2>2. infos \in Seq([mbb : Ids, size : Nat, br : BOOLEAN, long : BOOLEAN])
    <3>1. CASE phase = "split"
      BY <3>1 DEF IInv, SplitInv
    <3>2. CASE phase # "split"
      BY <3>2 DEF IInv, InfosInv, InfoType
    <3>. QED
      BY <3>1, <3>2
  <2>3. at \in 1 .. (IF phase = "split" THEN Len(func) ELSE Len(infos)) + 1
    BY DEF IInv, InputInv
  <2>. QED
    BY <2>1, <2>2, <2>3 DEF IInv, InputInv, BlocksInv, TypeOK
<1>. QED
  BY <1>1, Invariant, PTL

-----------------------------------------------------------------------------
(* Control flow.                                                           *)

LEMMA Stays ==
  ASSUME NEW q, IsEntry(q)
  PROVE  Onward(q) = q
BY DEF Onward

\* A sequence goes to the target of the branch that it was made for.
LEMMA SequenceGoes ==
  ASSUME IInv, phase # "split", NEW e, NEW i, IsAt(e, i), Expanded(e),
         NEW q, Position(blocks, Orig(infos[e].mbb).tgt) = q, IsEntry(q)
  PROVE  /\ Position(blocks, LongBr(infos[e].mbb)) = i + 1
         /\ Onward(Onward(i + 1)) = q
<1>1. PICK id, o : id = infos[e].mbb /\ o = Orig(id)
  OBVIOUS
<1>2. GroupAt(e, i, id, o)
  BY <1>1, Group
<1>3. /\ i \in Nat /\ i + 1 \in DOMAIN blocks /\ BlocksInv
      /\ isPIC => /\ i + 2 \in DOMAIN blocks
                  /\ blocks[i + 1] = Block(LongBr(id), 5, "bal", BalTgt(id), TRUE)
                  /\ blocks[i + 2] = Block(BalTgt(id), 5, "jr", o.tgt, TRUE)
      /\ ~isPIC => blocks[i + 1] = Block(LongBr(id), 1, "jmp", o.tgt, TRUE)
  <2>1. i \in Nat
    BY <1>2 DEF GroupAt
  <2>2. BlocksInv
    BY DEF IInv
  <2>. QED
    BY <1>2, <2>1, <2>2 DEF GroupAt
<1>4. LongBr(id)[3] = "longbr" /\ BalTgt(id)[3] = "baltgt" /\ \A n : Entry(n)[3] = "self"
  BY DEF LongBr, BalTgt, Entry, Name
<1>5. blocks[i + 1].id = LongBr(id) /\ Position(blocks, LongBr(id)) = i + 1
  <2>1. blocks[i + 1].id = LongBr(id)
    BY <1>3 DEF Block
  <2>. QED
    BY <1>3, <2>1, PositionIs
<1>6. ~IsEntry(i + 1)
  BY <1>3, <1>4, <1>5 DEF IsEntry
<1>7. Onward(i + 1) = Successor(i + 1, FALSE)
  BY <1>6 DEF Onward
<1>8. CASE isPIC
  <2>1. /\ blocks[i + 1].op = "bal" /\ blocks[i + 1].tgt = BalTgt(id)
        /\ blocks[i + 2].op = "jr" /\ blocks[i + 2].tgt = o.tgt
        /\ blocks[i + 2].id = BalTgt(id)
    BY <1>3, <1>8 DEF Block
  <2>2. Position(blocks, BalTgt(id)) = i + 2
    BY <1>3, <1>8, <2>1, PositionIs
  <2>3. Successor(i + 1, FALSE) = i + 2
    BY <2>1, <2>2 DEF Successor
  <2>4. ~IsEntry(i + 2)
    BY <1>3, <1>4, <2>1 DEF IsEntry
  <2>5. Onward(i + 2) = Successor(i + 2, FALSE)
    BY <2>4 DEF Onward
  <2>6. Successor(i + 2, FALSE) = q
    BY <1>1, <2>1 DEF Successor
  <2>. QED
    BY <1>1, <1>5, <1>7, <2>3, <2>5, <2>6
<1>9. CASE ~isPIC
  <2>1. blocks[i + 1].op = "jmp" /\ blocks[i + 1].tgt = o.tgt
    BY <1>3, <1>9 DEF Block
  <2>2. Successor(i + 1, FALSE) = q
    BY <1>1, <2>1 DEF Successor
  <2>. QED
    BY <1>1, <1>5, <1>7, <2>2, Stays
<1>. QED
  BY <1>8, <1>9

\* Where control goes from a block of the function.
LEMMA Leaves ==
  ASSUME IInv, phase # "split", NEW e, NEW i, IsAt(e, i), NEW taken \in BOOLEAN,
         NEW id, id = infos[e].mbb, NEW o, o = Orig(id)
  PROVE  /\ o.op = "jmp" \/ (o.op = "cond" /\ taken) =>
              \A q : Position(blocks, o.tgt) = q /\ IsEntry(q) =>
                       Onward(Onward(Successor(i, taken))) = q
         /\ o.op = "none" \/ (o.op = "cond" /\ ~taken) =>
              /\ IsAt(e + 1, Successor(i, taken))
              /\ NextSelf(id) = infos[e + 1].mbb
         /\ o.op = "ret" => Successor(i, taken) = 0
<1>2. GroupAt(e, i, id, o)
  BY Group
<1>3. /\ i \in Nat /\ o \in BlockType /\ o.id = id /\ BlocksInv
      /\ func \in Funcs /\ IsSelf(id)
  BY <1>2 DEF GroupAt, IInv, InputInv
<1>4. o.op \in {"cond", "jmp", "ret", "none"} /\ o.sense = TRUE
  BY <1>3, OrigFacts
<1>5. o.op = "none" \/ o.op = "cond" =>
        /\ IsAt(e + 1, i + Behind(e) + 1)
        /\ NextSelf(id) = infos[e + 1].mbb
  BY <1>2 DEF GroupAt
<1>6. CASE ~Expanded(e)
  <2>1. blocks[i] = o /\ Behind(e) = 0
    BY <1>2, <1>6 DEF GroupAt
  <2>2. i + Behind(e) + 1 = i + 1
    BY <1>3, <2>1
  <2>3. CASE o.op = "jmp" \/ (o.op = "cond" /\ taken)
    <3>1. Successor(i, taken) = Position(blocks, o.tgt)
      BY <1>4, <2>1, <2>3 DEF Successor
    <3>. QED
      BY <2>3, <3>1, Stays
  <2>4. CASE o.op = "none" \/ (o.op = "cond" /\ ~taken)
    <3>1. Successor(i, taken) = i + 1
      BY <1>4, <2>1, <2>4 DEF Successor
    <3>. QED
      BY <1>5, <2>2, <2>4, <3>1
  <2>5. CASE o.op = "ret"
    BY <2>1, <2>5 DEF Successor
  <2>. QED
    BY <1>4, <2>3, <2>4, <2>5
<1>7. CASE Expanded(e)
  <2>1. /\ blocks[i] = Redirect(o, NextSelf(id))
        /\ o.op = "cond" \/ o.op = "jmp"
    BY <1>2, <1>7 DEF GroupAt
  <2>2. /\ blocks[i].op = o.op
        /\ o.op = "jmp" => blocks[i].tgt = LongBr(id)
        /\ o.op = "cond" => blocks[i].tgt = NextSelf(id) /\ blocks[i].sense = FALSE
    BY <1>3, <1>4, <2>1 DEF Redirect, BlockType
  <2>3. \A q : Position(blocks, o.tgt) = q /\ IsEntry(q) =>
          Position(blocks, LongBr(id)) = i + 1 /\ Onward(Onward(i + 1)) = q
    BY <1>7, SequenceGoes
  <2>4. CASE o.op = "jmp"
    <3>1. Successor(i, taken) = Position(blocks, LongBr(id))
      BY <2>2, <2>4 DEF Successor
    <3>. QED
      BY <2>3, <2>4, <3>1
  <2>5. CASE o.op = "cond" /\ taken
    <3>1. Successor(i, taken) = i + 1
      BY <2>2, <2>5 DEF Successor
    <3>. QED
      BY <2>3, <2>5, <3>1
  <2>6. CASE o.op = "cond" /\ ~taken
    <3>1. Successor(i, taken) = Position(blocks, NextSelf(id))
      BY <2>2, <2>6 DEF Successor
    <3>2. PICK k : k = i + Behind(e) + 1
      OBVIOUS
    <3>3. k \in DOMAIN blocks /\ blocks[k].id = NextSelf(id) /\ IsAt(e + 1, k)
      BY <1>5, <2>6, <3>2 DEF IsAt
    <3>4. Position(blocks, NextSelf(id)) = k
      BY <1>3, <3>3, PositionIs
    <3>. QED
      BY <1>5, <2>6, <3>1, <3>3, <3>4
  <2>. QED
    BY <2>1, <2>4, <2>5, <2>6
<1>. QED
  BY <1>6, <1>7

(***************************************************************************)
(* splitMBB, the reversed branches and the sequences of expandToLongBranch *)
(* keep the control flow, whatever the function and the marked branches.   *)
(***************************************************************************)
THEOREM FlowKept == Spec => []ControlFlowKept
<1>1. ASSUME IInv, Done, NEW n \in DOMAIN func, NEW taken \in BOOLEAN,
             NEW to, to = IntendedSuccessor(n, taken)
      PROVE  Reached(n, taken) = IF to = 0 THEN 0 ELSE Position(blocks, Entry(to))
  <2>1. /\ n \in 1 .. Len(func) /\ func \in Funcs /\ phase # "split" /\ Len(func) \in Nat
        /\ func[n].cond \in 0 .. Len(func) /\ func[n].jump \in 0 .. Len(func)
        /\ func[n].ret \in BOOLEAN
        /\ func[n].ret => func[n].cond = 0 /\ func[n].jump = 0
    BY <1>1, FuncType DEF IInv, InputInv, Done
  <2>2. PICK e \in DOMAIN infos, i \in DOMAIN blocks :
          infos[e].mbb = Entry(n) /\ IsAt(e, i) /\ Position(blocks, Entry(n)) = i
    BY <1>1, <2>1, EntryAt
  <2>3. PICK id, o : id = Entry(n) /\ o = Orig(id)
    OBVIOUS
  <2>4. /\ o.op \in {"cond", "jmp", "ret", "none"}
        /\ o.op = "cond" <=> func[n].cond # 0
        /\ o.op = "jmp" <=> func[n].jump # 0 /\ func[n].cond = 0
        /\ o.op = "ret" <=> func[n].ret
        /\ o.op = "cond" => o.tgt = Entry(func[n].cond)
        /\ o.op = "jmp" => o.tgt = Entry(func[n].jump)
    <3>1. IsSelf(id) /\ id[1] = n /\ id[2] = "first"
      BY <2>1, <2>3, SplitFacts DEF Entry, Name
    <3>2. /\ o.op \in {"cond", "jmp", "ret", "none"}
          /\ o.op = "cond" <=> id[2] = "first" /\ func[id[1]].cond # 0
          /\ o.op = "jmp" <=> /\ func[id[1]].jump # 0
                              /\ id[2] = "second" \/ func[id[1]].cond = 0
          /\ o.op = "ret" <=> func[id[1]].ret
          /\ o.op = "cond" => o.tgt = Entry(func[id[1]].cond)
          /\ o.op = "jmp" => o.tgt = Entry(func[id[1]].jump)
      BY <2>1, <2>3, <3>1, OrigFacts
    <3>. QED
      BY <3>1, <3>2
  <2>5. PICK s : s = Successor(i, taken)
    OBVIOUS
  <2>6. Reached(n, taken) = Onward(Onward(Onward(s)))
    BY <2>2, <2>5 DEF Reached
  <2>7. CASE o.op = "ret"
    <3>1. s = 0
      BY <1>1, <2>1, <2>2, <2>3, <2>5, <2>7, Leaves
    <3>2. IsEntry(0)
      BY DEF IsEntry
    <3>3. to = 0
      BY <1>1, <2>4, <2>7 DEF IntendedSuccessor
    <3>. QED
      BY <2>6, <3>1, <3>2, <3>3, Stays
  <2>8. CASE o.op = "jmp" \/ (o.op = "cond" /\ taken)
    <3>1. PICK q : Position(blocks, o.tgt) = q /\ IsEntry(q)
      BY <1>1, <2>1, <2>2, <2>3, <2>8, TargetAt
    <3>2. Onward(Onward(s)) = q
      BY <1>1, <2>1, <2>2, <2>3, <2>5, <2>8, <3>1, Leaves
    <3>3. to # 0 /\ o.tgt = Entry(to)
      BY <1>1, <2>1, <2>4, <2>8 DEF IntendedSuccessor
    <3>. QED
      BY <2>6, <3>1, <3>2, <3>3, Stays
  <2>9. CASE o.op = "none" \/ (o.op = "cond" /\ ~taken)
    <3>1. IsAt(e + 1, s) /\ NextSelf(id) = infos[e + 1].mbb
      BY <1>1, <2>1, <2>2, <2>3, <2>5, <2>9, Leaves
    <3>2. s \in DOMAIN blocks /\ blocks[s].id = NextSelf(id)
      BY <3>1 DEF IsAt
    <3>3. CASE func[n].cond # 0 /\ func[n].jump # 0
      <4>1. PICK tail, last : tail = Name(n, "second", "self") /\ last = Orig(tail)
        OBVIOUS
      <4>2. /\ NextSelf(id) = tail /\ IsSelf(tail)
            /\ tail[1] = n /\ tail[2] = "second" /\ tail # Entry(tail[1])
        BY <2>1, <2>3, <3>3, <4>1, SplitFacts DEF NextSelf, Entry, Name
      <4>3. last.op = "jmp" /\ last.tgt = Entry(func[n].jump)
        BY <2>1, <3>3, <4>1, <4>2, OrigFacts
      <4>4. Onward(s) = Successor(s, FALSE)
        <5>1. s # 0
          BY <1>1, <3>2, BlocksType DEF IInv
        <5>2. ~IsEntry(s)
          BY <3>2, <4>2, <5>1 DEF IsEntry
        <5>. QED
          BY <5>2 DEF Onward
      <4>5. PICK q : Position(blocks, last.tgt) = q /\ IsEntry(q)
        BY <1>1, <2>1, <3>1, <4>1, <4>2, <4>3, TargetAt
      <4>6. Onward(Onward(Successor(s, FALSE))) = q
        <5>1. PICK u : u = FALSE
          OBVIOUS
        <5>2. tail = infos[e + 1].mbb /\ u \in BOOLEAN /\ (last.op = "jmp" \/ u)
          BY <3>1, <4>2, <4>3, <5>1
        <5>3. Onward(Onward(Successor(s, u))) = q
          BY <1>1, <2>1, <3>1, <4>1, <4>3, <4>5, <5>2, Leaves
        <5>. QED
          BY <5>1, <5>3
      <4>7. to = func[n].jump
        BY <1>1, <2>1, <2>4, <2>9, <3>3 DEF IntendedSuccessor
      <4>. QED
        BY <2>6, <3>3, <4>3, <4>4, <4>5, <4>6, <4>7
    <3>4. CASE ~(func[n].cond # 0 /\ func[n].jump # 0)
      <4>1. NextSelf(id) = Entry(n + 1)
        BY <2>3, <3>4 DEF NextSelf, Entry, Name
      <4>2. IsEntry(s)
        <5>1. Entry(n + 1)[1] = n + 1
          BY DEF Entry, Name
        <5>. QED
          BY <3>2, <4>1, <5>1 DEF IsEntry
      <4>3. Position(blocks, Entry(n + 1)) = s
        BY <1>1, <3>2, <4>1, PositionIs DEF IInv
      <4>4. to = n + 1 /\ to # 0
        BY <1>1, <2>1, <2>4, <2>9, <3>4 DEF IntendedSuccessor
      <4>. QED
        BY <2>6, <4>2, <4>3, <4>4, Stays
    <3>. QED
      BY <3>3, <3>4
  <2>. QED
    BY <2>4, <2>7, <2>8, <2>9
<1>2. IInv => ControlFlowKept
  BY <1>1 DEF ControlFlowKept
<1>. QED
  BY <1>2, Invariant, PTL

-----------------------------------------------------------------------------
(* Addresses.                                                              *)

BlockSizes == [q \in DOMAIN blocks |-> SizeOf(blocks[q])]

LEMMA BlockSizesType ==
  ASSUME BlocksInv
  PROVE  \A p \in 1 .. Len(blocks) : BlockSizes[p] = SizeOf(blocks[p]) /\ BlockSizes[p] \in Nat
<1>1. ASSUME NEW b \in BlockType PROVE SizeOf(b) \in Nat
  <2>1. b.body \in Nat /\ BranchWords(b.op) \in Nat
    BY DEF BlockType, BranchWords
  <2>. QED
    BY <2>1 DEF SizeOf
<1>. QED
  BY <1>1, BlocksType DEF BlockSizes

LEMMA AddrType ==
  ASSUME BlocksInv, NEW a \in 1 .. Len(blocks) + 1
  PROVE  AddrOf(a) \in Nat /\ AddrOf(a) = SumOf(BlockSizes, 1, a - 1)
<1>1. Len(blocks) \in Nat
  BY BlocksType
<1>2. 1 \in Int /\ a - 1 \in Int /\ \A k \in 1 .. a - 1 : BlockSizes[k] \in Nat
  BY <1>1, BlockSizesType
<1>3. SumOf(BlockSizes, 1, a - 1) \in Nat
  BY <1>2, SumNat
<1>. QED
  BY <1>3 DEF AddrOf, BlockSizes

\* The address of a block behind another one.
LEMMA AddrSplit ==
  ASSUME BlocksInv, NEW a \in 1 .. Len(blocks) + 1, NEW b \in 1 .. Len(blocks) + 1, a <= b
  PROVE  /\ SumOf(BlockSizes, a, b - 1) \in Nat
         /\ AddrOf(b) = AddrOf(a) + SumOf(BlockSizes, a, b - 1)
<1>1. Len(blocks) \in Nat
  BY BlocksType
<1>2. PICK c \in Int, d \in Int : c = a - 1 /\ d = b - 1
  OBVIOUS
<1>3. 1 - 1 <= c /\ c <= d /\ \A k \in 1 .. d : BlockSizes[k] \in Int /\ BlockSizes[k] \in Nat
  BY <1>1, <1>2, BlockSizesType
<1>4. SumOf(BlockSizes, 1, d) = SumOf(BlockSizes, 1, c) + SumOf(BlockSizes, c + 1, d)
  BY <1>3, SumSplit
<1>5. c + 1 = a
  BY <1>2
<1>6. SumOf(BlockSizes, a, d) \in Nat
  <2>1. \A k \in a .. d : BlockSizes[k] \in Nat
    BY <1>3
  <2>. QED
    BY <2>1, SumNat
<1>. QED
  BY <1>2, <1>4, <1>5, <1>6, AddrType

LEMMA AddrNext ==
  ASSUME BlocksInv, NEW a \in 1 .. Len(blocks)
  PROVE  AddrOf(a + 1) = AddrOf(a) + SizeOf(blocks[a])
<1>1. Len(blocks) \in Nat
  BY BlocksType
<1>2. PICK b : b = a + 1
  OBVIOUS
<1>3. a \in 1 .. Len(blocks) + 1 /\ b \in 1 .. Len(blocks) + 1 /\ a <= b /\ b - 1 = a
  BY <1>1, <1>2
<1>4. AddrOf(b) = AddrOf(a) + SumOf(BlockSizes, a, a)
  BY <1>3, AddrSplit
<1>5. SumOf(BlockSizes, a, a) = SizeOf(blocks[a])
  <2>1. \A k \in a .. a : BlockSizes[k] \in Int
    BY BlockSizesType
  <2>2. SumOf(BlockSizes, a, a) = SumOf(BlockSizes, a, a - 1) + BlockSizes[a]
    BY <2>1, SumStep
  <2>3. SumOf(BlockSizes, a, a - 1) = 0
    BY SumEmpty
  <2>4. BlockSizes[a] = SizeOf(blocks[a]) /\ BlockSizes[a] \in Nat
    BY BlockSizesType
  <2>. QED
    BY <2>2, <2>3, <2>4
<1>. QED
  BY <1>2, <1>4, <1>5

\* The measured size of a block is that of the block and its sequence.
LEMMA GroupSize ==
  ASSUME IInv, phase = "done", NEW e, NEW i, IsAt(e, i)
  PROVE  /\ Behind(e) \in 0 .. 2 /\ i + Behind(e) \in 1 .. Len(blocks)
         /\ AddrOf(i + Behind(e) + 1)
              = AddrOf(i + 1) + IF infos[e].long THEN LongBranchSeqSize * 4 ELSE 0
         /\ SizeOf(blocks[i]) = SizeOf(Orig(infos[e].mbb))
         /\ AddrOf(i + Behind(e) + 1) = AddrOf(i) + infos[e].size
<1>1. PICK id, o : id = infos[e].mbb /\ o = Orig(id)
  OBVIOUS
<1>2. GroupAt(e, i, id, o)
  BY <1>1, Group
<1>3. /\ i \in 1 .. Len(blocks) /\ Len(blocks) \in Nat /\ o \in BlockType
      /\ e \in DOMAIN infos /\ (Expanded(e) <=> infos[e].long)
  BY <1>2 DEF GroupAt, IsAt, Expanded
<1>4. BlocksInv /\ InfosInv /\ \A k : k \in DOMAIN blocks <=> k \in 1 .. Len(blocks)
  BY BlocksType DEF IInv
<1>5. infos[e].size = SizeOf(o) + IF infos[e].long THEN LongBranchSeqSize * 4 ELSE 0
  BY <1>1, <1>3, <1>4 DEF InfosInv
<1>6. SizeOf(blocks[i]) = SizeOf(o)
  <2>1. CASE Expanded(e)
    <3>1. blocks[i] = Redirect(o, NextSelf(id))
      BY <1>2, <2>1 DEF GroupAt
    <3>2. blocks[i].body = o.body /\ blocks[i].op = o.op
      BY <1>3, <3>1 DEF Redirect, BlockType
    <3>. QED
      BY <3>2 DEF SizeOf
  <2>2. CASE ~Expanded(e)
    BY <1>2, <2>2 DEF GroupAt
  <2>. QED
    BY <2>1, <2>2
<1>7. /\ Behind(e) \in 0 .. 2 /\ i + Behind(e) \in 1 .. Len(blocks)
      /\ AddrOf(i + Behind(e) + 1)
           = AddrOf(i + 1) + IF infos[e].long THEN LongBranchSeqSize * 4 ELSE 0
  <2>0. i + 1 \in 1 .. Len(blocks) + 1 /\ AddrOf(i + 1) \in Nat
    BY <1>3, <1>4, AddrType
  <2>1. CASE ~Expanded(e)
    <3>1. Behind(e) = 0
      BY <1>2, <2>1 DEF GroupAt
    <3>. QED
      BY <1>3, <2>0, <2>1, <3>1
  <2>2. CASE Expanded(e) /\ isPIC
    <3>1. /\ Behind(e) = 2 /\ i + 1 \in 1 .. Len(blocks) /\ i + 2 \in 1 .. Len(blocks)
          /\ blocks[i + 1] = Block(LongBr(id), 5, "bal", BalTgt(id), TRUE)
          /\ blocks[i + 2] = Block(BalTgt(id), 5, "jr", o.tgt, TRUE)
      BY <1>2, <1>4, <2>2 DEF GroupAt
    <3>2. SizeOf(blocks[i + 1]) = 20 /\ SizeOf(blocks[i + 2]) = 20
      BY <3>1 DEF Block, SizeOf, BranchWords
    <3>3. PICK j, k, m : j = i + 1 /\ k = i + 2 /\ m = i + Behind(e) + 1
      OBVIOUS
    <3>4. k = j + 1 /\ m = k + 1 /\ i + Behind(e) = k
      BY <1>3, <3>1, <3>3
    <3>5. AddrOf(j + 1) = AddrOf(j) + SizeOf(blocks[j])
      BY <1>4, <3>1, <3>3, AddrNext
    <3>6. AddrOf(k + 1) = AddrOf(k) + SizeOf(blocks[k])
      BY <1>4, <3>1, <3>3, AddrNext
    <3>7. AddrOf(j) \in Nat /\ SizeOf(blocks[j]) = 20 /\ SizeOf(blocks[k]) = 20
      BY <2>0, <3>2, <3>3
    <3>8. AddrOf(m) = AddrOf(j) + 40
      BY <3>4, <3>5, <3>6, <3>7
    <3>9. LongBranchSeqSize * 4 = 40 /\ infos[e].long
      BY <1>3, <2>2 DEF LongBranchSeqSize
    <3>10. Behind(e) \in 0 .. 2 /\ i + Behind(e) \in 1 .. Len(blocks)
      BY <3>1, <3>3, <3>4
    <3>. QED
      BY <3>3, <3>8, <3>9, <3>10
  <2>3. CASE Expanded(e) /\ ~isPIC
    <3>1. /\ Behind(e) = 1 /\ i + 1 \in 1 .. Len(blocks)
          /\ blocks[i + 1] = Block(LongBr(id), 1, "jmp", o.tgt, TRUE)
      BY <1>2, <1>4, <2>3 DEF GroupAt
    <3>2. SizeOf(blocks[i + 1]) = 8
      BY <3>1 DEF Block, SizeOf, BranchWords
    <3>3. PICK j, m : j = i + 1 /\ m = i + Behind(e) + 1
      OBVIOUS
    <3>4. m = j + 1 /\ i + Behind(e) = j
      BY <1>3, <3>1, <3>3
    <3>5. AddrOf(j + 1) = AddrOf(j) + SizeOf(blocks[j])
      BY <1>4, <3>1, <3>3, AddrNext
    <3>6. AddrOf(m) = AddrOf(j) + 8
      BY <3>2, <3>3, <3>4, <3>5
    <3>7. LongBranchSeqSize * 4 = 8 /\ infos[e].long
      BY <1>3, <2>3 DEF LongBranchSeqSize
    <3>8. Behind(e) \in 0 .. 2 /\ i + Behind(e) \in 1 .. Len(blocks)
      BY <3>1, <3>3, <3>4
    <3>. QED
      BY <3>3, <3>6, <3>7, <3>8
  <2>. QED
    BY <2>1, <2>2, <2>3
<1>8. AddrOf(i + 1) = AddrOf(i) + SizeOf(blocks[i])
  BY <1>3, <1>4, AddrNext
<1>9. AddrOf(i) \in Nat /\ SizeOf(o) \in Nat
  <2>1. SizeOf(blocks[i]) \in Nat
    BY <1>3, <1>4, BlockSizesType
  <2>2. i \in 1 .. Len(blocks) + 1
    BY <1>3
  <2>. QED
    BY <1>4, <1>6, <2>1, <2>2, AddrType
<1>. QED
  BY <1>1, <1>5, <1>6, <1>7, <1>8, <1>9 DEF LongBranchSeqSize

(***************************************************************************)
(* The sizes that the rounds end with are those of the finished function:  *)
(* they give the address of every block of it.                             *)
(***************************************************************************)
LEMMA Measured ==
  ASSUME IInv, phase = "done", NEW e, NEW i, IsAt(e, i)
  PROVE  AddrOf(i) = SumOf(Sizes(infos), 1, e - 1)
<1> DEFINE f == Sizes(infos)
           Ok(k) == \E p : IsAt(k, p) /\ AddrOf(p) = SumOf(f, 1, k - 1)
           S == {k \in Nat : Ok(k)}
           N == Len(infos)
<1>1. /\ N \in Nat /\ \A k : k \in DOMAIN infos <=> k \in 1 .. N
      /\ BlocksInv /\ OrderInv /\ \A k \in 1 .. N : f[k] = infos[k].size /\ f[k] \in Nat
  BY InfosType, SizesType DEF IInv
<1>2. e \in 1 .. N /\ i \in DOMAIN blocks /\ 1 \in DOMAIN blocks
  BY <1>1, BlocksType DEF IsAt
<1>3. 1 \in S
  <2>1. IsAt(1, 1)
    BY <1>1, <1>2 DEF OrderInv
  <2>2. AddrOf(1) = 0 /\ SumOf(f, 1, 1 - 1) = 0
    BY SumEmpty DEF AddrOf
  <2>. QED
    BY <2>1, <2>2
<1>4. ASSUME NEW k \in 1 .. N - 1, Ok(k) PROVE Ok(k + 1)
  <2>1. PICK p : IsAt(k, p) /\ AddrOf(p) = SumOf(f, 1, k - 1)
    BY <1>4
  <2>2. PICK s : s = p + Behind(k) + 1
    OBVIOUS
  <2>3. AddrOf(s) = AddrOf(p) + infos[k].size
    BY <2>1, <2>2, GroupSize
  <2>4. IsAt(k + 1, s)
    <3>1. k # N
      BY <1>1
    <3>. QED
      BY <2>1, <2>2, <3>1, Group DEF GroupAt
  <2>5. SumOf(f, 1, k) = SumOf(f, 1, k - 1) + f[k]
    <3>. HIDE DEF f
    <3>1. k \in Int /\ 1 <= k /\ \A h \in 1 .. k : f[h] \in Int
      BY <1>1
    <3>. QED
      BY <3>1, SumStep
  <2>6. f[k] = infos[k].size /\ k + 1 - 1 = k
    BY <1>1
  <2>. HIDE DEF f
  <2>. QED
    BY <2>1, <2>3, <2>4, <2>5, <2>6
<1>5. \A k \in 1 .. N - 1 : k \in S => k + 1 \in S
  <2>1. \A k \in 1 .. N - 1 : k + 1 \in Nat
    BY <1>1
  <2>. HIDE DEF Ok
  <2>. QED
    BY <1>4, <2>1
<1> HIDE DEF S, f
<1>6. \A k \in 1 .. N : k \in S
  <2>1. N \in Int /\ 1 \in Int
    BY <1>1
  <2>. HIDE DEF N, Ok
  <2>. QED
    BY <1>3, <1>5, <2>1, IntervalInduction
<1>7. PICK p : IsAt(e, p) /\ AddrOf(p) = SumOf(f, 1, e - 1)
  BY <1>2, <1>6 DEF S
<1>8. p = i
  BY <1>1, <1>7 DEF IsAt, BlocksInv
<1>. QED
  BY <1>7, <1>8 DEF f

\* computeOffset measures the distance in the finished function.
LEMMA OffsetMeasured ==
  ASSUME IInv, phase = "done", NEW e, NEW i, IsAt(e, i), NEW t, NEW q, IsAt(t, q)
  PROVE  /\ AddrOf(q) \in Nat /\ AddrOf(i) \in Nat /\ infos[e].size \in Nat
         /\ OffsetTo(infos, e, t) = AddrOf(q) - AddrOf(i) - infos[e].size + 4
<1> DEFINE f == Sizes(infos)
           N == Len(infos)
<1>1. /\ N \in Nat /\ \A k : k \in DOMAIN infos <=> k \in 1 .. N
      /\ BlocksInv /\ \A k \in 1 .. N : f[k] = infos[k].size /\ f[k] \in Nat /\ f[k] \in Int
  BY InfosType, SizesType DEF IInv
<1>2. e \in 1 .. N /\ t \in 1 .. N /\ i \in 1 .. Len(blocks) /\ q \in 1 .. Len(blocks)
      /\ Len(blocks) \in Nat
  BY <1>1, BlocksType DEF IsAt
<1>3. i \in 1 .. Len(blocks) + 1 /\ q \in 1 .. Len(blocks) + 1
  BY <1>2
<1>4. AddrOf(q) \in Nat /\ AddrOf(i) \in Nat /\ infos[e].size \in Nat /\ f[e] = infos[e].size
  BY <1>1, <1>2, <1>3, AddrType
<1>5. AddrOf(i) = SumOf(f, 1, e - 1) /\ AddrOf(q) = SumOf(f, 1, t - 1)
  BY Measured
<1>6. OffsetTo(infos, e, t)
        = IF e < t THEN SumOf(f, e + 1, t - 1) + 4 ELSE 4 - SumOf(f, t, e)
  BY DEF OffsetTo
<1> HIDE DEF f, N
<1>7. /\ \A k \in 1 .. e : f[k] \in Int
      /\ \A k \in 1 .. t : f[k] \in Int
      /\ e \in Int /\ 1 <= e /\ t \in Int /\ 1 <= t
  BY <1>1, <1>2
<1>8. SumOf(f, 1, e) = SumOf(f, 1, e - 1) + f[e]
  BY <1>7, SumStep
<1>9. CASE e < t
  <2>1. PICK c : c = t - 1
    OBVIOUS
  <2>2. c \in Int /\ 1 - 1 <= e /\ e <= c /\ \A k \in 1 .. c : f[k] \in Int
    BY <1>7, <1>9, <2>1
  <2>3. SumOf(f, 1, c) = SumOf(f, 1, e) + SumOf(f, e + 1, c)
    BY <1>7, <2>2, SumSplit
  <2>4. e + 1 \in Int /\ \A k \in e + 1 .. c : f[k] \in Int
    BY <1>7, <2>2
  <2>5. SumOf(f, e + 1, c) \in Int
    BY <2>2, <2>4, SumType
  <2>6. OffsetTo(infos, e, t) = SumOf(f, e + 1, c) + 4
    BY <1>6, <1>9, <2>1
  <2>7. AddrOf(q) = SumOf(f, 1, c)
    BY <1>5, <2>1
  <2>. QED
    BY <1>4, <1>5, <1>8, <2>3, <2>5, <2>6, <2>7
<1>10. CASE ~(e < t)
  <2>1. PICK c, d : c = t - 1 /\ d = c + 1
    OBVIOUS
  <2>2. c \in Int /\ 1 - 1 <= c /\ c <= e /\ d = t
    BY <1>7, <1>10, <2>1
  <2>3. SumOf(f, 1, e) = SumOf(f, 1, c) + SumOf(f, c + 1, e)
    BY <1>7, <2>2, SumSplit
  <2>4. \A k \in t .. e : f[k] \in Int
    BY <1>7
  <2>5. SumOf(f, t, e) \in Int
    BY <1>7, <2>4, SumType
  <2>6. OffsetTo(infos, e, t) = 4 - SumOf(f, t, e)
    BY <1>6, <1>10
  <2>7. AddrOf(q) = SumOf(f, 1, c) /\ SumOf(f, c + 1, e) = SumOf(f, t, e)
    BY <1>5, <2>1, <2>2
  <2>. QED
    BY <1>4, <1>5, <1>8, <2>3, <2>5, <2>6, <2>7
<1>. QED
  BY <1>4, <1>9, <1>10

-----------------------------------------------------------------------------
(* The reach of the branches.                                              *)

\* The conditional branches are those of the function.
LEMMA BranchOf ==
  ASSUME IInv, phase # "split", NEW p \in DOMAIN blocks, blocks[p].op = "cond"
  PROVE  \E e \in DOMAIN infos : IsAt(e, p) /\ Orig(infos[e].mbb).op = "cond"
<1>1. PICK e \in DOMAIN infos, i \in DOMAIN blocks, j \in Nat :
        IsAt(e, i) /\ j <= Behind(e) /\ p = i + j
  BY Placed
<1>2. PICK id, o : id = infos[e].mbb /\ o = Orig(id)
  OBVIOUS
<1>3. GroupAt(e, i, id, o)
  BY <1>1, <1>2, Group
<1>4. i \in Nat /\ o \in BlockType
  BY <1>3 DEF GroupAt
<1>5. CASE ~Expanded(e)
  <2>1. blocks[i] = o /\ Behind(e) = 0
    BY <1>3, <1>5 DEF GroupAt
  <2>2. p = i
    BY <1>1, <1>4, <2>1
  <2>. QED
    BY <1>1, <1>2, <2>1, <2>2
<1>6. CASE Expanded(e)
  <2>1. /\ blocks[i] = Redirect(o, NextSelf(id))
        /\ isPIC => /\ Behind(e) = 2
                    /\ blocks[i + 1] = Block(LongBr(id), 5, "bal", BalTgt(id), TRUE)
                    /\ blocks[i + 2] = Block(BalTgt(id), 5, "jr", o.tgt, TRUE)
        /\ ~isPIC => /\ Behind(e) = 1
                     /\ blocks[i + 1] = Block(LongBr(id), 1, "jmp", o.tgt, TRUE)
    BY <1>3, <1>6 DEF GroupAt
  <2>2. /\ blocks[i + 1].op # "cond"
        /\ isPIC => blocks[i + 2].op # "cond"
    BY <2>1 DEF Block
  <2>3. j \in {0, 1} \/ (isPIC /\ j = 2)
    <3>1. (Behind(e) = 2 /\ isPIC) \/ Behind(e) = 1
      BY <2>1
    <3>. QED
      BY <1>1, <3>1
  <2>4. j = 0
    BY <1>1, <2>2, <2>3
  <2>5. p = i /\ blocks[i].op = o.op
    BY <1>1, <1>4, <2>1, <2>4 DEF Redirect, BlockType
  <2>. QED
    BY <1>1, <1>2, <2>5
<1>. QED
  BY <1>5, <1>6

\* A conditional branch that was not made long has no sequence behind it.
LEMMA NotExpandedIsShort ==
  ASSUME IInv, phase # "split", NEW p \in DOMAIN blocks, NEW e \in DOMAIN infos, IsAt(e, p),
         Orig(infos[e].mbb).op = "cond", ~Expanded(e)
  PROVE  LeftShort(p)
<1>1. PICK id, o : id = infos[e].mbb /\ o = Orig(id)
  OBVIOUS
<1>2. GroupAt(e, p, id, o)
  BY <1>1, Group
<1>3. blocks[p].id = id /\ LongBr(id)[3] = "longbr"
  BY <1>2 DEF GroupAt, LongBr, Name
<1>4. Behind(e) = 0 /\ e # Len(infos) /\ p \in Nat
  BY <1>1, <1>2 DEF GroupAt
<1>5. IsAt(e + 1, p + Behind(e) + 1) /\ p + Behind(e) + 1 = p + 1
  BY <1>2, <1>4 DEF GroupAt
<1>6. e + 1 \in DOMAIN infos /\ blocks[p + 1].id = infos[e + 1].mbb
  BY <1>5 DEF IsAt
<1>7. infos[e + 1].mbb[3] = "self"
  BY <1>6 DEF IInv, InfosInv, IsSelf
<1>. QED
  BY <1>3, <1>6, <1>7 DEF LeftShort

(***************************************************************************)
(* When the rounds end every conditional branch has its displacement in    *)
(* its field, those that were found short before another block grew and    *)
(* the reversed ones included, but for a branch left short whose           *)
(* displacement fits in instructions and not in the bytes that are         *)
(* encoded.                                                                *)
(***************************************************************************)
THEOREM BranchesReach == Spec => []ShortBranchesReach
<1>1. ASSUME IInv, Done, NEW p \in DOMAIN blocks, blocks[p].op = "cond"
      PROVE  \/ FitsImm(Displacement(p))
             \/ LeftShort(p) /\ FitsInInstructionsOnly(Displacement(p))
  <2>1. phase = "done" /\ phase # "split"
    BY <1>1 DEF Done
  <2>2. PICK e \in DOMAIN infos : IsAt(e, p) /\ Orig(infos[e].mbb).op = "cond"
    BY <1>1, <2>1, BranchOf
  <2>3. PICK id, o : id = infos[e].mbb /\ o = Orig(id)
    OBVIOUS
  <2>4. GroupAt(e, p, id, o)
    BY <1>1, <2>1, <2>2, <2>3, Group
  <2>5. /\ SizeOf(blocks[p]) = SizeOf(o) /\ o \in BlockType
        /\ AddrOf(p) \in Nat /\ infos[e].size \in Nat /\ SizeOf(blocks[p]) \in Nat
    <3>1. p \in 1 .. Len(blocks) /\ o \in BlockType
      BY <2>4 DEF GroupAt
    <3>. QED
      BY <1>1, <2>1, <2>2, <2>3, <3>1, GroupSize, OffsetMeasured, BlockSizesType DEF IInv
  <2>6. PICK q : q = Position(blocks, blocks[p].tgt)
    OBVIOUS
  <2>7. Displacement(p) = AddrOf(q) - (AddrOf(p) + SizeOf(blocks[p]) - 8) - 4
    BY <1>1, <2>6 DEF Displacement, BranchAddr, BranchWords
  <2>8. infos[e].br /\ (Expanded(e) <=> infos[e].long)
    BY <1>1, <2>1, <2>2 DEF IInv, InfosInv, Expanded
  <2>9. CASE ~Expanded(e)
    <3>1. blocks[p] = o
      BY <2>4, <2>9 DEF GroupAt
    <3>2. PICK t \in DOMAIN infos, k \in DOMAIN blocks :
            IsTgt(e, t) /\ IsAt(t, k) /\ Position(blocks, o.tgt) = k
      BY <1>1, <2>1, <2>2, <2>3, TargetAt
    <3>3. k = q
      BY <2>6, <3>1, <3>2
    <3>4. OffsetTo(infos, e, t) = AddrOf(q) - AddrOf(p) - infos[e].size + 4 /\ AddrOf(q) \in Nat
      BY <1>1, <2>1, <2>2, <3>2, <3>3, OffsetMeasured
    <3>5. infos[e].size = SizeOf(blocks[p])
      BY <1>1, <2>1, <2>3, <2>5, <2>8, <2>9 DEF IInv, InfosInv
    <3>6. Displacement(p) = OffsetTo(infos, e, t)
      BY <2>5, <2>7, <3>4, <3>5
    <3>7. ShortFits(e)
      BY <1>1, <2>1 DEF IInv, RoundInv
    <3>8. FitsImm(Displacement(p) \div 4)
      BY <2>8, <2>9, <3>2, <3>6, <3>7 DEF ShortFits
    <3>9. LeftShort(p)
      BY <1>1, <2>1, <2>2, <2>9, NotExpandedIsShort
    <3>. QED
      BY <3>8, <3>9 DEF FitsInInstructionsOnly
  <2>10. CASE Expanded(e)
    <3>1. /\ blocks[p] = Redirect(o, NextSelf(id)) /\ e # Len(infos)
      BY <2>2, <2>3, <2>4, <2>10 DEF GroupAt
    <3>2. blocks[p].tgt = NextSelf(id)
      BY <2>2, <2>3, <2>5, <3>1 DEF Redirect, BlockType
    <3>3. PICK k : k = p + Behind(e) + 1
      OBVIOUS
    <3>4. IsAt(e + 1, k) /\ NextSelf(id) = infos[e + 1].mbb
      BY <2>4, <3>1, <3>3 DEF GroupAt
    <3>5. k = q
      <4>1. k \in DOMAIN blocks /\ blocks[k].id = NextSelf(id)
        BY <3>4 DEF IsAt
      <4>. QED
        BY <1>1, <2>6, <3>2, <4>1, PositionIs DEF IInv
    <3>6. AddrOf(q) = AddrOf(p) + infos[e].size
      BY <1>1, <2>1, <2>2, <3>3, <3>5, GroupSize
    <3>7. infos[e].size = SizeOf(blocks[p]) + LongBranchSeqSize * 4
      BY <1>1, <2>1, <2>3, <2>5, <2>8, <2>10 DEF IInv, InfosInv
    <3>8. LongBranchSeqSize \in {2, 10}
      BY DEF LongBranchSeqSize
    <3>9. Displacement(p) \in {12, 44}
      <4>1. Displacement(p) = LongBranchSeqSize * 4 + 4
        BY <2>5, <2>7, <3>6, <3>7, <3>8
      <4>. QED
        BY <3>8, <4>1
    <3>. QED
      BY <3>9, FitsRange
  <2>. QED
    BY <2>9, <2>10
<1>2. IInv => ShortBranchesReach
  BY <1>1 DEF ShortBranchesReach
<1>. QED
  BY <1>2, Invariant, PTL

(***************************************************************************)
(* No conditional branch is made long for nothing: it would not reach its  *)
(* target in the finished function without its own sequence.               *)
(***************************************************************************)
THEOREM LongBranchesFar == Spec => []OnlyFarBranchesLong
<1>1. ASSUME IInv, Done, ~force, NEW p \in DOMAIN blocks, blocks[p].op = "cond",
             ~LeftShort(p),
             NEW own, own = IF isPIC THEN 2 ELSE 1,
             NEW q, q = Position(blocks, blocks[p + own].tgt),
             NEW ownSize,
             ownSize = IF p < q THEN AddrOf(p + own + 1) - AddrOf(p + 1) ELSE 0
      PROVE  ~FitsImm((AddrOf(q) - ownSize - BranchAddr(p) - 4) \div 4)
  <2>1. phase = "done" /\ phase # "split"
    BY <1>1 DEF Done
  <2>2. PICK e \in DOMAIN infos : IsAt(e, p) /\ Orig(infos[e].mbb).op = "cond"
    BY <1>1, <2>1, BranchOf
  <2>3. PICK id, o : id = infos[e].mbb /\ o = Orig(id)
    OBVIOUS
  <2>4. GroupAt(e, p, id, o)
    BY <1>1, <2>1, <2>2, <2>3, Group
  <2>5. blocks[p].id = id
    BY <2>4 DEF GroupAt
  <2>6. Expanded(e)
    BY <1>1, <2>1, <2>2, NotExpandedIsShort
  <2>7. infos[e].long
    BY <2>1, <2>6 DEF Expanded
  <2>8. own = Behind(e) /\ own \in {1, 2} /\ blocks[p + own].tgt = o.tgt
    <3>1. CASE isPIC
      <4>1. Behind(e) = 2 /\ blocks[p + 2] = Block(BalTgt(id), 5, "jr", o.tgt, TRUE)
        BY <2>4, <2>6, <3>1 DEF GroupAt
      <4>. QED
        BY <1>1, <3>1, <4>1 DEF Block
    <3>2. CASE ~isPIC
      <4>1. Behind(e) = 1 /\ blocks[p + 1] = Block(LongBr(id), 1, "jmp", o.tgt, TRUE)
        BY <2>4, <2>6, <3>2 DEF GroupAt
      <4>. QED
        BY <1>1, <3>2, <4>1 DEF Block
    <3>. QED
      BY <3>1, <3>2
  <2>9. PICK t \in DOMAIN infos, k \in DOMAIN blocks :
          IsTgt(e, t) /\ IsAt(t, k) /\ Position(blocks, o.tgt) = k
    BY <1>1, <2>1, <2>2, <2>3, TargetAt
  <2>10. k = q /\ IsAt(t, q)
    BY <1>1, <2>8, <2>9
  <2>11. p < q <=> e < t
    <3>1. e \in Nat /\ t \in Nat /\ p \in Nat /\ q \in Nat
      BY <1>1, <2>1, <2>9, <2>10, InfosType, BlocksType DEF IInv
    <3>2. /\ e < t => p < q
          /\ t < e => q < p
      BY <1>1, <2>1, <2>2, <2>9, <2>10 DEF IInv, OrderInv
    <3>3. t = e => q = p
      BY <1>1, <2>2, <2>9, <2>10 DEF IInv, BlocksInv, IsAt
    <3>. QED
      BY <3>1, <3>2, <3>3
  <2>12. AddrOf(p + own + 1) - AddrOf(p + 1) = LongBranchSeqSize * 4
    <3>1. AddrOf(p + own + 1) = AddrOf(p + 1) + LongBranchSeqSize * 4
      BY <1>1, <2>1, <2>2, <2>7, <2>8, GroupSize
    <3>2. p + 1 \in 1 .. Len(blocks) + 1
      BY <2>4 DEF GroupAt
    <3>3. AddrOf(p + 1) \in Nat
      BY <1>1, <3>2, AddrType DEF IInv
    <3>. QED
      BY <3>1, <3>3 DEF LongBranchSeqSize
  <2>13. /\ SizeOf(blocks[p]) = SizeOf(o) /\ SizeOf(blocks[p]) \in Nat
         /\ infos[e].size = SizeOf(o) + LongBranchSeqSize * 4
    <3>1. p \in 1 .. Len(blocks)
      BY <2>4 DEF GroupAt
    <3>. QED
      BY <1>1, <2>1, <2>2, <2>3, <2>7, <3>1, GroupSize, BlockSizesType DEF IInv, InfosInv
  <2>14. /\ AddrOf(q) \in Nat /\ AddrOf(p) \in Nat
         /\ OffsetTo(infos, e, t) = AddrOf(q) - AddrOf(p) - infos[e].size + 4
    BY <1>1, <2>1, <2>2, <2>10, OffsetMeasured
  <2>15. BranchAddr(p) = AddrOf(p) + SizeOf(blocks[p]) - 8
    BY <1>1 DEF BranchAddr, BranchWords
  <2>16. LongBranchSeqSize * 4 \in Nat /\ OwnSize(e, t) = IF e < t THEN 0 ELSE LongBranchSeqSize * 4
    BY DEF LongBranchSeqSize, OwnSize
  <2>17. AddrOf(q) - ownSize - BranchAddr(p) - 4 = OffsetTo(infos, e, t) + OwnSize(e, t)
    <3>1. PICK own4 \in Nat : own4 = LongBranchSeqSize * 4
      BY <2>16
    <3>2. ownSize = IF e < t THEN own4 ELSE 0
      BY <1>1, <2>11, <2>12, <3>1
    <3>3. OffsetTo(infos, e, t) = AddrOf(q) - AddrOf(p) - (SizeOf(blocks[p]) + own4) + 4
      BY <2>13, <2>14, <3>1
    <3>. QED
      BY <2>13, <2>14, <2>15, <2>16, <3>1, <3>2, <3>3
  <2>18. ~FitsImm((OffsetTo(infos, e, t) + OwnSize(e, t)) \div 4)
    BY <1>1, <2>1, <2>7, <2>9 DEF IInv, RoundInv, LongNeeded
  <2>. QED
    BY <2>17, <2>18
<1>2. IInv => OnlyFarBranchesLong
  BY <1>1 DEF OnlyFarBranchesLong
<1>. QED
  BY <1>2, Invariant, PTL

-----------------------------------------------------------------------------
(* The instructions of the sequences.                                      *)

LEMMA DivMod ==
  ASSUME NEW W \in Nat, W > 0, NEW x \in Int
  PROVE  x = (x \div W) * W + (x % W) /\ x % W \in 0 .. W - 1 /\ x \div W \in Int
OBVIOUS

LEMMA SmallMultiple ==
  ASSUME NEW W \in Nat, NEW k \in Int, -W < k * W, k * W < W
  PROVE  k = 0
<1>1. CASE k >= 1
  <2>1. k * W >= W
    BY <1>1
  <2>. QED
    BY <2>1
<1>2. CASE k <= -1
  <2>1. k * W <= -W
    BY <1>2
  <2>. QED
    BY <2>1
<1>. QED
  BY <1>1, <1>2

LEMMA ModIs ==
  ASSUME NEW W \in Nat, W > 0, NEW x \in Int, NEW k \in Int, NEW r \in 0 .. W - 1, x = k * W + r
  PROVE  x % W = r
<1>1. PICK q \in Int, s \in 0 .. W - 1 : s = x % W /\ x = q * W + s
  BY DivMod
<1>2. (k - q) * W = s - r
  <2>1. (k - q) * W = k * W - q * W
    OBVIOUS
  <2>. QED
    BY <1>1, <2>1
<1>3. -W < (k - q) * W /\ (k - q) * W < W
  BY <1>1, <1>2
<1>4. k - q = 0
  BY <1>3, SmallMultiple
<1>. QED
  BY <1>1, <1>4

LEMMA ModAdd ==
  ASSUME NEW W \in Nat, W > 0, NEW x \in Int, NEW k \in Int
  PROVE  (x + k * W) % W = x % W
<1>1. PICK q \in Int, s \in 0 .. W - 1 : s = x % W /\ x = q * W + s
  BY DivMod
<1>2. x + k * W = (q + k) * W + s
  <2>1. (q + k) * W = q * W + k * W
    OBVIOUS
  <2>. QED
    BY <1>1, <2>1
<1>3. q + k \in Int /\ x + k * W \in Int
  OBVIOUS
<1>. QED
  BY <1>1, <1>2, <1>3, ModIs

\* A sum need not be reduced before it is added to.
LEMMA ModSum ==
  ASSUME NEW W \in Nat, W > 0, NEW x \in Int, NEW y \in Int
  PROVE  (x + (y % W)) % W = (x + y) % W
<1>1. PICK q \in Int, s \in 0 .. W - 1 : s = y % W /\ y = q * W + s
  BY DivMod
<1>2. x + y = (x + s) + q * W /\ x + s \in Int
  BY <1>1
<1>3. ((x + s) + q * W) % W = (x + s) % W
  BY <1>2, ModAdd
<1>. QED
  BY <1>1, <1>2, <1>3

\* LUi and ADDiu of the halves of a number, when ADDiu has no sign to extend.
LEMMA Halves ==
  ASSUME NEW v \in Int, Lo16(v) < 2 ^ (ImmBits - 1)
  PROVE  /\ WordMod \in Nat /\ WordMod > 0
         /\ (Hi16(v) * 2 ^ ImmBits + SExt(Lo16(v))) % WordMod = v % WordMod
<1>1. PICK M \in Nat : M = 2 ^ ImmBits /\ M > 0
  BY ImmBitsAssumption
<1>2. PICK W \in Nat : W = WordMod /\ W = M * M /\ W > 0
  <2>1. M * M \in Nat /\ M * M > 0
    BY <1>1
  <2>. QED
    BY <1>1, <2>1 DEF WordMod
<1>3. PICK x \in Int, lo \in 0 .. M - 1 : x = v \div M /\ lo = v % M /\ v = x * M + lo
  BY <1>1, DivMod
<1>4. PICK y \in Int, hi \in 0 .. M - 1 : hi = x % M /\ x = y * M + hi
  BY <1>1, DivMod
<1>5. Hi16(v) = hi /\ Lo16(v) = lo /\ SExt(lo) = lo
  <2>1. Hi16(v) = hi /\ Lo16(v) = lo
    BY <1>1, <1>3, <1>4 DEF Hi16, Lo16
  <2>. QED
    BY <2>1 DEF SExt
<1>6. v = (hi * M + lo) + y * W
  <2>1. x * M = (y * M) * M + hi * M
    BY <1>4
  <2>2. (y * M) * M = y * (M * M)
    OBVIOUS
  <2>. QED
    BY <1>2, <1>3, <2>1, <2>2
<1>7. hi * M + lo \in Int
  OBVIOUS
<1>8. ((hi * M + lo) + y * W) % W = (hi * M + lo) % W
  BY <1>2, <1>7, ModAdd
<1>. QED
  BY <1>1, <1>2, <1>5, <1>6, <1>8

(***************************************************************************)
(* A long-branch sequence hands sp and lr on as it found them; its JR goes *)
(* to the target when ADDiu does not extend a sign.                        *)
(***************************************************************************)
THEOREM SequencesTransparent == Spec => []SequenceTransparent
<1>1. ASSUME IInv, Done, NEW p \in BalTgts, NEW r, r = AfterSequence(p)
      PROVE  /\ r.sp = Registers.sp /\ r.lr = Registers.lr
             /\ Lo16(Distance(p)) < 2 ^ (ImmBits - 1)
                  => r.at = AddrOf(Position(blocks, blocks[p].tgt)) % WordMod
  <2>1. PICK b, d, off :
          /\ b = AddrOf(p) /\ d = Distance(p)
          /\ off = (Hi16(d) * 2 ^ ImmBits + SExt(Lo16(d))) % WordMod
    OBVIOUS
  <2>2. PICK c : c = LongBrCode(Registers, d, b)
    OBVIOUS
  <2>3. /\ c.sp = 0 - 8 /\ c.lr = b /\ c.at = off /\ c.slot = <<0 - 8, -1>>
        /\ c = [sp |-> c.sp, lr |-> c.lr, at |-> c.at, slot |-> c.slot]
    <3>1. PICK n, e : n = 0 - 8 /\ e = <<n, Registers.lr>>
      OBVIOUS
    <3>2. PICK pushed : pushed = [Registers EXCEPT !.sp = n, !.slot = e]
      OBVIOUS
    <3>3. pushed = [Registers EXCEPT !.sp = @ - 8,
                                     !.slot = <<Registers.sp - 8, Registers.lr>>]
      BY <3>1, <3>2 DEF Registers
    <3>4. c = [pushed EXCEPT !.at = off, !.lr = b]
      BY <2>1, <2>2, <3>3 DEF LongBrCode
    <3>5. pushed = [sp |-> n, lr |-> -1, at |-> 0, slot |-> e]
      BY <3>2 DEF Registers
    <3>6. c = [sp |-> n, lr |-> b, at |-> off, slot |-> e]
      BY <3>4, <3>5
    <3>7. Registers.lr = -1
      BY DEF Registers
    <3>. QED
      BY <3>1, <3>6, <3>7
  <2>r. r.sp = 0 - 8 + 8 /\ r.lr = -1 /\ r.at = (b + off) % WordMod
    <3>1. r = BalTgtCode(c)
      BY <1>1, <2>1, <2>2 DEF AfterSequence
    <3>2. c.slot[1] = c.sp /\ c.slot[2] = -1
      BY <2>3
    <3>. QED
      BY <2>3, <3>1, <3>2 DEF BalTgtCode
  <2>4. CASE Lo16(d) < 2 ^ (ImmBits - 1)
    <3>1. PICK q \in DOMAIN blocks : blocks[q].id = blocks[p].tgt
      BY <1>1, EveryTarget DEF BalTgts, Done
    <3>2. q = Position(blocks, blocks[p].tgt)
      BY <1>1, <3>1, PositionIs DEF IInv
    <3>3. AddrOf(q) \in Nat /\ b \in Nat
      <4>1. q \in 1 .. Len(blocks) + 1 /\ p \in 1 .. Len(blocks) + 1
        BY <1>1, <3>1, BlocksType DEF IInv, BalTgts
      <4>. QED
        BY <1>1, <2>1, <4>1, AddrType DEF IInv
    <3>4. d \in Int /\ b + d = AddrOf(q)
      BY <2>1, <3>2, <3>3 DEF Distance
    <3>5. WordMod \in Nat /\ WordMod > 0 /\ off = d % WordMod
      BY <2>1, <2>4, <3>4, Halves
    <3>6. (b + (d % WordMod)) % WordMod = (b + d) % WordMod
      <4>1. PICK w \in Nat, x \in Int, y \in Int : w = WordMod /\ w > 0 /\ x = b /\ y = d
        BY <3>3, <3>4, <3>5
      <4>2. (x + (y % w)) % w = (x + y) % w
        BY <4>1, ModSum
      <4>. QED
        BY <4>1, <4>2
    <3>. QED
      BY <2>1, <2>r, <3>2, <3>4, <3>5, <3>6 DEF Registers
  <2>. QED
    BY <2>1, <2>r, <2>4 DEF Registers
<1>2. IInv => SequenceTransparent
  BY <1>1 DEF SequenceTransparent
<1>. QED
  BY <1>2, Invariant, PTL

-----------------------------------------------------------------------------
(***************************************************************************)
(* No loop goes on for ever.  What is left to do is the loops behind this  *)
(* one, the entries not marked, a round that has marked one, and the       *)
(* passes of the present loop, in this order.                              *)
(***************************************************************************)
LoopsLeft == CASE phase = "split" -> 3
               [] phase = "scan" -> 2
               [] phase = "expand" -> 1
               [] OTHER -> 0

Unmarked  == {e \in DOMAIN infos : ~infos[e].long}
RoundLeft == IF made THEN 1 ELSE 0
PassesLeft == (IF phase = "split" THEN Len(func) ELSE Len(infos)) + 1 - at

Left == <<LoopsLeft, Cardinality(Unmarked), RoundLeft, PassesLeft>>

LeavesLess == <<Left', Left>> \in TupleOrder(4)

LeftType ==
  /\ LoopsLeft \in Nat /\ IsFiniteSet(Unmarked) /\ Cardinality(Unmarked) \in Nat
  /\ RoundLeft \in Nat /\ PassesLeft \in Nat

LEMMA LowerFour ==
  ASSUME NEW a \in Nat, NEW b \in Nat, NEW c \in Nat, NEW d \in Nat,
         NEW p \in Nat, NEW q \in Nat, NEW r \in Nat, NEW s \in Nat,
         \/ p < a
         \/ p = a /\ q < b
         \/ p = a /\ q = b /\ r < c
         \/ p = a /\ q = b /\ r = c /\ s < d
  PROVE  << <<p, q, r, s>>, <<a, b, c, d>> >> \in TupleOrder(4)
<1> DEFINE f == <<p, q, r, s>>
           g == <<a, b, c, d>>
<1>1. f \in [1..4 -> Nat] /\ g \in [1..4 -> Nat]
  OBVIOUS
<1>2. /\ f[1] = p /\ f[2] = q /\ f[3] = r /\ f[4] = s
      /\ g[1] = a /\ g[2] = b /\ g[3] = c /\ g[4] = d
  OBVIOUS
<1>. HIDE DEF f, g
<1>3. \E j \in 1..4 : f[j] < g[j] /\ \A i \in 1..(j - 1) : f[i] = g[i]
  <2>1. CASE p < a
    <3>. 1 \in 1..4 /\ \A i \in 1..(1 - 1) : f[i] = g[i]
      OBVIOUS
    <3>. QED
      BY <1>2, <2>1
  <2>2. CASE p = a /\ q < b
    <3>. 2 \in 1..4 /\ \A i \in 1..(2 - 1) : i = 1
      OBVIOUS
    <3>. QED
      BY <1>2, <2>2
  <2>3. CASE p = a /\ q = b /\ r < c
    <3>. 3 \in 1..4 /\ \A i \in 1..(3 - 1) : i = 1 \/ i = 2
      OBVIOUS
    <3>. QED
      BY <1>2, <2>3
  <2>4. CASE p = a /\ q = b /\ r = c /\ s < d
    <3>. 4 \in 1..4 /\ \A i \in 1..(4 - 1) : i = 1 \/ i = 2 \/ i = 3
      OBVIOUS
    <3>. QED
      BY <1>2, <2>4
  <2>. QED
    BY <2>1, <2>2, <2>3, <2>4
<1>4. <<f, g>> \in TupleOrder(4)
  BY <1>1, <1>3, LowerTuple
<1>. QED
  BY <1>4 DEF f, g

LEMMA LeftTyped == IInv => LeftType
<1>. SUFFICES ASSUME IInv PROVE LeftType
  OBVIOUS
<1>1. Len(func) \in Nat
  BY FuncType DEF IInv, InputInv
<1>2. Len(infos) \in Nat /\ \A e : e \in DOMAIN infos <=> e \in 1 .. Len(infos)
  <2>1. CASE phase = "split"
    <3>1. infos = <<>>
      BY <2>1 DEF IInv, SplitInv
    <3>2. Len(infos) = 0 /\ DOMAIN infos = 1 .. 0
      BY <3>1
    <3>. QED
      BY <3>2
  <2>2. CASE phase # "split"
    BY <2>2, InfosType DEF IInv
  <2>. QED
    BY <2>1, <2>2
<1>3. IsFiniteSet(Unmarked) /\ Cardinality(Unmarked) \in Nat
  <2>1. IsFiniteSet(1 .. Len(infos))
    BY <1>2, FS_Interval
  <2>2. Unmarked \in SUBSET (1 .. Len(infos))
    BY <1>2 DEF Unmarked
  <2>3. IsFiniteSet(Unmarked)
    BY <2>1, <2>2, FS_Subset
  <2>. QED
    BY <2>3, FS_CardinalityType
<1>4. PassesLeft \in Nat
  <2>1. PICK n \in Nat : n = IF phase = "split" THEN Len(func) ELSE Len(infos)
    BY <1>1, <1>2
  <2>2. at \in 1 .. n + 1
    BY <2>1 DEF IInv, InputInv
  <2>3. PassesLeft = n + 1 - at
    BY <2>1 DEF PassesLeft
  <2>. QED
    BY <2>2, <2>3
<1>. QED
  BY <1>3, <1>4 DEF LeftType, LoopsLeft, RoundLeft

LEMMA StepLowers ==
  ASSUME IInv, LeftType, LeftType', Next
  PROVE  <<Left', Left>> \in TupleOrder(4)
<1>. SUFFICES \/ LoopsLeft' < LoopsLeft
              \/ LoopsLeft' = LoopsLeft /\ Cardinality(Unmarked') < Cardinality(Unmarked)
              \/ /\ LoopsLeft' = LoopsLeft /\ Cardinality(Unmarked') = Cardinality(Unmarked)
                 /\ RoundLeft' < RoundLeft
              \/ /\ LoopsLeft' = LoopsLeft /\ Cardinality(Unmarked') = Cardinality(Unmarked)
                 /\ RoundLeft' = RoundLeft /\ PassesLeft' < PassesLeft
  BY LowerFour DEF Left, LeftType
\* A pass of a loop that marks nothing.
<1>1. ASSUME at' = at + 1, UNCHANGED <<input, phase, infos, made>>
      PROVE  /\ LoopsLeft' = LoopsLeft /\ Cardinality(Unmarked') = Cardinality(Unmarked)
             /\ RoundLeft' = RoundLeft /\ PassesLeft' < PassesLeft
  <2>1. LoopsLeft' = LoopsLeft /\ Unmarked' = Unmarked /\ RoundLeft' = RoundLeft
    BY <1>1 DEF LoopsLeft, Unmarked, RoundLeft
  <2>2. PICK n \in Nat : n = IF phase = "split" THEN Len(func) ELSE Len(infos)
    <3>1. Len(func) \in Nat
      BY FuncType DEF IInv, InputInv
    <3>2. phase # "split" => Len(infos) \in Nat
      BY InfosType DEF IInv
    <3>. QED
      BY <3>1, <3>2
  <2>3. PassesLeft = n + 1 - at /\ PassesLeft' = n + 1 - at'
    BY <1>1, <2>2 DEF PassesLeft, input
  <2>4. at \in Int
    BY <2>2 DEF IInv, InputInv
  <2>5. n + 1 - (at + 1) < n + 1 - at
    BY <2>4
  <2>. QED
    BY <1>1, <2>1, <2>3, <2>5
<1>2. CASE Split
  BY <1>1, <1>2 DEF Split
<1>3. CASE Measure
  BY <1>3 DEF Measure, LoopsLeft
<1>4. CASE Keep
  BY <1>1, <1>4 DEF Keep
<1>5. CASE Mark
  <2>1. /\ phase = "scan" /\ phase' = phase /\ ~infos[at].long
        /\ infos' = [infos EXCEPT ![at].long = TRUE,
                                  ![at].size = @ + LongBranchSeqSize * 4]
    BY <1>5 DEF Mark
  <2>2. at \in DOMAIN infos /\ \A e \in DOMAIN infos : infos[e] \in InfoType
    BY <1>5, <2>1, InfosType DEF Mark, IInv, InputInv
  <2>3. /\ DOMAIN infos' = DOMAIN infos /\ infos'[at].long
        /\ \A e \in DOMAIN infos : e # at => infos'[e] = infos[e]
    BY <2>1, <2>2 DEF InfoType
  <2>4. Unmarked' = Unmarked \ {at} /\ at \in Unmarked
    BY <2>1, <2>2, <2>3 DEF Unmarked
  <2>5. Cardinality(Unmarked \ {at}) = Cardinality(Unmarked) - 1
    BY <2>4, FS_RemoveElement DEF LeftType
  <2>6. Cardinality(Unmarked') < Cardinality(Unmarked)
    BY <2>4, <2>5 DEF LeftType
  <2>. QED
    BY <2>1, <2>6 DEF LoopsLeft
<1>6. CASE EndRound
  <2>1. /\ phase = "scan" /\ infos' = infos /\ made' = FALSE
        /\ phase' = IF made THEN "scan" ELSE IF ever THEN "expand" ELSE "done"
    BY <1>6 DEF EndRound
  <2>2. CASE made
    BY <2>1, <2>2 DEF LoopsLeft, Unmarked, RoundLeft
  <2>3. CASE ~made
    BY <2>1, <2>3 DEF LoopsLeft
  <2>. QED
    BY <2>2, <2>3
<1>7. CASE Expand
  BY <1>1, <1>7 DEF Expand
<1>8. CASE SkipShort
  BY <1>1, <1>8 DEF SkipShort
<1>9. CASE Finish
  BY <1>9 DEF Finish, LoopsLeft
<1>. QED
  BY <1>2, <1>3, <1>4, <1>5, <1>6, <1>7, <1>8, <1>9 DEF Next

(***************************************************************************)
(* For every function, every step of the pass leaves less to do, in an     *)
(* order without infinite descent: a mark is never withdrawn, and a round  *)
(* is repeated only if it has added one (the outer loop on MadeChange of   *)
(* Cpu0LongBranch::runOnMachineFunction).                                  *)
(***************************************************************************)
THEOREM StepsRunOut ==
  /\ IsWellFoundedOn(TupleOrder(4), [1..4 -> Nat])
  /\ Spec => [](Left \in [1..4 -> Nat])
  /\ Spec => [][LeavesLess]_vars
<1>1. IsWellFoundedOn(TupleOrder(4), [1..4 -> Nat])
  BY TupleOrderWellFounded
<1>2. Spec => []LeftType
  BY Invariant, LeftTyped, PTL
<1>3. LeftType => Left \in [1..4 -> Nat]
  BY DEF Left, LeftType
<1>4. Spec => [](Left \in [1..4 -> Nat])
  BY <1>2, <1>3, PTL
<1>5. Spec => [][LeavesLess]_vars
  <2>1. IInv /\ LeftType /\ LeftType' /\ [Next]_vars
          => [LeavesLess]_vars
    BY StepLowers DEF LeavesLess
  <2>. QED
    BY <1>2, <2>1, Invariant, PTL DEF Spec
<1>. QED
  BY <1>1, <1>4, <1>5
=============================================================================
