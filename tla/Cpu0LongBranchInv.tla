------------------------- MODULE Cpu0LongBranchInv -------------------------
(***************************************************************************)
(* The inductive invariant of the Cpu0LongBranch pass.  While the blocks   *)
(* are split each of them is still the block that splitMBB made; after     *)
(* that the entries of MBBInfos name these blocks, in layout order, and a  *)
(* block is followed by its sequence once its entry is expanded.           *)
(***************************************************************************)
EXTENDS Cpu0LongBranch

\* A block of the function or a half of one, as splitMBB leaves it, and the
\* block that is laid out behind it.
IsSelf(id) ==
  /\ id \in Ids /\ id[3] = "self"
  /\ id[2] = "second" => func[id[1]].cond # 0 /\ func[id[1]].jump # 0

Orig(id) == SplitMBB(id[1])[IF id[2] = "first" THEN 1 ELSE 2]

NextSelf(id) ==
  IF id[2] = "first" /\ func[id[1]].cond # 0 /\ func[id[1]].jump # 0
    THEN Name(id[1], "second", "self") ELSE Entry(id[1] + 1)

\* The number of blocks of a sequence.
Own == IF isPIC THEN 2 ELSE 1

Expanded(e) == infos[e].long /\ (phase = "done" \/ (phase = "expand" /\ e < at))

IsAt(e, p) == e \in DOMAIN infos /\ p \in DOMAIN blocks /\ blocks[p].id = infos[e].mbb

-----------------------------------------------------------------------------
InputInv ==
  /\ func \in Funcs
  /\ isPIC \in BOOLEAN /\ force \in BOOLEAN /\ gpSet \in BOOLEAN
  /\ phase \in {"split", "scan", "expand", "done"}
  /\ made \in BOOLEAN /\ ever \in BOOLEAN
  /\ at \in 1 .. (IF phase = "split" THEN Len(func) ELSE Len(infos)) + 1

BlocksInv ==
  /\ blocks \in Seq(BlockType)
  /\ \A p, q \in DOMAIN blocks : blocks[q].id = blocks[p].id => q = p

SplitInv ==
  phase = "split" =>
    /\ infos = <<>>
    /\ made = FALSE /\ ever = FALSE
    /\ \A p \in DOMAIN blocks :
         /\ IsSelf(blocks[p].id) /\ blocks[p].id[1] < at
         /\ blocks[p] = Orig(blocks[p].id)
         /\ p + 1 \in DOMAIN blocks => blocks[p + 1].id = NextSelf(blocks[p].id)
    /\ \A n \in 1 .. at - 1 : \E p \in DOMAIN blocks : blocks[p].id = Entry(n)
    /\ IF at = 1
         THEN blocks = <<>>
         ELSE blocks # <<>> /\ NextSelf(blocks[Len(blocks)].id) = Entry(at)

\* The entries of MBBInfos.
InfoType == [mbb : Ids, size : Nat, br : BOOLEAN, long : BOOLEAN]

InfosInv ==
  phase # "split" =>
    /\ infos \in Seq(InfoType)
    /\ \A e \in DOMAIN infos :
         /\ IsSelf(infos[e].mbb)
         /\ infos[e].br <=> \/ Orig(infos[e].mbb).op = "cond"
                            \/ Orig(infos[e].mbb).op = "jmp" /\ isPIC
         /\ infos[e].long => infos[e].br
         /\ infos[e].size = SizeOf(Orig(infos[e].mbb))
                              + IF infos[e].long THEN LongBranchSeqSize * 4 ELSE 0
         /\ NextSelf(infos[e].mbb)
              = IF e < Len(infos) THEN infos[e + 1].mbb ELSE Entry(Len(func) + 1)
    /\ \A e, t \in DOMAIN infos : infos[t].mbb = infos[e].mbb => t = e
    /\ \A n \in DOMAIN func : \E e \in DOMAIN infos : infos[e].mbb = Entry(n)

\* Where the blocks of an entry are, and what they are.
OrderInv ==
  phase # "split" =>
    /\ \A e \in DOMAIN infos : \E p \in DOMAIN blocks : IsAt(e, p)
    /\ \A e, t \in DOMAIN infos, p, q \in DOMAIN blocks :
         IsAt(e, p) /\ IsAt(t, q) /\ e < t => p < q
    /\ \A p \in DOMAIN blocks : p = 1 => IsAt(1, 1)
    /\ \A p \in DOMAIN blocks : \E e \in DOMAIN infos :
         /\ infos[e].mbb = Name(blocks[p].id[1], blocks[p].id[2], "self")
         /\ blocks[p].id[3] # "self" => Expanded(e) /\ blocks[p].op # "cond"
    /\ phase = "scan" => Len(blocks) = Len(infos) /\ \A e \in DOMAIN infos : IsAt(e, e)

Behind(e) == IF Expanded(e) THEN Own ELSE 0

GroupInv ==
  phase # "split" =>
    \A e \in DOMAIN infos, p \in DOMAIN blocks : IsAt(e, p) =>
      /\ blocks[p] = IF Expanded(e) THEN Redirect(Orig(infos[e].mbb), NextSelf(infos[e].mbb))
                                    ELSE Orig(infos[e].mbb)
      /\ p + Behind(e) \in DOMAIN blocks
      /\ \A j \in 1 .. Behind(e) : blocks[p + j] = Sequence(Orig(infos[e].mbb))[j]
      /\ IF e = Len(infos) THEN p + Behind(e) = Len(blocks)
                           ELSE IsAt(e + 1, p + Behind(e) + 1)

\* What the rounds have found out.
IsTgt(e, t) == t \in DOMAIN infos /\ infos[t].mbb = Orig(infos[e].mbb).tgt

ShortFits(e) ==
  infos[e].br /\ ~infos[e].long =>
    ~force /\ \A t \in DOMAIN infos :
                IsTgt(e, t) => FitsImm(OffsetTo(infos, e, t) \div 4)

OwnSize(e, t) == IF e < t THEN 0 ELSE LongBranchSeqSize * 4

LongNeeded(e) ==
  infos[e].long /\ ~force =>
    \A t \in DOMAIN infos :
      IsTgt(e, t) => ~FitsImm((OffsetTo(infos, e, t) + OwnSize(e, t)) \div 4)

RoundInv ==
  phase # "split" =>
    /\ ~ever => \A e \in DOMAIN infos : ~infos[e].long
    /\ phase = "scan" /\ ~made => \A e \in 1 .. at - 1 : ShortFits(e)
    /\ phase \in {"expand", "done"} => \A e \in DOMAIN infos : ShortFits(e)
    /\ \A e \in DOMAIN infos : LongNeeded(e)

IInv ==
  InputInv /\ BlocksInv /\ SplitInv /\ InfosInv /\ OrderInv /\ GroupInv /\ RoundInv
=============================================================================
