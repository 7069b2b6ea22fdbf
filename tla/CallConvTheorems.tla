------------------------- MODULE CallConvTheorems -------------------------
(***************************************************************************)
(* Facts about Cpu0CallConv, for argument lists of every length: where the *)
(* words of a call are put, that no two are put in the same place, and     *)
(* that the callee finds each.                                             *)
(***************************************************************************)
EXTENDS Cpu0CallConv, SumTheorems, SequenceTheorems

-----------------------------------------------------------------------------
(***************************************************************************)
(* Recursive functions over an interval: one with the equations exists,    *)
(* and any two agree where their equations do.                             *)
(***************************************************************************)
StepOn(g, V, a, b) == g \in [V \X (a + 1 .. b) -> V]
IsRecursion(f, x, g, a, b) ==
  f[a] = x /\ \A k \in a + 1 .. b : f[k] = g[<<f[k - 1], k>>]

LEMMA RecursionExists ==
  ASSUME NEW V, NEW x \in V, NEW a \in Int, NEW b \in Int, a <= b,
         NEW g, StepOn(g, V, a, b)
  PROVE  \E f \in [a .. b -> V] : IsRecursion(f, x, g, a, b)
<1> DEFINE Has(e) == \E f \in [a .. e -> V] : IsRecursion(f, x, g, a, e)
           S == {e \in Int : Has(e)}
<1>1. a \in S
  <2>1. [k \in a .. a |-> x] \in [a .. a -> V]
    OBVIOUS
  <2>2. IsRecursion([k \in a .. a |-> x], x, g, a, a)
    BY DEF IsRecursion
  <2>3. Has(a)
    BY <2>1, <2>2
  <2>. HIDE DEF Has
  <2>. QED
    BY <2>3
<1>2. ASSUME NEW d \in a .. b - 1, d \in S PROVE d + 1 \in S
  <2>1. PICK f \in [a .. d -> V] : IsRecursion(f, x, g, a, d)
    BY <1>2
  <2> DEFINE h == [k \in a .. d + 1 |-> IF k = d + 1 THEN g[<<f[d], d + 1>>] ELSE f[k]]
  <2>2. g[<<f[d], d + 1>>] \in V
    <3>1. f[d] \in V /\ d + 1 \in a + 1 .. b
      BY <2>1
    <3>. QED
      BY <3>1 DEF StepOn
  <2>3. h \in [a .. d + 1 -> V]
    BY <2>1, <2>2
  <2>4. h[a] = x
    BY <2>1 DEF IsRecursion
  <2>5. ASSUME NEW k \in a + 1 .. d + 1 PROVE h[k] = g[<<h[k - 1], k>>]
    <3>1. k - 1 \in a .. d + 1 /\ k - 1 # d + 1 /\ h[k - 1] = f[k - 1]
      OBVIOUS
    <3>2. CASE k = d + 1
      BY <3>1, <3>2
    <3>3. CASE k # d + 1
      BY <3>1, <3>3, <2>1 DEF IsRecursion
    <3>. QED
      BY <3>2, <3>3
  <2>6. IsRecursion(h, x, g, a, d + 1)
    BY <2>4, <2>5 DEF IsRecursion
  <2>7. Has(d + 1)
    <3>. HIDE DEF h
    <3>. QED
      BY <2>3, <2>6
  <2>. HIDE DEF Has
  <2>. QED
    BY <2>7
<1>3. \A k \in a .. b : k \in S
  <2>. HIDE DEF S
  <2>. QED
    BY <1>1, <1>2, IntervalInduction
<1>. QED
  BY <1>3

StepsAgree(f, h, a, b) == \A k \in a .. b - 1 : f[k] = h[k] => f[k + 1] = h[k + 1]

LEMMA RecursionsAgree ==
  ASSUME NEW a \in Int, NEW b \in Int, NEW f, NEW h, f[a] = h[a],
         StepsAgree(f, h, a, b)
  PROVE  \A k \in a .. b : f[k] = h[k]
<1> DEFINE S == {k \in Int : f[k] = h[k]}
<1>1. a \in S
  OBVIOUS
<1>2. ASSUME NEW k \in a .. b - 1, k \in S PROVE k + 1 \in S
  BY <1>2 DEF StepsAgree
<1>3. \A k \in a .. b : k \in S
  <2>. HIDE DEF S
  <2>. QED
    BY <1>1, <1>2, IntervalInduction
<1>. QED
  BY <1>3

(***************************************************************************)
(* FlattenSeq, one sequence at a time.                                     *)
(***************************************************************************)
IsFlatten(f, ss) ==
  f = [i \in 1 .. Len(ss) |-> IF i = 1 THEN ss[i] ELSE f[i - 1] \o ss[i]]

LEMMA FlattenIs ==
  ASSUME NEW X, NEW ss \in Seq(Seq(X)), Len(ss) # 0
  PROVE  \E f \in [1 .. Len(ss) -> Seq(X)] :
            IsFlatten(f, ss) /\ FlattenSeq(ss) = f[Len(ss)]
<1> DEFINE N == Len(ss)
           g == [v \in Seq(X) \X (2 .. N) |-> v[1] \o ss[v[2]]]
           F(f) == [i \in 1 .. N |-> IF i = 1 THEN ss[i] ELSE f[i - 1] \o ss[i]]
           c == CHOOSE f : f = F(f)
<1>1. N \in Nat /\ 1 <= N /\ \A i \in 1 .. N : ss[i] \in Seq(X)
  OBVIOUS
<1>2. StepOn(g, Seq(X), 1, N)
  <2>1. \A v \in Seq(X) \X (2 .. N) : g[v] \in Seq(X)
    BY <1>1
  <2>2. g \in [Seq(X) \X (2 .. N) -> Seq(X)]
    BY <2>1
  <2>. HIDE DEF g, N
  <2>. QED
    BY <2>2 DEF StepOn
<1>3. PICK f : f \in [1 .. N -> Seq(X)] /\ IsRecursion(f, ss[1], g, 1, N)
  <2>1. ss[1] \in Seq(X) /\ 1 \in Int /\ N \in Int /\ 1 <= N
    BY <1>1
  <2>. HIDE DEF g, N
  <2>. QED
    BY <1>1, <1>2, <2>1, RecursionExists
<1>4. f = F(f)
  <2>1. ASSUME NEW i \in 1 .. N, i # 1 PROVE f[i] = f[i - 1] \o ss[i]
    <3>1. i \in 2 .. N /\ i - 1 \in 1 .. N
      <4>. HIDE DEF N
      <4>. QED
        BY <1>1, <2>1
    <3>a. f[i - 1] \in Seq(X)
      BY <1>3, <3>1
    <3>2. f[i] = g[<<f[i - 1], i>>]
      <4>. HIDE DEF g, N
      <4>. QED
        BY <1>3, <3>1 DEF IsRecursion
    <3>. QED
      BY <3>1, <3>a, <3>2
  <2>2. f[1] = ss[1]
    BY <1>3 DEF IsRecursion
  <2>. QED
    BY <1>3, <2>1, <2>2
<1>5. c = F(c)
  <2>. HIDE DEF F
  <2>. QED
    BY <1>4
<1>6. \A i \in 1 .. N : c[i] = f[i]
  <2>1. c[1] = f[1]
    <3>. HIDE DEF c
    <3>. QED
      BY <1>1, <1>4, <1>5
  <2>2. ASSUME NEW j \in 1 .. N - 1, c[j] = f[j] PROVE c[j + 1] = f[j + 1]
    <3>1. j + 1 \in 1 .. N /\ j + 1 # 1 /\ (j + 1) - 1 = j
      <4>. HIDE DEF N
      <4>. QED
        BY <1>1
    <3>2. f[j + 1] = f[j] \o ss[j + 1]
      <4>. HIDE DEF c, N
      <4>. QED
        BY <1>4, <3>1
    <3>3. c[j + 1] = c[j] \o ss[j + 1]
      <4>. HIDE DEF c, N
      <4>. QED
        BY <1>5, <3>1
    <3>. QED
      BY ZenonT(60), <2>2, <3>2, <3>3
  <2>3. StepsAgree(c, f, 1, N)
    <3>. HIDE DEF c, N
    <3>. QED
      BY <2>2 DEF StepsAgree
  <2>4. 1 \in Int /\ N \in Int
    BY <1>1
  <2>. HIDE DEF c, N, F, g
  <2>. QED
    BY ONLY <2>1, <2>3, <2>4, RecursionsAgree, SMTT(60)
<1>7. FlattenSeq(ss) = c[N]
  BY DEF FlattenSeq
<1>8. FlattenSeq(ss) = f[N]
  <2>1. N \in 1 .. N
    BY <1>1
  <2>. HIDE DEF c, N
  <2>. QED
    BY <2>1, <1>6, <1>7
<1>. QED
  BY <1>3, <1>4, <1>8 DEF IsFlatten

LEMMA FlattenEmpty ==
  FlattenSeq(<<>>) = <<>>
BY DEF FlattenSeq

LEMMA FlattenAppend ==
  ASSUME NEW X, NEW ss \in Seq(Seq(X)), NEW s \in Seq(X)
  PROVE  /\ FlattenSeq(ss) \in Seq(X)
         /\ FlattenSeq(Append(ss, s)) = FlattenSeq(ss) \o s
<1> DEFINE tt == Append(ss, s)
           N  == Len(ss)
<1>1. tt \in Seq(Seq(X)) /\ Len(tt) = N + 1 /\ tt[N + 1] = s /\ N \in Nat
      /\ \A i \in 1 .. N : tt[i] = ss[i]
  OBVIOUS
<1>2. PICK h : h \in [1 .. N + 1 -> Seq(X)] /\
        IsFlatten(h, tt) /\ FlattenSeq(tt) = h[N + 1]
  <2>1. Len(tt) # 0
    BY <1>1
  <2>. HIDE DEF tt
  <2>. QED
    BY <1>1, <2>1, FlattenIs
<1>3. CASE N = 0
  <2>1. ss = <<>>
    BY <1>3, EmptySeq
  <2>2. h[1] = s
    BY <1>1, <1>2, <1>3 DEF IsFlatten
  <2>3. <<>> \o s = s /\ <<>> \in Seq(X)
    OBVIOUS
  <2>4. FlattenSeq(tt) = s
    BY <1>2, <1>3, <2>2
  <2>. QED
    BY <2>1, <2>3, <2>4, FlattenEmpty
<1>4. CASE N # 0
  <2>1. PICK f : f \in [1 .. N -> Seq(X)] /\ IsFlatten(f, ss) /\ FlattenSeq(ss) = f[N]
    BY <1>4, FlattenIs
  <2>2. h[1] = f[1]
    BY <1>1, <1>2, <1>4, <2>1 DEF IsFlatten
  <2>3. ASSUME NEW j \in 1 .. N - 1, f[j] = h[j] PROVE f[j + 1] = h[j + 1]
    <3>1. /\ j + 1 \in 1 .. N /\ j + 1 \in 1 .. N + 1 /\ j + 1 # 1 /\ (j + 1) - 1 = j
          /\ tt[j + 1] = ss[j + 1]
      <4>. HIDE DEF N, tt
      <4>. QED
        BY <1>1
    <3>2. f[j + 1] = f[j] \o ss[j + 1]
      BY <2>1, <3>1 DEF IsFlatten
    <3>3. h[j + 1] = h[j] \o tt[j + 1]
      <4>. HIDE DEF tt
      <4>. QED
        BY <1>1, <1>2, <3>1 DEF IsFlatten
    <3>. QED
      BY <2>3, <3>1, <3>2, <3>3
  <2>a. StepsAgree(f, h, 1, N)
    <3>. HIDE DEF N
    <3>. QED
      BY <2>3 DEF StepsAgree
  <2>4. \A k \in 1 .. N : f[k] = h[k]
    <3>1. 1 \in Int /\ N \in Int
      BY <1>1
    <3>. HIDE DEF N
    <3>. QED
      BY <3>1, <2>2, <2>a, RecursionsAgree
  <2>5. h[N + 1] = h[N] \o s
    <3>1. N + 1 \in 1 .. Len(tt) /\ N + 1 # 1 /\ (N + 1) - 1 = N
      BY <1>1, <1>4
    <3>. HIDE DEF tt
    <3>. QED
      BY <1>1, <1>2, <3>1 DEF IsFlatten
  <2>6. h[N] = f[N] /\ f[N] \in Seq(X)
    BY <1>1, <1>4, <2>1, <2>4
  <2>. QED
    BY <1>2, <2>1, <2>5, <2>6
<1>. QED
  BY <1>3, <1>4

-----------------------------------------------------------------------------
(***************************************************************************)
(* The parts of arguments, and the states that an analysis goes through:   *)
(* while an argument register of O32 is left, nothing but the area of the  *)
(* registers themselves is on the stack, unless the convention is "fast".  *)
(***************************************************************************)
Scalars  == [size : {4}, align : {1, 4, 8}, byval : {FALSE}]
PartType == Scalars \cup Structs
LocType  == [first : Nat, num : Nat, addr : Nat]
HasHomes(c) == c.abi = "O32" /\ c.conv # "fast"

Sane(c, regs, stack) ==
  /\ stack % 4 = 0 /\ stack >= ReservedArgArea(c)
  /\ c.abi = "S32" => regs = 0
  /\ HasHomes(c) /\ regs < 2 => stack = 8

StateType(c) ==
  {s \in [regs : 0 .. 2, stack : Nat, locs : Seq(LocType)] : Sane(c, s.regs, s.stack)}

LEMMA Aligned ==
  ASSUME NEW n \in Nat, n % 4 = 0
  PROVE  /\ AlignTo(n, 1) = n /\ AlignTo(n, 4) = n
         /\ AlignTo(n, 8) \in Nat /\ n <= AlignTo(n, 8) /\ AlignTo(n, 8) % 4 = 0
BY DEF AlignTo

LEMMA AlignedSmall ==
  AlignTo(0, 8) = 0 /\ AlignTo(4, 8) = 8 /\ AlignTo(8, 8) = 8
BY DEF AlignTo

(***************************************************************************)
(* What a step of the analysis does: the location of the part is in        *)
(* registers and stack behind those of the parts before it, and a byval    *)
(* part that begins in registers goes on where their home ends.            *)
(***************************************************************************)
Fits(c, s, t, p, loc) ==
  LET n == p.size \div RegSize
  IN  /\ loc \in LocType /\ t.locs = Append(s.locs, loc)
      /\ s.regs <= t.regs /\ s.stack <= t.stack
      /\ loc.num <= n
      /\ loc.num > 0 => s.regs <= loc.first /\ loc.first + loc.num <= t.regs
      /\ loc.num < n => /\ s.stack <= loc.addr /\ loc.addr % 4 = 0
                        /\ loc.addr + RegSize * (n - loc.num) <= t.stack
      /\ p.byval /\ loc.num > 0 =>
           HasHomes(c) /\ (loc.num < n => loc.first + loc.num = 2 /\ loc.addr = 8)

LEMMA PlaceFits ==
  ASSUME NEW c \in ConvType, NEW s \in StateType(c), NEW p \in PartType,
         NEW regs \in 0 .. 2, NEW stack \in Nat, Sane(c, regs, stack),
         NEW first \in Nat, NEW num \in Nat, NEW addr \in Nat,
         s.regs <= regs, s.stack <= stack, num <= p.size \div 4,
         num > 0 => s.regs <= first /\ first + num <= regs,
         num < p.size \div 4 => /\ s.stack <= addr /\ addr % 4 = 0
                                /\ addr + 4 * (p.size \div 4 - num) <= stack,
         p.byval /\ num > 0 =>
           HasHomes(c) /\ (num < p.size \div 4 => first + num = 2 /\ addr = 8)
  PROVE  LET t == Place(s, regs, stack, Loc(first, num, addr))
         IN  t \in StateType(c) /\ Fits(c, s, t, p, Loc(first, num, addr))
<1> DEFINE loc == Loc(first, num, addr)
           t == Place(s, regs, stack, loc)
<1>1. loc \in LocType /\ loc.first = first /\ loc.num = num /\ loc.addr = addr
  BY DEF Loc, LocType
<1>2. t.regs = regs /\ t.stack = stack /\ t.locs = Append(s.locs, loc)
  BY DEF Place
<1>3. t \in StateType(c)
  <2>1. s.locs \in Seq(LocType)
    BY DEF StateType
  <2>2. Append(s.locs, loc) \in Seq(LocType)
    <3>. HIDE DEF loc
    <3>. QED
      BY <2>1, <1>1
  <2>3. t = [regs |-> regs, stack |-> stack, locs |-> Append(s.locs, loc)]
    BY DEF Place
  <2>4. t \in [regs : 0 .. 2, stack : Nat, locs : Seq(LocType)]
    <3>. HIDE DEF loc, t
    <3>. QED
      BY <2>2, <2>3
  <2>. HIDE DEF t, loc
  <2>. QED
    BY <1>2, <2>4 DEF StateType
<1>4. Fits(c, s, t, p, loc)
  <2>. HIDE DEF t, loc
  <2>. QED
    BY <1>1, <1>2 DEF Fits, RegSize
<1>. QED
  BY <1>3, <1>4

LEMMA Start ==
  ASSUME NEW c \in ConvType
  PROVE  [regs |-> 0, stack |-> ReservedArgArea(c), locs |-> <<>>] \in StateType(c)
<1>1. <<>> \in Seq(LocType)
  OBVIOUS
<1>2. ReservedArgArea(c) \in {0, 8} /\ (HasHomes(c) => ReservedArgArea(c) = 8)
  BY DEF ReservedArgArea, HasHomes
<1>3. Sane(c, 0, ReservedArgArea(c))
  BY <1>2 DEF Sane
<1>. QED
  BY <1>1, <1>2, <1>3 DEF StateType

LEMMA ByValFits ==
  ASSUME NEW c \in ConvType, NEW s \in StateType(c), NEW p \in Structs
  PROVE  LET t == HandleByValArg(c, s, p)
         IN  t \in StateType(c) /\ \E loc : Fits(c, s, t, p, loc)
<1> DEFINE align == AtMost(AtLeast(p.align, RegSize), 2 * RegSize)
           first == IF c.conv = "fast" THEN s.regs
                    ELSE IF align > RegSize THEN s.regs + (s.regs % 2) ELSE s.regs
           num   == IF c.conv = "fast" THEN 0
                    ELSE AtMost(p.size \div RegSize,
                                AtLeast(NumIntArgRegs(c) - first, 0))
           addr  == AlignTo(s.stack, align)
           stack == addr + p.size - RegSize * num
           t     == Place(s, first + num, stack, Loc(first, num, addr))
<1>1. HandleByValArg(c, s, p) = t
  BY DEF HandleByValArg
<1>2. PICK n \in Nat : p.size = 4 * n /\ p.size \div 4 = n
  <2>1. PICK z \in Nat : z = p.size /\ z % 4 = 0
    BY DEF Structs, RegSize
  <2>2. z \div 4 \in Nat /\ z = 4 * (z \div 4)
    BY <2>1
  <2>. QED
    BY <2>1, <2>2
<1>3. p.byval = TRUE /\ p \in PartType
  BY DEF Structs, PartType
<1>4. align \in {4, 8}
  <2>1. PICK al \in Nat : al = p.align /\ al \notin {0, 5, 6, 7}
    BY DEF Structs
  <2>. QED
    BY <2>1 DEF AtMost, AtLeast, RegSize
<1>5. PICK r \in 0 .. 2, st \in Nat : r = s.regs /\ st = s.stack /\ Sane(c, r, st)
  BY DEF StateType
<1>6. PICK f \in 0 .. 2 : /\ f = first /\ r <= f
                          /\ r = 0 => f = 0
                          /\ r = 2 => f = 2
  <2>1. 0 % 2 = 0 /\ 1 % 2 = 1 /\ 2 % 2 = 0
    OBVIOUS
  <2>2. r = 0 \/ r = 1 \/ r = 2
    BY <1>5
  <2>. HIDE DEF align
  <2>. QED
    BY <1>5, <2>1, <2>2
<1>7. NumIntArgRegs(c) = IF c.abi = "O32" THEN 2 ELSE 0
  BY DEF NumIntArgRegs
<1>8. PICK m \in 0 .. 2 : /\ m = num /\ m <= n /\ f + m <= 2
                          /\ m > 0 => HasHomes(c)
                          /\ m > 0 /\ m < n => f + m = 2
                          /\ HasHomes(c) /\ f + m < 2 => m = n
                          /\ c.abi = "S32" => m = 0
  <2>1. CASE ~HasHomes(c)
    <3>1. num = 0
      <4>. HIDE DEF first
      <4>. QED
        BY <1>2, <1>6, <1>7, <2>1 DEF HasHomes, AtMost, AtLeast, RegSize
    <3>. HIDE DEF num
    <3>. QED
      BY <1>2, <1>6, <2>1, <3>1
  <2>2. CASE HasHomes(c)
    <3>1. num = IF n < 2 - f THEN n ELSE 2 - f
      <4>. HIDE DEF first
      <4>. QED
        BY <1>2, <1>6, <1>7, <2>2 DEF HasHomes, AtMost, AtLeast, RegSize
    <3>. HIDE DEF num
    <3>. QED
      BY <1>2, <1>6, <2>2, <3>1 DEF HasHomes
  <2>. QED
    BY <2>1, <2>2
<1>9. PICK a \in Nat : /\ a = addr /\ st <= a /\ a % 4 = 0
                       /\ st = 8 => a = 8
  <2>1. st % 4 = 0
    BY <1>5 DEF Sane
  <2>. HIDE DEF align
  <2>. QED
    BY <1>4, <1>5, <2>1, Aligned, AlignedSmall
<1>. HIDE DEF align, first, num, addr, stack, t
<1>10. PICK e \in Nat : /\ e = stack /\ st <= e /\ e % 4 = 0
                        /\ e = a + 4 * (n - m)
  <2>1. stack = a + 4 * n - 4 * m
    BY <1>2, <1>8, <1>9 DEF RegSize, stack
  <2>2. PICK d \in Nat : d = n - m
    BY <1>2, <1>8
  <2>3. a + 4 * n - 4 * m = a + 4 * d
    BY <2>2
  <2>4. (a + 4 * d) % 4 = 0 /\ a + 4 * d \in Nat /\ st <= a + 4 * d
    BY <1>9
  <2>. QED
    BY <2>1, <2>2, <2>3, <2>4
<1>11. Sane(c, f + m, e)
  <2>1. ReservedArgArea(c) \in {0, 8} /\ ReservedArgArea(c) <= st
    BY <1>5 DEF Sane, ReservedArgArea
  <2>2. ASSUME HasHomes(c), f + m < 2 PROVE e = 8
    <3>1. m = n /\ r < 2
      BY <1>6, <1>8, <2>2
    <3>2. st = 8
      BY <1>5, <2>2, <3>1 DEF Sane
    <3>. QED
      BY <1>9, <1>10, <1>2, <3>1, <3>2
  <2>3. c.abi = "S32" => f + m = 0
    BY <1>5, <1>6, <1>8 DEF Sane
  <2>. QED
    BY <1>10, <2>1, <2>2, <2>3, <1>5 DEF Sane
<1>12. /\ m > 0 => r <= f /\ f + m <= f + m
       /\ m < n => st <= a /\ a % 4 = 0 /\ a + 4 * (n - m) <= e
       /\ m > 0 => HasHomes(c) /\ (m < n => f + m = 2 /\ a = 8)
  <2>1. ASSUME m > 0, m < n PROVE a = 8
    <3>1. r < 2 /\ HasHomes(c)
      BY <1>6, <1>8, <2>1
    <3>. QED
      BY <1>5, <1>9, <3>1 DEF Sane
  <2>2. r <= f /\ st <= a /\ a % 4 = 0 /\ a + 4 * (n - m) <= e /\ f + m <= f + m
    BY <1>6, <1>9, <1>10
  <2>3. m > 0 => HasHomes(c) /\ (m < n => f + m = 2)
    BY <1>8
  <2>. QED
    BY <2>1, <2>2, <2>3
<1>13. t = Place(s, f + m, e, Loc(f, m, a))
  BY <1>6, <1>8, <1>9, <1>10 DEF t
<1>14. /\ Place(s, f + m, e, Loc(f, m, a)) \in StateType(c)
       /\ Fits(c, s, Place(s, f + m, e, Loc(f, m, a)), p, Loc(f, m, a))
  <2>1. f + m \in 0 .. 2 /\ f \in Nat /\ m \in Nat /\ r <= f + m
    BY <1>6, <1>8
  <2>2. s.regs <= f + m /\ s.stack <= e
    BY <1>5, <1>10, <2>1
  <2>. QED
    BY ZenonT(60), <1>2, <1>3, <1>5, <1>8, <1>11, <1>12, <2>1, <2>2, PlaceFits
<1>. QED
  BY <1>1, <1>13, <1>14

LEMMA StackFits ==
  ASSUME NEW c \in ConvType, NEW s \in StateType(c), NEW p \in Scalars,
         NEW regs \in 0 .. 2, s.regs <= regs,
         regs = 2 \/ ~HasHomes(c), c.abi = "S32" => regs = 0
  PROVE  LET t == AllocateStack(s, p, regs)
         IN  t \in StateType(c) /\ \E loc : Fits(c, s, t, p, loc)
<1>1. PICK st \in Nat : st = s.stack /\ st % 4 = 0 /\ st >= ReservedArgArea(c)
  BY DEF StateType, Sane
<1>2. PICK a \in Nat : a = AlignTo(st, p.align) /\ st <= a /\ a % 4 = 0
  <2>1. p.align \in {1, 4, 8}
    BY DEF Scalars
  <2>2. CASE p.align = 1
    BY <1>1, <2>2, Aligned
  <2>3. CASE p.align = 4
    BY <1>1, <2>3, Aligned
  <2>4. CASE p.align = 8
    BY <1>1, <2>4, Aligned
  <2>. QED
    BY <2>1, <2>2, <2>3, <2>4
<1>3. AllocateStack(s, p, regs) = Place(s, regs, a + 4, Loc(0, 0, a))
  BY <1>1, <1>2 DEF AllocateStack, RegSize
<1>4. a + 4 \in Nat /\ st <= a + 4 /\ (a + 4) % 4 = 0
  BY <1>2
<1>5. Sane(c, regs, a + 4)
  <2>1. ReservedArgArea(c) \in {0, 8}
    BY DEF ReservedArgArea
  <2>. QED
    BY <1>1, <1>4, <2>1 DEF Sane
<1>6. p.size = 4 /\ p.byval = FALSE /\ p \in PartType
  BY DEF Scalars, PartType
<1>7. p.size \div 4 = 1
  BY <1>6
<1>8. s.stack <= a + 4 /\ s.stack <= a /\ a + 4 * (1 - 0) <= a + 4
  BY <1>1, <1>2
<1>9. /\ Place(s, regs, a + 4, Loc(0, 0, a)) \in StateType(c)
      /\ Fits(c, s, Place(s, regs, a + 4, Loc(0, 0, a)), p, Loc(0, 0, a))
  BY <1>4, <1>5, <1>6, <1>7, <1>8, PlaceFits
<1>. QED
  BY <1>3, <1>9

LEMMA RegisterFits ==
  ASSUME NEW c \in ConvType, NEW s \in StateType(c), NEW p \in Scalars,
         s.regs < 2, c.abi = "O32"
  PROVE  LET t == Place(s, s.regs + 1, s.stack, Loc(s.regs, 1, 0))
         IN  t \in StateType(c) /\ Fits(c, s, t, p, Loc(s.regs, 1, 0))
<1>1. PICK r \in 0 .. 1, st \in Nat : r = s.regs /\ st = s.stack /\ Sane(c, r, st)
  BY DEF StateType
<1>2. r + 1 \in 0 .. 2 /\ r <= r + 1 /\ r + 1 <= r + 1
  BY <1>1
<1>3. Sane(c, r + 1, st)
  BY <1>1 DEF Sane
<1>4. p.size = 4 /\ p.byval = FALSE /\ p \in PartType
  BY DEF Scalars, PartType
<1>5. p.size \div 4 = 1
  BY <1>4
<1>6. /\ Place(s, r + 1, st, Loc(r, 1, 0)) \in StateType(c)
      /\ Fits(c, s, Place(s, r + 1, st, Loc(r, 1, 0)), p, Loc(r, 1, 0))
  <2>1. s.regs <= r + 1 /\ s.stack <= st /\ s.regs <= r /\ r \in Nat
    BY <1>1, <1>2
  <2>. QED
    BY <1>2, <1>3, <1>4, <1>5, <2>1, PlaceFits
<1>. QED
  BY <1>1, <1>6

LEMMA AssignFits ==
  ASSUME NEW c \in ConvType, NEW s \in StateType(c), NEW p \in PartType
  PROVE  /\ Assign(c, s, p) \in StateType(c)
         /\ \E loc : Fits(c, s, Assign(c, s, p), p, loc)
<1>1. CASE p \in Structs
  <2>1. Assign(c, s, p) = HandleByValArg(c, s, p)
    BY <1>1 DEF Assign, Structs
  <2>. QED
    BY <1>1, <2>1, ByValFits
<1>2. CASE p \in Scalars
  <2>0. p.byval = FALSE
    BY <1>2 DEF Scalars
  <2>1. PICK r \in 0 .. 2 : r = s.regs /\ (c.abi = "S32" => r = 0)
    BY DEF StateType, Sane
  <2>2. CASE c.abi = "S32"
    <3>1. Assign(c, s, p) = AllocateStack(s, p, s.regs)
      BY <2>0, <2>2 DEF Assign, CC_Cpu0S32
    <3>2. ~HasHomes(c)
      BY <2>2 DEF HasHomes
    <3>3. s.regs \in 0 .. 2 /\ s.regs <= s.regs /\ s.regs = 0
      BY <2>1, <2>2
    <3>. QED
      BY <1>2, <2>2, <3>1, <3>2, <3>3, StackFits
  <2>3. CASE c.abi = "O32" /\ (s.regs = 0 \/ (s.regs = 1 /\ p.align # 8))
    <3>1. Assign(c, s, p) = Place(s, s.regs + 1, s.stack, Loc(s.regs, 1, 0))
      BY <2>0, <2>3 DEF Assign, CC_Cpu0O32
    <3>2. s.regs < 2
      BY <2>3
    <3>. QED
      BY <1>2, <2>3, <3>1, <3>2, RegisterFits
  <2>4. CASE c.abi = "O32" /\ ~(s.regs = 0 \/ (s.regs = 1 /\ p.align # 8))
    <3>1. Assign(c, s, p) = AllocateStack(s, p, 2)
      BY <2>0, <2>4 DEF Assign, CC_Cpu0O32
    <3>2. s.regs <= 2 /\ 2 \in 0 .. 2 /\ c.abi # "S32"
      BY <2>1, <2>4
    <3>. QED
      BY <1>2, <3>1, <3>2, StackFits
  <2>. QED
    BY <2>2, <2>3, <2>4 DEF ConvType
<1>. QED
  BY <1>1, <1>2 DEF PartType

-----------------------------------------------------------------------------
(***************************************************************************)
(* Run, one part at a time.                                                *)
(***************************************************************************)
IsRun(f, c, parts) ==
  f = [n \in 0 .. Len(parts) |->
        IF n = 0 THEN [regs |-> 0, stack |-> ReservedArgArea(c), locs |-> <<>>]
                 ELSE Assign(c, f[n - 1], parts[n])]

LEMMA RunIs ==
  ASSUME NEW c \in ConvType, NEW parts \in Seq(PartType)
  PROVE  \E f : /\ f \in [0 .. Len(parts) -> StateType(c)]
                /\ IsRun(f, c, parts) /\ Run(c, parts) = f[Len(parts)]
<1> DEFINE N == Len(parts)
           V == StateType(c)
           x == [regs |-> 0, stack |-> ReservedArgArea(c), locs |-> <<>>]
           g == [v \in V \X (1 .. N) |-> Assign(c, v[1], parts[v[2]])]
           F(f) == [n \in 0 .. N |-> IF n = 0 THEN x ELSE Assign(c, f[n - 1], parts[n])]
           d == CHOOSE f : f = F(f)
<1>1. N \in Nat /\ \A i \in 1 .. N : parts[i] \in PartType
  OBVIOUS
<1>2. StepOn(g, V, 0, N)
  <2>1. ASSUME NEW v \in V \X (1 .. N) PROVE Assign(c, v[1], parts[v[2]]) \in V
    <3>1. v[1] \in StateType(c) /\ parts[v[2]] \in PartType
      BY <1>1
    <3>. QED
      BY <3>1, AssignFits
  <2>2. g \in [V \X (1 .. N) -> V]
    <3>. HIDE DEF V, N
    <3>. QED
      BY <2>1
  <2>. HIDE DEF g, N, V
  <2>. QED
    BY <2>2 DEF StepOn
<1>3. PICK f : f \in [0 .. N -> V] /\ IsRecursion(f, x, g, 0, N)
  <2>1. x \in V
    BY Start
  <2>2. 0 \in Int /\ N \in Int /\ 0 <= N
    BY <1>1
  <2>. HIDE DEF g, N, V, x
  <2>. QED
    BY <1>2, <2>1, <2>2, RecursionExists
<1>4. f = F(f)
  <2>1. ASSUME NEW i \in 0 .. N, i # 0 PROVE f[i] = Assign(c, f[i - 1], parts[i])
    <3>1. i \in 0 + 1 .. N /\ i \in 1 .. N /\ i - 1 \in 0 .. N
      <4>. HIDE DEF N
      <4>. QED
        BY <1>1, <2>1
    <3>2. f[i - 1] \in V
      BY <1>3, <3>1
    <3>3. f[i] = g[<<f[i - 1], i>>]
      <4>. HIDE DEF g, N, x
      <4>. QED
        BY <1>3, <3>1 DEF IsRecursion
    <3>4. <<f[i - 1], i>> \in V \X (1 .. N)
      BY <3>1, <3>2
    <3>. HIDE DEF V, N
    <3>. QED
      BY <3>3, <3>4
  <2>2. f[0] = x
    <3>. HIDE DEF x, g, N
    <3>. QED
      BY <1>3 DEF IsRecursion
  <2>. HIDE DEF x, V, N
  <2>. QED
    BY <1>3, <2>1, <2>2
<1>5. d = F(d)
  <2>. HIDE DEF F
  <2>. QED
    BY <1>4
<1>6. \A i \in 0 .. N : d[i] = f[i]
  <2>1. d[0] = f[0]
    <3>1. 0 \in 0 .. N
      BY <1>1
    <3>. HIDE DEF d, x, N
    <3>. QED
      BY <1>4, <1>5, <3>1
  <2>2. ASSUME NEW j \in 0 .. N - 1, d[j] = f[j] PROVE d[j + 1] = f[j + 1]
    <3>1. j + 1 \in 0 .. N /\ j + 1 # 0 /\ (j + 1) - 1 = j
      <4>. HIDE DEF N
      <4>. QED
        BY <1>1
    <3>2. f[j + 1] = Assign(c, f[j], parts[j + 1])
      <4>. HIDE DEF d, N, x
      <4>. QED
        BY <1>4, <3>1
    <3>3. d[j + 1] = Assign(c, d[j], parts[j + 1])
      <4>. HIDE DEF d, N, x
      <4>. QED
        BY <1>5, <3>1
    <3>. HIDE DEF d
    <3>. QED
      BY <2>2, <3>2, <3>3
  <2>3. StepsAgree(d, f, 0, N)
    <3>. HIDE DEF d, N
    <3>. QED
      BY <2>2 DEF StepsAgree
  <2>4. 0 \in Int /\ N \in Int
    BY <1>1
  <2>. HIDE DEF d, N, F, g, V, x
  <2>. QED
    BY <2>1, <2>3, <2>4, RecursionsAgree
<1>7. Run(c, parts) = d[N]
  BY DEF Run
<1>8. Run(c, parts) = f[N]
  <2>1. N \in 0 .. N
    BY <1>1
  <2>. HIDE DEF d, N
  <2>. QED
    BY <2>1, <1>6, <1>7
<1>. QED
  BY <1>3, <1>4, <1>8 DEF IsRun

LEMMA RunEmpty ==
  ASSUME NEW c \in ConvType
  PROVE  Run(c, <<>>) = [regs |-> 0, stack |-> ReservedArgArea(c), locs |-> <<>>]
<1>1. <<>> \in Seq(PartType) /\ Len(<<>>) = 0
  OBVIOUS
<1>2. PICK f : IsRun(f, c, <<>>) /\ Run(c, <<>>) = f[0]
  BY <1>1, RunIs
<1>3. f[0] = [regs |-> 0, stack |-> ReservedArgArea(c), locs |-> <<>>]
  BY <1>1, <1>2 DEF IsRun
<1>. QED
  BY <1>2, <1>3

LEMMA RunAppend ==
  ASSUME NEW c \in ConvType, NEW parts \in Seq(PartType), NEW p \in PartType
  PROVE  /\ Run(c, parts) \in StateType(c)
         /\ Run(c, Append(parts, p)) = Assign(c, Run(c, parts), p)
<1> DEFINE tt == Append(parts, p)
           N == Len(parts)
<1>1. /\ tt \in Seq(PartType) /\ Len(tt) = N + 1 /\ tt[N + 1] = p /\ N \in Nat
      /\ \A i \in 1 .. N : tt[i] = parts[i]
  OBVIOUS
<1>2. PICK f : /\ f \in [0 .. N -> StateType(c)]
               /\ IsRun(f, c, parts) /\ Run(c, parts) = f[N]
  BY RunIs
<1>3. PICK h : IsRun(h, c, tt) /\ Run(c, tt) = h[N + 1]
  <2>. HIDE DEF tt
  <2>. QED
    BY <1>1, RunIs
<1>4. f[0] = h[0]
  <2>1. 0 \in 0 .. N /\ 0 \in 0 .. N + 1
    BY <1>1
  <2>. HIDE DEF tt
  <2>. QED
    BY <1>1, <1>2, <1>3, <2>1 DEF IsRun
<1>5. ASSUME NEW j \in 0 .. N - 1, f[j] = h[j] PROVE f[j + 1] = h[j + 1]
  <2>1. /\ j + 1 \in 0 .. N /\ j + 1 \in 0 .. N + 1 /\ j + 1 # 0 /\ (j + 1) - 1 = j
        /\ tt[j + 1] = parts[j + 1]
    <3>. HIDE DEF N, tt
    <3>. QED
      BY <1>1
  <2>2. f[j + 1] = Assign(c, f[j], parts[j + 1])
    BY <1>2, <2>1 DEF IsRun
  <2>3. h[j + 1] = Assign(c, h[j], tt[j + 1])
    <3>. HIDE DEF tt
    <3>. QED
      BY <1>1, <1>3, <2>1 DEF IsRun
  <2>. QED
    BY <1>5, <2>1, <2>2, <2>3
<1>6. \A k \in 0 .. N : f[k] = h[k]
  <2>1. StepsAgree(f, h, 0, N)
    <3>. HIDE DEF N
    <3>. QED
      BY <1>5 DEF StepsAgree
  <2>2. 0 \in Int /\ N \in Int
    BY <1>1
  <2>. HIDE DEF N
  <2>. QED
    BY <1>4, <2>1, <2>2, RecursionsAgree
<1>7. h[N + 1] = Assign(c, h[N], p)
  <2>1. N + 1 \in 0 .. N + 1 /\ N + 1 # 0 /\ (N + 1) - 1 = N
    BY <1>1
  <2>. HIDE DEF tt, N
  <2>. QED
    BY <1>1, <1>3, <2>1 DEF IsRun
<1>8. h[N] = f[N] /\ f[N] \in StateType(c)
  <2>1. N \in 0 .. N
    BY <1>1
  <2>. HIDE DEF N
  <2>. QED
    BY <2>1, <1>2, <1>6
<1>. QED
  BY <1>2, <1>3, <1>7, <1>8

-----------------------------------------------------------------------------
(***************************************************************************)
(* Where words may be, and when the words that were passed are found.      *)
(***************************************************************************)
WordType == [reg : Int, off : Int]
Region(r, rr, a, aa) ==
  {InReg(i) : i \in r .. rr - 1} \cup {OnStack(o) : o \in {x \in a .. aa - 4 : x % 4 = 0}}
HomeType(c) ==
  IF HasHomes(c) THEN {[reg |-> r, off |-> 4 * r] : r \in {0, 1}} ELSE {}

Matched(sent, found, homes) ==
  /\ Len(found) = Len(sent)
  /\ \A i \in 1 .. Len(sent) :
       \/ found[i] = sent[i]
       \/ \E h \in homes : sent[i] = InReg(h.reg) /\ found[i] = OnStack(h.off)

LEMMA PartSize ==
  ASSUME NEW p \in PartType
  PROVE  \E n \in Nat : n = p.size \div 4
<1>1. PICK z \in Nat : z = p.size
  BY DEF PartType, Scalars, Structs
<1>2. z \div 4 \in Nat
  BY <1>1
<1>. QED
  BY <1>1, <1>2

LEMMA FunctionIsSeq ==
  ASSUME NEW X, NEW n \in Nat, NEW f \in [1 .. n -> X]
  PROVE  f \in Seq(X) /\ Len(f) = n /\ DOMAIN f = 1 .. n
OBVIOUS

LEMMA RegionGrows ==
  ASSUME NEW r \in Int, NEW rr \in Int, NEW a \in Int, NEW aa \in Int,
         NEW q \in Int, NEW qq \in Int, NEW b \in Int, NEW bb \in Int,
         q <= r, rr <= qq, b <= a, aa <= bb
  PROVE  Region(r, rr, a, aa) \subseteq Region(q, qq, b, bb)
BY DEF Region

LEMMA RegionsApart ==
  ASSUME NEW r \in Int, NEW a \in Int, NEW rr \in Nat, NEW aa \in Nat,
         NEW q \in Int, NEW b \in Int, NEW z \in Nat, NEW y \in Nat
  PROVE  Region(z, rr, y, aa) \cap Region(rr, q, aa, b) = {}
BY DEF Region, InReg, OnStack

LEMMA WordOfLocFits ==
  ASSUME NEW c \in ConvType, NEW s \in StateType(c), NEW t \in StateType(c),
         NEW p \in PartType, NEW loc, Fits(c, s, t, p, loc),
         NEW w \in 1 .. p.size \div 4
  PROVE  WordOfLoc(loc, w) \in Region(s.regs, t.regs, s.stack, t.stack)
<1>1. PICK n \in Nat : n = p.size \div 4
  BY PartSize
<1>2. PICK f \in Nat, m \in Nat, a \in Nat : f = loc.first /\ m = loc.num /\ a = loc.addr
  BY DEF Fits, LocType
<1>3. PICK r \in Nat, rr \in Nat, st \in Nat, tt \in Nat :
        r = s.regs /\ rr = t.regs /\ st = s.stack /\ tt = t.stack
  BY DEF StateType
<1>4. /\ m > 0 => r <= f /\ f + m <= rr
      /\ m < n => st <= a /\ a % 4 = 0 /\ a + 4 * (n - m) <= tt
  BY <1>1, <1>2, <1>3 DEF Fits, RegSize
<1>5. CASE w <= m
  <2>1. f + w - 1 \in r .. rr - 1
    BY <1>1, <1>4, <1>5
  <2>2. WordOfLoc(loc, w) = InReg(f + w - 1)
    BY <1>2, <1>5 DEF WordOfLoc
  <2>. QED
    BY <1>3, <2>1, <2>2 DEF Region
<1>6. CASE w > m
  <2>1. a + 4 * (w - m - 1) \in {x \in st .. tt - 4 : x % 4 = 0}
    BY <1>1, <1>4, <1>6
  <2>2. WordOfLoc(loc, w) = OnStack(a + 4 * (w - m - 1))
    BY <1>1, <1>2, <1>6 DEF WordOfLoc, RegSize
  <2>. QED
    BY <1>3, <2>1, <2>2 DEF Region
<1>. QED
  BY <1>1, <1>2, <1>5, <1>6

LEMMA LocWordsApart ==
  ASSUME NEW p \in PartType, NEW loc \in LocType
  PROVE  IsInjective(LocWords(p, loc))
<1>1. PICK n \in Nat : n = p.size \div 4
  BY PartSize
<1>2. PICK f \in Nat, m \in Nat, a \in Nat : f = loc.first /\ m = loc.num /\ a = loc.addr
  BY DEF LocType
<1>3. ASSUME NEW w \in 1 .. n, NEW v \in 1 .. n, WordOfLoc(loc, w) = WordOfLoc(loc, v)
      PROVE  w = v
  BY <1>2, <1>3 DEF WordOfLoc, InReg, OnStack, RegSize
<1>4. LocWords(p, loc) = [w \in 1 .. n |-> WordOfLoc(loc, w)]
  BY <1>1 DEF LocWords, Words, RegSize
<1>. QED
  BY <1>3, <1>4 DEF IsInjective

LEMMA LocWordsTyped ==
  ASSUME NEW p \in PartType, NEW loc \in LocType
  PROVE  LocWords(p, loc) \in Seq(WordType)
<1>1. PICK n \in Nat : n = p.size \div 4
  BY PartSize
<1>2. PICK f \in Nat, m \in Nat, a \in Nat : f = loc.first /\ m = loc.num /\ a = loc.addr
  BY DEF LocType
<1>3. ASSUME NEW w \in 1 .. n PROVE WordOfLoc(loc, w) \in WordType
  BY <1>2 DEF WordOfLoc, InReg, OnStack, RegSize, WordType
<1>4. LocWords(p, loc) = [w \in 1 .. n |-> WordOfLoc(loc, w)]
  BY <1>1 DEF LocWords, Words, RegSize
<1>. QED
  BY <1>3, <1>4, FunctionIsSeq

LEMMA LocWordsFit ==
  ASSUME NEW c \in ConvType, NEW s \in StateType(c), NEW t \in StateType(c),
         NEW p \in PartType, NEW loc, Fits(c, s, t, p, loc)
  PROVE  LocWords(p, loc) \in Seq(Region(s.regs, t.regs, s.stack, t.stack))
<1>1. PICK n \in Nat : n = p.size \div 4
  BY PartSize
<1>2. LocWords(p, loc) = [w \in 1 .. n |-> WordOfLoc(loc, w)]
  BY <1>1 DEF LocWords, Words, RegSize
<1>3. \A w \in 1 .. n : WordOfLoc(loc, w) \in Region(s.regs, t.regs, s.stack, t.stack)
  BY <1>1, WordOfLocFits
<1>. QED
  BY <1>2, <1>3, FunctionIsSeq

(***************************************************************************)
(* The words of a part are found: a byval part's object begins at the home *)
(* of its first register.                                                  *)
(***************************************************************************)
LEMMA ByValOffsetIs ==
  ASSUME NEW c \in ConvType, NEW loc, NEW f \in Nat, f = loc.first,
         loc.num > 0, HasHomes(c)
  PROVE  ByValOffset(c, loc) = 4 * f
BY DEF ByValOffset, ReservedArgArea, NumIntArgRegs, RegSize, HasHomes

LEMMA ByValHomesTyped ==
  ASSUME NEW c \in ConvType, NEW s \in StateType(c), NEW t \in StateType(c),
         NEW p \in PartType, NEW loc, Fits(c, s, t, p, loc)
  PROVE  /\ ByValHomes(c, p, loc) \in Seq(HomeType(c))
         /\ p.byval => \A w \in 1 .. loc.num :
              [reg |-> loc.first + w - 1, off |-> 4 * (loc.first + w - 1)]
                \in ToSet(ByValHomes(c, p, loc))
<1>1. CASE p.byval
  <2>1. PICK f \in Nat, m \in Nat : f = loc.first /\ m = loc.num
    BY DEF Fits, LocType
  <2>2. m > 0 => HasHomes(c) /\ f + m <= 2
    <3>1. t.regs \in 0 .. 2
      BY DEF StateType
    <3>2. m > 0 => HasHomes(c) /\ f + m <= t.regs
      BY <1>1, <2>1 DEF Fits
    <3>. QED
      BY <2>1, <3>1, <3>2
  <2>3. ByValHomes(c, p, loc) =
          [i \in 1 .. m |-> [reg |-> f + i - 1,
                             off |-> ByValOffset(c, loc) + 4 * (i - 1)]]
    BY <1>1, <2>1 DEF ByValHomes, Homes, RegSize
  <2>4. ASSUME NEW i \in 1 .. m
        PROVE  /\ f + i - 1 \in {0, 1}
               /\ ByValOffset(c, loc) + 4 * (i - 1) = 4 * (f + i - 1)
               /\ HasHomes(c)
    <3>1. m > 0 /\ HasHomes(c) /\ f + m <= 2
      BY <2>1, <2>2
    <3>2. ByValOffset(c, loc) = 4 * f
      BY <2>1, <3>1, ByValOffsetIs
    <3>. QED
      BY <2>1, <3>1, <3>2
  <2>5. ByValHomes(c, p, loc) = [i \in 1 .. m |-> [reg |-> f + i - 1, off |-> 4 * (f + i - 1)]]
    BY <2>3, <2>4
  <2>6. ASSUME NEW i \in 1 .. m
        PROVE  [reg |-> f + i - 1, off |-> 4 * (f + i - 1)] \in HomeType(c)
    BY <2>4 DEF HomeType
  <2>7. /\ ByValHomes(c, p, loc) \in Seq(HomeType(c))
        /\ DOMAIN ByValHomes(c, p, loc) = 1 .. m
    BY <2>1, <2>5, <2>6, FunctionIsSeq
  <2>8. ASSUME NEW w \in 1 .. m
        PROVE  [reg |-> f + w - 1, off |-> 4 * (f + w - 1)] \in ToSet(ByValHomes(c, p, loc))
    BY <2>5, <2>7 DEF ToSet
  <2>. QED
    BY <2>1, <2>7, <2>8
<1>2. CASE ~p.byval
  <2>1. ByValHomes(c, p, loc) = <<>>
    BY <1>2 DEF ByValHomes
  <2>. QED
    BY <1>2, <2>1
<1>. QED
  BY <1>1, <1>2

LEMMA FoundWordsMatch ==
  ASSUME NEW c \in ConvType, NEW s \in StateType(c), NEW t \in StateType(c),
         NEW p \in PartType, NEW loc, Fits(c, s, t, p, loc)
  PROVE  /\ FoundWords(c, p, loc) \in Seq(WordType)
         /\ Matched(LocWords(p, loc), FoundWords(c, p, loc), ToSet(ByValHomes(c, p, loc)))
<1>0. loc \in LocType
  BY DEF Fits
<1>1. CASE ~p.byval
  <2>1. FoundWords(c, p, loc) = LocWords(p, loc)
    BY <1>1 DEF FoundWords
  <2>2. LocWords(p, loc) \in Seq(WordType)
    BY <1>0, LocWordsTyped
  <2>. QED
    BY <2>1, <2>2 DEF Matched
<1>2. CASE p.byval
  <2>1. PICK n \in Nat : n = p.size \div 4
    BY PartSize
  <2>2. PICK f \in Nat, m \in Nat, a \in Nat : f = loc.first /\ m = loc.num /\ a = loc.addr
    BY <1>0 DEF LocType
  <2>3. LocWords(p, loc) = [w \in 1 .. n |-> WordOfLoc(loc, w)]
    BY <2>1 DEF LocWords, Words, RegSize
  <2>4. FoundWords(c, p, loc) = [w \in 1 .. n |-> OnStack(ByValOffset(c, loc) + 4 * (w - 1))]
    BY <1>2, <2>1 DEF FoundWords, Words, RegSize
  <2>5. m > 0 => HasHomes(c) /\ (m < n => f + m = 2 /\ a = 8)
    BY <1>2, <2>1, <2>2 DEF Fits, RegSize
  <2>6. PICK o \in Int : /\ o = ByValOffset(c, loc)
                         /\ o = IF m > 0 THEN 4 * f ELSE a
    <3>1. CASE m > 0
      <4>1. ByValOffset(c, loc) = 4 * f
        BY <2>2, <2>5, <3>1, ByValOffsetIs
      <4>. QED
        BY <3>1, <4>1
    <3>2. CASE ~(m > 0)
      <4>1. ByValOffset(c, loc) = a
        BY <2>2, <3>2 DEF ByValOffset
      <4>. QED
        BY <3>2, <4>1
    <3>. QED
      BY <3>1, <3>2
  <2>7. ASSUME NEW w \in 1 .. n
        PROVE  OnStack(ByValOffset(c, loc) + 4 * (w - 1)) \in WordType
    BY <2>6 DEF OnStack, WordType
  <2>8. ASSUME NEW w \in 1 .. n
        PROVE  \/ OnStack(o + 4 * (w - 1)) = WordOfLoc(loc, w)
               \/ \E h \in ToSet(ByValHomes(c, p, loc)) :
                     WordOfLoc(loc, w) = InReg(h.reg) /\ OnStack(o + 4 * (w - 1)) = OnStack(h.off)
    <3>1. CASE w <= m
      <4>1. WordOfLoc(loc, w) = InReg(f + w - 1)
        BY <2>2, <3>1 DEF WordOfLoc
      <4>2. [reg |-> f + w - 1, off |-> 4 * (f + w - 1)] \in ToSet(ByValHomes(c, p, loc))
        <5>1. w \in 1 .. m
          BY <3>1
        <5>. QED
          BY <1>2, <2>2, <5>1, ByValHomesTyped
      <4>3. o + 4 * (w - 1) = 4 * (f + w - 1)
        BY <2>6, <3>1
      <4> DEFINE h == [reg |-> f + w - 1, off |-> 4 * (f + w - 1)]
      <4>4. h.reg = f + w - 1 /\ h.off = 4 * (f + w - 1)
        OBVIOUS
      <4>. HIDE DEF h
      <4>. QED
        BY <4>1, <4>2, <4>3, <4>4 DEF h
    <3>2. CASE w > m
      <4>1. WordOfLoc(loc, w) = OnStack(a + 4 * (w - m - 1))
        BY <2>1, <2>2, <3>2 DEF WordOfLoc, RegSize
      <4>2. o + 4 * (w - 1) = a + 4 * (w - m - 1)
        <5>1. CASE m > 0
          <6>1. f + m = 2 /\ a = 8
            BY <2>5, <3>2, <5>1
          <6>. QED
            BY <2>6, <5>1, <6>1
        <5>2. CASE m = 0
          BY <2>6, <5>2
        <5>. QED
          BY <5>1, <5>2
      <4>. QED
        BY <4>1, <4>2
    <3>. QED
      BY <3>1, <3>2
  <2>9. /\ FoundWords(c, p, loc) \in Seq(WordType) /\ Len(FoundWords(c, p, loc)) = n
        /\ LocWords(p, loc) \in Seq(WordType) /\ Len(LocWords(p, loc)) = n
    <3>1. FoundWords(c, p, loc) \in Seq(WordType) /\ Len(FoundWords(c, p, loc)) = n
      BY <2>4, <2>7, FunctionIsSeq
    <3>2. LocWords(p, loc) \in Seq(WordType)
      BY <1>0, LocWordsTyped
    <3>3. Len(LocWords(p, loc)) = n
      BY <2>3
    <3>. QED
      BY <3>1, <3>2, <3>3
  <2>10. ASSUME NEW w \in 1 .. n
         PROVE  /\ FoundWords(c, p, loc)[w] = OnStack(o + 4 * (w - 1))
                /\ LocWords(p, loc)[w] = WordOfLoc(loc, w)
    BY <2>3, <2>4, <2>6
  <2>. QED
    BY <2>8, <2>9, <2>10 DEF Matched
<1>. QED
  BY <1>1, <1>2

-----------------------------------------------------------------------------
(***************************************************************************)
(* Lists of words, one behind another.                                     *)
(***************************************************************************)
LEMMA Concat ==
  ASSUME NEW X, NEW Y, NEW s \in Seq(X), NEW t \in Seq(Y)
  PROVE  /\ s \o t \in Seq(X \cup Y)
         /\ Len(s \o t) = Len(s) + Len(t)
         /\ \A i \in 1 .. Len(s) : (s \o t)[i] = s[i]
         /\ \A i \in 1 .. Len(t) : (s \o t)[Len(s) + i] = t[i]
         /\ \A i \in 1 .. Len(s) + Len(t) :
              i \in 1 .. Len(s) \/ (i - Len(s) \in 1 .. Len(t) /\ i = Len(s) + (i - Len(s)))
<1>1. Len(s) \in Nat /\ Len(t) \in Nat
  OBVIOUS
<1>2. \A i \in 1 .. Len(s) + Len(t) :
        i \in 1 .. Len(s) \/ (i - Len(s) \in 1 .. Len(t) /\ i = Len(s) + (i - Len(s)))
  BY <1>1
<1>3. s \in Seq(X \cup Y) /\ t \in Seq(X \cup Y)
  OBVIOUS
<1>. QED
  BY <1>1, <1>2, <1>3

LEMMA InjectiveJoin ==
  ASSUME NEW X, NEW Y, NEW s \in Seq(X), NEW t \in Seq(Y), X \cap Y = {},
         IsInjective(s), IsInjective(t)
  PROVE  IsInjective(s \o t)
<1> DEFINE u == s \o t
<1>1. /\ u \in Seq(X \cup Y) /\ Len(u) = Len(s) + Len(t)
      /\ \A i \in 1 .. Len(s) : u[i] = s[i]
      /\ \A i \in 1 .. Len(t) : u[Len(s) + i] = t[i]
      /\ \A i \in 1 .. Len(s) + Len(t) :
           i \in 1 .. Len(s) \/ (i - Len(s) \in 1 .. Len(t) /\ i = Len(s) + (i - Len(s)))
  BY Concat
<1>2. /\ \A i \in 1 .. Len(s) : s[i] \in X
      /\ \A i \in 1 .. Len(t) : t[i] \in Y
      /\ DOMAIN s = 1 .. Len(s) /\ DOMAIN t = 1 .. Len(t)
  OBVIOUS
<1>3. DOMAIN u = 1 .. Len(s) + Len(t)
  BY <1>1
<1>. HIDE DEF u
<1>4. ASSUME NEW i \in 1 .. Len(s) + Len(t)
      PROVE  \/ i \in 1 .. Len(s) /\ u[i] = s[i] /\ u[i] \in X
             \/ \E k \in 1 .. Len(t) : i = Len(s) + k /\ u[i] = t[k] /\ u[i] \in Y
  <2>1. CASE i \in 1 .. Len(s)
    BY <1>1, <1>2, <2>1
  <2>2. CASE i - Len(s) \in 1 .. Len(t) /\ i = Len(s) + (i - Len(s))
    <3>1. PICK k \in 1 .. Len(t) : i = Len(s) + k
      BY <2>2
    <3>. QED
      BY <1>1, <1>2, <3>1
  <2>. QED
    BY <1>1, <2>1, <2>2
<1>5. ASSUME NEW i \in 1 .. Len(s) + Len(t), NEW j \in 1 .. Len(s) + Len(t), u[i] = u[j]
      PROVE  i = j
  <2>1. CASE i \in 1 .. Len(s) /\ u[i] = s[i] /\ u[i] \in X
    <3>1. j \in 1 .. Len(s) /\ u[j] = s[j]
      BY <1>4, <1>5, <2>1
    <3>. QED
      BY <1>2, <1>5, <2>1, <3>1 DEF IsInjective
  <2>2. ASSUME NEW k \in 1 .. Len(t), i = Len(s) + k, u[i] = t[k], u[i] \in Y
        PROVE  i = j
    <3>1. PICK m \in 1 .. Len(t) : j = Len(s) + m /\ u[j] = t[m]
      BY <1>4, <1>5, <2>2
    <3>2. k = m
      BY <1>2, <1>5, <2>2, <3>1 DEF IsInjective
    <3>. QED
      BY <2>2, <3>1, <3>2
  <2>. QED
    BY <1>4, <2>1, <2>2
<1>. QED
  BY <1>3, <1>5 DEF IsInjective, u

LEMMA MatchedJoin ==
  ASSUME NEW X, NEW s \in Seq(X), NEW f \in Seq(X), NEW t \in Seq(X), NEW g \in Seq(X),
         NEW H, NEW G, NEW K, Matched(s, f, H), Matched(t, g, G), H \cup G \subseteq K
  PROVE  Matched(s \o t, f \o g, K)
<1>1. /\ Len(s \o t) = Len(s) + Len(t) /\ Len(f \o g) = Len(f) + Len(g)
      /\ \A i \in 1 .. Len(s) : (s \o t)[i] = s[i]
      /\ \A i \in 1 .. Len(t) : (s \o t)[Len(s) + i] = t[i]
      /\ \A i \in 1 .. Len(f) : (f \o g)[i] = f[i]
      /\ \A i \in 1 .. Len(g) : (f \o g)[Len(f) + i] = g[i]
      /\ \A i \in 1 .. Len(s) + Len(t) :
           i \in 1 .. Len(s) \/ (i - Len(s) \in 1 .. Len(t) /\ i = Len(s) + (i - Len(s)))
  BY Concat
<1>2. Len(f) = Len(s) /\ Len(g) = Len(t)
  BY DEF Matched
<1>3. ASSUME NEW i \in 1 .. Len(s) + Len(t)
      PROVE  \/ (f \o g)[i] = (s \o t)[i]
             \/ \E h \in K : (s \o t)[i] = InReg(h.reg) /\ (f \o g)[i] = OnStack(h.off)
  <2>1. CASE i \in 1 .. Len(s)
    <3>1. (f \o g)[i] = f[i] /\ (s \o t)[i] = s[i]
      BY <1>1, <1>2, <2>1
    <3>2. f[i] = s[i] \/ \E h \in H : s[i] = InReg(h.reg) /\ f[i] = OnStack(h.off)
      BY <2>1 DEF Matched
    <3>. QED
      BY <3>1, <3>2
  <2>2. CASE i - Len(s) \in 1 .. Len(t) /\ i = Len(s) + (i - Len(s))
    <3> DEFINE j == i - Len(s)
    <3>1. (f \o g)[i] = g[j] /\ (s \o t)[i] = t[j]
      BY <1>1, <1>2, <2>2
    <3>2. g[j] = t[j] \/ \E h \in G : t[j] = InReg(h.reg) /\ g[j] = OnStack(h.off)
      BY <2>2 DEF Matched
    <3>. QED
      BY <3>1, <3>2
  <2>. QED
    BY <1>1, <2>1, <2>2
<1>. QED
  BY <1>1, <1>2, <1>3 DEF Matched

LEMMA FlattenLast ==
  ASSUME NEW X, NEW n \in Nat, NEW f, f \in [1 .. n + 1 -> Seq(X)]
  PROVE  /\ FlattenSeq(f) = FlattenSeq([k \in 1 .. n |-> f[k]]) \o f[n + 1]
         /\ FlattenSeq([k \in 1 .. n |-> f[k]]) \in Seq(X)
<1> DEFINE g == [k \in 1 .. n |-> f[k]]
<1>1. \A k \in 1 .. n + 1 : f[k] \in Seq(X)
  OBVIOUS
<1>2. g \in [1 .. n -> Seq(X)] /\ f[n + 1] \in Seq(X)
  BY <1>1
<1>3. g \in Seq(Seq(X)) /\ Len(g) = n
  <2> DEFINE Y == Seq(X)
  <2>. HIDE DEF Y
  <2>1. g \in [1 .. n -> Y]
    BY <1>2 DEF Y
  <2>. HIDE DEF g
  <2>2. g \in Seq(Y) /\ Len(g) = n
    BY <2>1, FunctionIsSeq
  <2>. QED
    BY <2>2 DEF Y
<1>4. Append(g, f[n + 1]) = f
  <2> DEFINE Y == Seq(X)
  <2>1. f = [k \in 1 .. n + 1 |-> f[k]]
    OBVIOUS
  <2>2. Append(g, f[n + 1]) = [k \in 1 .. n + 1 |-> IF k = n + 1 THEN f[n + 1] ELSE g[k]]
    <3>. HIDE DEF g
    <3>. QED
      BY <1>3
  <2>3. \A k \in 1 .. n + 1 : (IF k = n + 1 THEN f[n + 1] ELSE g[k]) = f[k]
    OBVIOUS
  <2>. HIDE DEF g
  <2>. QED
    BY <2>1, <2>2, <2>3
<1>. HIDE DEF g
<1>5. FlattenSeq(Append(g, f[n + 1])) = FlattenSeq(g) \o f[n + 1] /\ FlattenSeq(g) \in Seq(X)
  BY <1>2, <1>3, FlattenAppend
<1>. QED
  BY <1>4, <1>5 DEF g

-----------------------------------------------------------------------------
(***************************************************************************)
(* What holds of the parts of every argument list: its words are apart, in *)
(* the registers and the stack that the analysis has reached, and the      *)
(* callee finds them.                                                      *)
(***************************************************************************)
PartsInv(c, parts) ==
  LET s == Run(c, parts)
  IN  /\ s \in StateType(c)
      /\ Len(s.locs) = Len(parts)
      /\ PassedWords(c, parts) \in Seq(Region(0, s.regs, ReservedArgArea(c), s.stack))
      /\ IsInjective(PassedWords(c, parts))
      /\ FixedWords(c, parts) \in Seq(WordType)
      /\ ObjectHomes(c, parts) \in Seq(HomeType(c))
      /\ Matched(PassedWords(c, parts), FixedWords(c, parts), ToSet(ObjectHomes(c, parts)))

LEMMA PassedTyped ==
  ASSUME NEW c, NEW parts, PartsInv(c, parts)
  PROVE  PassedWords(c, parts) \in Seq(WordType)
<1>1. PICK s : s = Run(c, parts) /\ s \in StateType(c)
  BY DEF PartsInv
<1>2. s.regs \in Nat /\ s.stack \in Nat /\ ReservedArgArea(c) \in Nat
  BY <1>1 DEF StateType, ReservedArgArea
<1>3. Region(0, s.regs, ReservedArgArea(c), s.stack) \subseteq WordType
  BY <1>2 DEF Region, WordType, InReg, OnStack
<1>4. PassedWords(c, parts) \in Seq(Region(0, s.regs, ReservedArgArea(c), s.stack))
  BY <1>1 DEF PartsInv
<1>. QED
  BY <1>3, <1>4

LEMMA EmptyParts ==
  ASSUME NEW c \in ConvType
  PROVE  /\ PartsInv(c, <<>>)
         /\ PassedWords(c, <<>>) = <<>> /\ FixedWords(c, <<>>) = <<>>
         /\ ObjectHomes(c, <<>>) = <<>>
<1>1. Run(c, <<>>) = [regs |-> 0, stack |-> ReservedArgArea(c), locs |-> <<>>]
  BY RunEmpty
<1>2. Run(c, <<>>) \in StateType(c)
  BY <1>1, Start
<1>3. \A f : [k \in {} |-> f[k]] = <<>>
  OBVIOUS
<1>4. DOMAIN <<>> = {} /\ Len(<<>>) = 0
  OBVIOUS
<1>5. PassedWords(c, <<>>) = <<>>
  BY <1>4, FlattenEmpty DEF PassedWords
<1>6. FixedWords(c, <<>>) = <<>>
  BY <1>4, FlattenEmpty DEF FixedWords
<1>7. ObjectHomes(c, <<>>) = <<>>
  BY <1>4, FlattenEmpty DEF ObjectHomes
<1>8. IsInjective(<<>>)
  BY <1>4 DEF IsInjective
<1>9. Matched(<<>>, <<>>, ToSet(<<>>))
  BY <1>4 DEF Matched
<1>10. Len(Run(c, <<>>).locs) = 0
  BY <1>1, <1>4
<1>11. \A X : <<>> \in Seq(X)
  OBVIOUS
<1>. QED
  BY <1>2, <1>4, <1>5, <1>6, <1>7, <1>8, <1>9, <1>10, <1>11 DEF PartsInv

(***************************************************************************)
(* One part more: its location, and its words behind the others.           *)
(***************************************************************************)
Extended(c, parts, p, loc) ==
  LET tt == Append(parts, p)
  IN  /\ Fits(c, Run(c, parts), Run(c, tt), p, loc)
      /\ PassedWords(c, tt) = PassedWords(c, parts) \o LocWords(p, loc)
      /\ FixedWords(c, tt) = FixedWords(c, parts) \o FoundWords(c, p, loc)
      /\ ObjectHomes(c, tt) = ObjectHomes(c, parts) \o ByValHomes(c, p, loc)

LEMMA PartsExtend ==
  ASSUME NEW c \in ConvType, NEW parts \in Seq(PartType), NEW p \in PartType,
         Len(Run(c, parts).locs) = Len(parts)
  PROVE  /\ \E loc : Extended(c, parts, p, loc)
         /\ Run(c, Append(parts, p)) \in StateType(c)
         /\ Len(Run(c, Append(parts, p)).locs) = Len(parts) + 1
<1> DEFINE tt == Append(parts, p)
           N == Len(parts)
<1>1. PICK s \in StateType(c) : s = Run(c, parts) /\ Len(s.locs) = N
  BY RunAppend
<1>2. PICK t : t = Run(c, tt) /\ t = Assign(c, s, p)
  BY <1>1, RunAppend
<1>3. t \in StateType(c) /\ \E loc : Fits(c, s, t, p, loc)
  BY <1>2, AssignFits
<1>4. PICK loc : Fits(c, s, t, p, loc)
  BY <1>3
<1>5. loc \in LocType /\ t.locs = Append(s.locs, loc) /\ s.locs \in Seq(LocType)
  BY <1>4 DEF Fits, StateType
<1>6. /\ N \in Nat /\ Len(tt) = N + 1 /\ tt[N + 1] = p /\ DOMAIN tt = 1 .. N + 1
      /\ DOMAIN parts = 1 .. N
      /\ \A k \in 1 .. N : tt[k] = parts[k]
      /\ \A k \in 1 .. N + 1 : tt[k] \in PartType
  OBVIOUS
<1>7. /\ Len(t.locs) = N + 1 /\ t.locs[N + 1] = loc
      /\ \A k \in 1 .. N : t.locs[k] = s.locs[k]
      /\ \A k \in 1 .. N + 1 : t.locs[k] \in LocType
  BY <1>1, <1>5, <1>6
<1>. HIDE DEF tt, N
<1>8. ASSUME NEW k \in 1 .. N + 1
      PROVE  /\ LocWords(tt[k], t.locs[k]) \in Seq(WordType)
             /\ FoundWords(c, tt[k], t.locs[k]) \in Seq(WordType)
             /\ ByValHomes(c, tt[k], t.locs[k]) \in Seq([reg : Int, off : Int])
  <2>1. tt[k] \in PartType /\ t.locs[k] \in LocType
    BY <1>6, <1>7
  <2>2. ASSUME NEW q \in PartType, NEW l \in LocType
        PROVE  /\ FoundWords(c, q, l) \in Seq(WordType)
               /\ ByValHomes(c, q, l) \in Seq([reg : Int, off : Int])
    <3>1. PICK n \in Nat : n = q.size \div 4
      BY PartSize
    <3>2. PICK f \in Nat, m \in Nat, a \in Nat : f = l.first /\ m = l.num /\ a = l.addr
      BY DEF LocType
    <3>3. PICK o \in Int : o = ByValOffset(c, l)
      BY <3>2 DEF ByValOffset, ReservedArgArea, NumIntArgRegs, RegSize
    <3>4. CASE q.byval
      <4>1. FoundWords(c, q, l) = [w \in 1 .. n |-> OnStack(o + 4 * (w - 1))]
        BY <3>1, <3>3, <3>4 DEF FoundWords, Words, RegSize
      <4>2. \A w \in 1 .. n : OnStack(o + 4 * (w - 1)) \in WordType
        BY DEF OnStack, WordType
      <4>3. FoundWords(c, q, l) \in Seq(WordType)
        BY <4>1, <4>2, FunctionIsSeq
      <4>4. ByValHomes(c, q, l) = [i \in 1 .. m |-> [reg |-> f + i - 1, off |-> o + 4 * (i - 1)]]
        BY <3>2, <3>3, <3>4 DEF ByValHomes, Homes, RegSize
      <4>5. \A i \in 1 .. m : [reg |-> f + i - 1, off |-> o + 4 * (i - 1)] \in [reg : Int, off : Int]
        OBVIOUS
      <4>6. ByValHomes(c, q, l) \in Seq([reg : Int, off : Int])
        BY <4>4, <4>5, FunctionIsSeq
      <4>. QED
        BY <4>3, <4>6
    <3>5. CASE ~q.byval
      <4>1. FoundWords(c, q, l) = LocWords(q, l) /\ ByValHomes(c, q, l) = <<>>
        BY <3>5 DEF FoundWords, ByValHomes
      <4>. QED
        BY <4>1, LocWordsTyped
    <3>. QED
      BY <3>4, <3>5
  <2>. QED
    BY <2>1, <2>2, LocWordsTyped
<1>9. PassedWords(c, tt) = PassedWords(c, parts) \o LocWords(p, loc)
  <2> DEFINE F == [k \in 1 .. N + 1 |-> LocWords(tt[k], t.locs[k])]
             G == [k \in 1 .. N |-> F[k]]
  <2>1. F \in [1 .. N + 1 -> Seq(WordType)]
    BY <1>8
  <2>2. PassedWords(c, tt) = FlattenSeq(F)
    BY <1>2, <1>6 DEF PassedWords
  <2>3. G = [k \in 1 .. N |-> LocWords(parts[k], s.locs[k])]
    BY <1>6, <1>7
  <2>4. PassedWords(c, parts) = FlattenSeq(G)
    <3>. HIDE DEF G, F
    <3>. QED
      BY <1>1, <1>6, <2>3 DEF PassedWords
  <2>5. F[N + 1] = LocWords(p, loc)
    BY <1>6, <1>7
  <2>. HIDE DEF F
  <2>6. FlattenSeq(F) = FlattenSeq(G) \o F[N + 1]
    BY <1>6, <2>1, FlattenLast
  <2>. QED
    BY <2>2, <2>4, <2>5, <2>6
<1>10. FixedWords(c, tt) = FixedWords(c, parts) \o FoundWords(c, p, loc)
  <2> DEFINE F == [k \in 1 .. N + 1 |-> FoundWords(c, tt[k], t.locs[k])]
             G == [k \in 1 .. N |-> F[k]]
  <2>1. F \in [1 .. N + 1 -> Seq(WordType)]
    BY <1>8
  <2>2. FixedWords(c, tt) = FlattenSeq(F)
    BY <1>2, <1>6 DEF FixedWords
  <2>3. G = [k \in 1 .. N |-> FoundWords(c, parts[k], s.locs[k])]
    BY <1>6, <1>7
  <2>4. FixedWords(c, parts) = FlattenSeq(G)
    <3>. HIDE DEF G, F
    <3>. QED
      BY <1>1, <1>6, <2>3 DEF FixedWords
  <2>5. F[N + 1] = FoundWords(c, p, loc)
    BY <1>6, <1>7
  <2>. HIDE DEF F
  <2>6. FlattenSeq(F) = FlattenSeq(G) \o F[N + 1]
    BY <1>6, <2>1, FlattenLast
  <2>. QED
    BY <2>2, <2>4, <2>5, <2>6
<1>11. ObjectHomes(c, tt) = ObjectHomes(c, parts) \o ByValHomes(c, p, loc)
  <2> DEFINE F == [k \in 1 .. N + 1 |-> ByValHomes(c, tt[k], t.locs[k])]
             G == [k \in 1 .. N |-> F[k]]
  <2>1. F \in [1 .. N + 1 -> Seq([reg : Int, off : Int])]
    BY <1>8
  <2>2. ObjectHomes(c, tt) = FlattenSeq(F)
    BY <1>2, <1>6 DEF ObjectHomes
  <2>3. G = [k \in 1 .. N |-> ByValHomes(c, parts[k], s.locs[k])]
    BY <1>6, <1>7
  <2>4. ObjectHomes(c, parts) = FlattenSeq(G)
    <3>. HIDE DEF G, F
    <3>. QED
      BY <1>1, <1>6, <2>3 DEF ObjectHomes
  <2>5. F[N + 1] = ByValHomes(c, p, loc)
    BY <1>6, <1>7
  <2>. HIDE DEF F
  <2>6. FlattenSeq(F) = FlattenSeq(G) \o F[N + 1]
    BY <1>6, <2>1, FlattenLast
  <2>. QED
    BY <2>2, <2>4, <2>5, <2>6
<1>12. Extended(c, parts, p, loc)
  BY <1>1, <1>2, <1>4, <1>9, <1>10, <1>11 DEF Extended, tt
<1>13. Run(c, tt) \in StateType(c) /\ Len(Run(c, tt).locs) = N + 1
  BY <1>2, <1>3, <1>7
<1>. QED
  BY <1>12, <1>13 DEF tt, N

LEMMA ToSetConcat ==
  ASSUME NEW X, NEW s \in Seq(X), NEW t \in Seq(X)
  PROVE  ToSet(s \o t) = ToSet(s) \cup ToSet(t)
<1> DEFINE u == s \o t
<1>1. /\ Len(u) = Len(s) + Len(t)
      /\ \A i \in 1 .. Len(s) : u[i] = s[i]
      /\ \A i \in 1 .. Len(t) : u[Len(s) + i] = t[i]
      /\ \A i \in 1 .. Len(s) + Len(t) :
           i \in 1 .. Len(s) \/ (i - Len(s) \in 1 .. Len(t) /\ i = Len(s) + (i - Len(s)))
  BY Concat
<1>0. u \in Seq(X)
  OBVIOUS
<1>2. /\ DOMAIN u = 1 .. Len(s) + Len(t) /\ DOMAIN s = 1 .. Len(s) /\ DOMAIN t = 1 .. Len(t)
      /\ Len(s) \in Nat /\ Len(t) \in Nat
  BY <1>0, <1>1
<1>. HIDE DEF u
<1>3. ASSUME NEW i \in 1 .. Len(s) + Len(t) PROVE u[i] \in ToSet(s) \cup ToSet(t)
  <2>1. CASE i \in 1 .. Len(s)
    BY <1>1, <1>2, <2>1 DEF ToSet
  <2>2. CASE i - Len(s) \in 1 .. Len(t) /\ i = Len(s) + (i - Len(s))
    <3>1. PICK k \in 1 .. Len(t) : i = Len(s) + k
      BY <2>2
    <3>. QED
      BY <1>1, <1>2, <3>1 DEF ToSet
  <2>. QED
    BY <1>1, <2>1, <2>2
<1>4. ASSUME NEW i \in 1 .. Len(s) PROVE s[i] \in ToSet(u)
  <2>1. i \in DOMAIN u /\ u[i] = s[i]
    BY <1>1, <1>2
  <2>. QED
    BY <2>1 DEF ToSet
<1>5. ASSUME NEW i \in 1 .. Len(t) PROVE t[i] \in ToSet(u)
  <2>1. Len(s) + i \in DOMAIN u /\ u[Len(s) + i] = t[i]
    BY <1>1, <1>2
  <2>. QED
    BY <2>1 DEF ToSet
<1>6. ToSet(u) \subseteq ToSet(s) \cup ToSet(t)
  BY <1>2, <1>3 DEF ToSet
<1>7. ToSet(s) \subseteq ToSet(u)
  BY <1>2, <1>4 DEF ToSet
<1>8. ToSet(t) \subseteq ToSet(u)
  BY <1>2, <1>5 DEF ToSet
<1>. QED
  BY <1>6, <1>7, <1>8 DEF u

LEMMA PartsInvAppend ==
  ASSUME NEW c \in ConvType, NEW parts \in Seq(PartType), NEW p \in PartType,
         PartsInv(c, parts)
  PROVE  PartsInv(c, Append(parts, p)) /\ \E loc : Extended(c, parts, p, loc)
<1> DEFINE tt == Append(parts, p)
<1>1. PICK s \in StateType(c) : s = Run(c, parts) /\ Len(s.locs) = Len(parts)
  BY DEF PartsInv
<1>2. PICK t \in StateType(c) : t = Run(c, tt) /\ Len(t.locs) = Len(parts) + 1
  BY <1>1, PartsExtend
<1>3. PICK loc : Extended(c, parts, p, loc)
  BY <1>1, PartsExtend
<1>4. Fits(c, s, t, p, loc)
  BY <1>1, <1>2, <1>3 DEF Extended
<1>5. PICK r \in Nat, rr \in Nat, st \in Nat, sst \in Nat, z \in Nat :
        /\ r = s.regs /\ rr = t.regs /\ st = s.stack /\ sst = t.stack
        /\ z = ReservedArgArea(c) /\ r <= rr /\ st <= sst /\ z <= st
  <2>1. ReservedArgArea(c) \in Nat
    BY DEF ReservedArgArea
  <2>2. s.regs \in Nat /\ t.regs \in Nat /\ s.stack \in Nat /\ t.stack \in Nat
    BY DEF StateType
  <2>3. s.regs <= t.regs /\ s.stack <= t.stack
    BY <1>4 DEF Fits
  <2>4. ReservedArgArea(c) <= s.stack
    BY <2>1, <2>2 DEF StateType, Sane
  <2>. QED
    BY <2>1, <2>2, <2>3, <2>4
<1>6. /\ PassedWords(c, parts) \in Seq(Region(0, r, z, st))
      /\ LocWords(p, loc) \in Seq(Region(r, rr, st, sst))
  BY <1>1, <1>4, <1>5, LocWordsFit DEF PartsInv
<1>7. PassedWords(c, tt) \in Seq(Region(0, rr, z, sst))
  <2> DEFINE U == Region(0, rr, z, sst)
  <2>1. Region(0, r, z, st) \subseteq U /\ Region(r, rr, st, sst) \subseteq U
    <3>1. 0 \in Int /\ 0 <= 0 /\ 0 <= r /\ z <= z /\ sst <= sst /\ rr <= rr
      BY <1>5
    <3>. QED
      BY <1>5, <3>1, RegionGrows
  <2>. HIDE DEF U
  <2>2. PassedWords(c, parts) \in Seq(U) /\ LocWords(p, loc) \in Seq(U)
    BY <1>6, <2>1
  <2>3. PassedWords(c, parts) \o LocWords(p, loc) \in Seq(U)
    BY <2>2
  <2>. QED
    BY <1>3, <2>3 DEF Extended, U
<1>8. IsInjective(PassedWords(c, tt))
  <2>1. Region(0, r, z, st) \cap Region(r, rr, st, sst) = {}
    <3>1. 0 \in Nat
      OBVIOUS
    <3>. QED
      BY SMTT(60), <1>5, <3>1, RegionsApart
  <2>2. IsInjective(LocWords(p, loc))
    BY <1>4, LocWordsApart DEF Fits
  <2>3. IsInjective(PassedWords(c, parts) \o LocWords(p, loc))
    BY <1>6, <2>1, <2>2, InjectiveJoin DEF PartsInv
  <2>. QED
    BY <1>3, <2>3 DEF Extended
<1>9. FixedWords(c, tt) \in Seq(WordType)
  <2>1. FixedWords(c, parts) \in Seq(WordType) /\ FoundWords(c, p, loc) \in Seq(WordType)
    BY <1>4, FoundWordsMatch DEF PartsInv
  <2>. QED
    BY <1>3, <2>1 DEF Extended
<1>10. /\ ObjectHomes(c, parts) \in Seq(HomeType(c))
       /\ ByValHomes(c, p, loc) \in Seq(HomeType(c))
  BY <1>4, ByValHomesTyped DEF PartsInv
<1>11. /\ ObjectHomes(c, tt) \in Seq(HomeType(c))
       /\ ToSet(ObjectHomes(c, tt)) = ToSet(ObjectHomes(c, parts)) \cup ToSet(ByValHomes(c, p, loc))
  <2>1. ObjectHomes(c, parts) \o ByValHomes(c, p, loc) \in Seq(HomeType(c))
    BY <1>10
  <2>. QED
    BY <1>3, <1>10, <2>1, ToSetConcat DEF Extended
<1>12. Matched(PassedWords(c, tt), FixedWords(c, tt), ToSet(ObjectHomes(c, tt)))
  <2>1. Region(0, r, z, st) \subseteq WordType /\ Region(r, rr, st, sst) \subseteq WordType
    BY SMTT(60), <1>5 DEF Region, WordType, InReg, OnStack
  <2>2. PassedWords(c, parts) \in Seq(WordType) /\ LocWords(p, loc) \in Seq(WordType)
    BY <1>6, <2>1
  <2>3. FixedWords(c, parts) \in Seq(WordType) /\ FoundWords(c, p, loc) \in Seq(WordType)
    BY <1>4, FoundWordsMatch DEF PartsInv
  <2>4. /\ Matched(PassedWords(c, parts), FixedWords(c, parts), ToSet(ObjectHomes(c, parts)))
        /\ Matched(LocWords(p, loc), FoundWords(c, p, loc), ToSet(ByValHomes(c, p, loc)))
    BY <1>4, FoundWordsMatch DEF PartsInv
  <2>5. Matched(PassedWords(c, parts) \o LocWords(p, loc),
                FixedWords(c, parts) \o FoundWords(c, p, loc), ToSet(ObjectHomes(c, tt)))
    <3>. DEFINE K == ToSet(ObjectHomes(c, tt))
    <3>1. ToSet(ObjectHomes(c, parts)) \cup ToSet(ByValHomes(c, p, loc)) \subseteq K
      BY <1>11
    <3>. HIDE DEF K
    <3>2. Matched(PassedWords(c, parts) \o LocWords(p, loc),
                  FixedWords(c, parts) \o FoundWords(c, p, loc), K)
      BY <2>2, <2>3, <2>4, <3>1, MatchedJoin
    <3>. QED
      BY <3>2 DEF K
  <2>. QED
    BY <1>3, <2>5 DEF Extended
<1>13. PartsInv(c, tt)
  <2>1. Len(tt) = Len(parts) + 1
    OBVIOUS
  <2>. HIDE DEF tt
  <2>. QED
    BY <1>2, <1>5, <1>7, <1>8, <1>9, <1>11, <1>12, <2>1 DEF PartsInv
<1>. QED
  BY <1>3, <1>13

-----------------------------------------------------------------------------
(***************************************************************************)
(* The parts of an argument list with one argument more.                   *)
(***************************************************************************)
I64Low  == [I32 EXCEPT !.align = 8]
I64High == [I32 EXCEPT !.align = 1]

LEMMA PartsTyped ==
  /\ I32 \in Scalars /\ I64Low \in Scalars /\ I64High \in Scalars
  /\ I64Low.align = 8 /\ I64High.align = 1 /\ I32.align = 4
BY DEF I32, I64Low, I64High, Scalars

LEMMA PartsOfArg ==
  ASSUME NEW a \in ArgType
  PROVE  /\ a = I64 => PartsOf(a) = <<I64Low, I64High>>
         /\ a # I64 => PartsOf(a) = <<a>> /\ a \in PartType
         /\ PartsOf(a) \in Seq(PartType)
<1>1. CASE a = I64
  BY <1>1, PartsTyped DEF PartsOf, I64Low, I64High, PartType
<1>2. CASE a # I64
  <2>1. a \in PartType
    BY <1>2, PartsTyped DEF PartType, ArgType
  <2>2. PartsOf(a) = <<a>>
    BY <1>2 DEF PartsOf
  <2>. QED
    BY <1>2, <2>1, <2>2
<1>. QED
  BY <1>1, <1>2

LEMMA PartsEmpty ==
  Parts(<<>>) = <<>>
<1>1. DOMAIN <<>> = {}
  OBVIOUS
<1>. QED
  BY <1>1, FlattenEmpty DEF Parts

LEMMA PartsAppend ==
  ASSUME NEW l \in Seq(ArgType), NEW a \in ArgType
  PROVE  /\ Parts(l) \in Seq(PartType)
         /\ Parts(Append(l, a)) = Parts(l) \o PartsOf(a)
         /\ a # I64 => Parts(Append(l, a)) = Append(Parts(l), a)
         /\ a = I64 => Parts(Append(l, a)) = Append(Append(Parts(l), I64Low), I64High)
<1> DEFINE N == Len(l)
           tt == Append(l, a)
           F == [k \in 1 .. N + 1 |-> PartsOf(tt[k])]
           G == [k \in 1 .. N |-> F[k]]
<1>1. /\ N \in Nat /\ DOMAIN tt = 1 .. N + 1 /\ DOMAIN l = 1 .. N /\ tt[N + 1] = a
      /\ \A k \in 1 .. N : tt[k] = l[k]
      /\ \A k \in 1 .. N + 1 : tt[k] \in ArgType
  OBVIOUS
<1>. HIDE DEF N, tt
<1>2. F \in [1 .. N + 1 -> Seq(PartType)]
  BY <1>1, PartsOfArg
<1>3. Parts(tt) = FlattenSeq(F)
  BY <1>1 DEF Parts
<1>4. Parts(l) = FlattenSeq(G)
  <2>1. G = [k \in 1 .. N |-> PartsOf(l[k])]
    BY <1>1
  <2>. HIDE DEF G
  <2>. QED
    BY <1>1, <2>1 DEF Parts
<1>5. F[N + 1] = PartsOf(a)
  BY <1>1
<1>6. FlattenSeq(F) = FlattenSeq(G) \o F[N + 1] /\ FlattenSeq(G) \in Seq(PartType)
  <2>. HIDE DEF F
  <2>. QED
    BY <1>1, <1>2, FlattenLast
<1>7. Parts(l) \in Seq(PartType) /\ Parts(tt) = Parts(l) \o PartsOf(a)
  <2>. HIDE DEF F, G
  <2>. QED
    BY <1>3, <1>4, <1>5, <1>6
<1>8. PICK q : q = Parts(l) /\ q \in Seq(PartType)
  BY <1>7
<1>9. ASSUME a # I64 PROVE Parts(tt) = Append(q, a)
  <2>1. PartsOf(a) = <<a>>
    BY <1>9, PartsOfArg
  <2>2. q \o <<a>> = Append(q, a)
    BY <1>8
  <2>. QED
    BY <1>7, <1>8, <2>1, <2>2
<1>10. ASSUME a = I64 PROVE Parts(tt) = Append(Append(q, I64Low), I64High)
  <2>1. PartsOf(a) = <<I64Low, I64High>>
    BY <1>10, PartsOfArg
  <2>2. q \o <<I64Low, I64High>> = Append(Append(q, I64Low), I64High)
    <3>. HIDE DEF I64Low, I64High
    <3>. QED
      BY <1>8
  <2>. QED
    BY <1>7, <1>8, <2>1, <2>2
<1>. QED
  BY <1>7, <1>8, <1>9, <1>10 DEF tt

LEMMA ListInvAppend ==
  ASSUME NEW c \in ConvType, NEW l \in Seq(ArgType), NEW a \in ArgType,
         PartsInv(c, Parts(l))
  PROVE  PartsInv(c, Parts(Append(l, a)))
<1>1. PICK q \in Seq(PartType) : q = Parts(l)
  BY PartsAppend
<1>2. CASE a = I64
  <2>1. I64Low \in PartType /\ I64High \in PartType
    BY PartsTyped DEF PartType
  <2>2. PICK qq : qq = Append(q, I64Low) /\ qq \in Seq(PartType)
    <3>1. Append(q, I64Low) \in Seq(PartType)
      BY <2>1, AppendProperties
    <3>. HIDE DEF I64Low
    <3>. QED
      BY <3>1, Zenon
  <2>3. PartsInv(c, qq)
    BY <1>1, <2>1, <2>2, PartsInvAppend
  <2>4. PartsInv(c, Append(qq, I64High))
    BY <2>1, <2>2, <2>3, PartsInvAppend
  <2>. QED
    BY <1>1, <1>2, <2>2, <2>4, PartsAppend
<1>3. CASE a # I64
  <2>1. a \in PartType /\ Parts(Append(l, a)) = Append(q, a)
    BY <1>1, <1>3, PartsOfArg, PartsAppend
  <2>. QED
    BY <1>1, <2>1, PartsInvAppend
<1>. QED
  BY <1>2, <1>3

-----------------------------------------------------------------------------
(***************************************************************************)
(* A scalar of a call that is not "fast" is at the next aligned offset of  *)
(* one sequence that begins with the homes of the argument registers and   *)
(* goes on with the stack.  va_arg walks along that sequence.              *)
(***************************************************************************)
VaNext(c, s) == IF HasHomes(c) /\ s.regs < 2 THEN 4 * s.regs ELSE s.stack
VaWord(c, at) == IF HasHomes(c) /\ at < 8 THEN InReg(at \div 4) ELSE OnStack(at)

ScalarAt(c, s, t, p, loc) ==
  LET at == AlignTo(VaNext(c, s), p.align)
  IN  LocWords(p, loc) = <<VaWord(c, at)>> /\ VaNext(c, t) = at + 4

LEMMA VaNextIs ==
  ASSUME NEW c \in ConvType, NEW s \in StateType(c), c.conv # "fast"
  PROVE  \E n \in Nat : n = VaNext(c, s) /\ n % 4 = 0 /\ (HasHomes(c) => 4 * s.regs <= n)
<1>1. PICK r \in 0 .. 2, st \in Nat : r = s.regs /\ st = s.stack /\ Sane(c, r, st)
  BY DEF StateType
<1>2. CASE HasHomes(c) /\ r < 2
  <2>1. VaNext(c, s) = 4 * r
    BY <1>1, <1>2 DEF VaNext
  <2>2. (4 * r) % 4 = 0 /\ 4 * r \in Nat
    BY <1>1
  <2>. QED
    BY <1>1, <2>1, <2>2
<1>3. CASE ~(HasHomes(c) /\ r < 2)
  <2>1. VaNext(c, s) = st
    BY <1>1, <1>3 DEF VaNext
  <2>2. HasHomes(c) => st >= 8
    BY <1>1 DEF Sane, HasHomes, ReservedArgArea
  <2>3. st % 4 = 0
    BY <1>1 DEF Sane
  <2>. QED
    BY <1>1, <2>1, <2>2, <2>3
<1>. QED
  BY <1>2, <1>3

LEMMA ScalarWords ==
  ASSUME NEW p \in Scalars, NEW loc
  PROVE  LocWords(p, loc) = <<WordOfLoc(loc, 1)>>
<1>1. p.size \div 4 = 1
  BY DEF Scalars
<1>2. LocWords(p, loc) = [w \in 1 .. 1 |-> WordOfLoc(loc, w)]
  BY <1>1 DEF LocWords, Words, RegSize
<1>. QED
  BY <1>2

LEMMA SameLoc ==
  ASSUME NEW X, NEW s \in Seq(X), NEW x, NEW y, Append(s, x) = Append(s, y)
  PROVE  x = y
<1>1. Append(s, x)[Len(s) + 1] = x /\ Append(s, y)[Len(s) + 1] = y
  OBVIOUS
<1>. QED
  BY <1>1

LEMMA ScalarIsAt ==
  ASSUME NEW c \in ConvType, c.conv # "fast", NEW s \in StateType(c),
         NEW p \in Scalars, NEW loc, Fits(c, s, Assign(c, s, p), p, loc)
  PROVE  ScalarAt(c, s, Assign(c, s, p), p, loc)
<1>1. PICK r \in 0 .. 2, st \in Nat : r = s.regs /\ st = s.stack /\ Sane(c, r, st)
  BY DEF StateType
<1>2. p.byval = FALSE /\ p.align \in {1, 4, 8}
  BY DEF Scalars
<1>3. s.locs \in Seq(LocType) /\ Assign(c, s, p).locs = Append(s.locs, loc)
  BY DEF StateType, Fits
<1>4. LocWords(p, loc) = <<WordOfLoc(loc, 1)>>
  BY ScalarWords
<1>5. CASE c.abi = "O32" /\ (r = 0 \/ (r = 1 /\ p.align # 8))
  <2>1. Assign(c, s, p) = Place(s, r + 1, st, Loc(r, 1, 0))
    BY <1>1, <1>2, <1>5 DEF Assign, CC_Cpu0O32
  <2>2. loc = Loc(r, 1, 0)
    <3>1. Append(s.locs, loc) = Append(s.locs, Loc(r, 1, 0))
      BY <1>3, <2>1 DEF Place
    <3>. QED
      BY <1>3, <3>1, SameLoc
  <2>3. WordOfLoc(loc, 1) = InReg(r)
    BY <1>1, <2>2 DEF WordOfLoc, Loc
  <2>4. HasHomes(c)
    BY <1>5 DEF HasHomes
  <2>5. st = 8
    BY <1>1, <1>5, <2>4 DEF Sane
  <2>6. VaNext(c, s) = 4 * r /\ r < 2
    BY <1>1, <1>5, <2>4 DEF VaNext
  <2>7. AlignTo(4 * r, p.align) = 4 * r
    <3>1. CASE r = 0
      <4>1. AlignTo(0, 1) = 0 /\ AlignTo(0, 4) = 0 /\ AlignTo(0, 8) = 0
        BY DEF AlignTo
      <4>. QED
        BY <1>2, <3>1, <4>1
    <3>2. CASE r = 1
      <4>1. AlignTo(4, 1) = 4 /\ AlignTo(4, 4) = 4
        BY DEF AlignTo
      <4>. QED
        BY <1>2, <1>5, <3>2, <4>1
    <3>. QED
      BY <1>5, <3>1, <3>2
  <2>8. VaWord(c, 4 * r) = InReg(r)
    <3>1. 4 * r < 8 /\ (4 * r) \div 4 = r
      BY <2>6
    <3>. QED
      BY <2>4, <3>1 DEF VaWord
  <2>9. VaNext(c, Assign(c, s, p)) = 4 * r + 4
    <3>1. Assign(c, s, p).regs = r + 1 /\ Assign(c, s, p).stack = 8
      BY <2>1, <2>5 DEF Place
    <3>2. CASE r = 0
      BY <2>4, <3>1, <3>2 DEF VaNext
    <3>3. CASE r = 1
      BY <2>4, <3>1, <3>3 DEF VaNext
    <3>. QED
      BY <1>5, <3>2, <3>3
  <2>. QED
    BY <1>4, <2>3, <2>6, <2>7, <2>8, <2>9 DEF ScalarAt
<1>6. CASE ~(c.abi = "O32" /\ (r = 0 \/ (r = 1 /\ p.align # 8)))
  <2>1. PICK rr \in 0 .. 2 : /\ Assign(c, s, p) = AllocateStack(s, p, rr)
                             /\ HasHomes(c) => rr = 2
    <3>1. CASE c.abi = "O32"
      <4>1. Assign(c, s, p) = AllocateStack(s, p, 2)
        BY <1>1, <1>2, <1>6, <3>1 DEF Assign, CC_Cpu0O32
      <4>. QED
        BY <4>1
    <3>2. CASE c.abi = "S32"
      <4>1. Assign(c, s, p) = AllocateStack(s, p, r) /\ ~HasHomes(c)
        BY <1>1, <1>2, <3>2 DEF Assign, CC_Cpu0S32, HasHomes
      <4>. QED
        BY <4>1
    <3>. QED
      BY <3>1, <3>2 DEF ConvType
  <2>2. st % 4 = 0 /\ (HasHomes(c) => 8 <= st)
    BY <1>1 DEF Sane, HasHomes, ReservedArgArea
  <2>3. PICK a \in Nat : a = AlignTo(st, p.align) /\ st <= a /\ a % 4 = 0
    <3>1. CASE p.align = 1
      BY <2>2, <3>1, Aligned
    <3>2. CASE p.align = 4
      BY <2>2, <3>2, Aligned
    <3>3. CASE p.align = 8
      BY <2>2, <3>3, Aligned
    <3>. QED
      BY <1>2, <3>1, <3>2, <3>3
  <2>4. Assign(c, s, p) = Place(s, rr, a + 4, Loc(0, 0, a))
    BY <1>1, <2>1, <2>3 DEF AllocateStack, RegSize
  <2>5. loc = Loc(0, 0, a)
    <3>1. Append(s.locs, loc) = Append(s.locs, Loc(0, 0, a))
      BY <1>3, <2>4 DEF Place
    <3>. QED
      BY <1>3, <3>1, SameLoc
  <2>6. WordOfLoc(loc, 1) = OnStack(a)
    <3>1. a + 4 * (1 - 0 - 1) = a
      OBVIOUS
    <3>. QED
      BY <2>5, <3>1 DEF WordOfLoc, Loc, RegSize
  <2>7. AlignTo(VaNext(c, s), p.align) = a
    <3>1. CASE HasHomes(c) /\ r < 2
      <4>1. r = 1 /\ p.align = 8
        BY <1>1, <1>6, <3>1 DEF HasHomes
      <4>2. st = 8
        BY <1>1, <3>1 DEF Sane
      <4>3. VaNext(c, s) = 4
        BY <1>1, <3>1, <4>1 DEF VaNext
      <4>. QED
        BY <2>3, <4>1, <4>2, <4>3, AlignedSmall
    <3>2. CASE ~(HasHomes(c) /\ r < 2)
      <4>1. VaNext(c, s) = st
        BY <1>1, <3>2 DEF VaNext
      <4>. QED
        BY <2>3, <4>1
    <3>. QED
      BY <3>1, <3>2
  <2>8. VaWord(c, a) = OnStack(a)
    BY <2>2, <2>3 DEF VaWord
  <2>9. VaNext(c, Assign(c, s, p)) = a + 4
    BY <2>1, <2>4 DEF VaNext, Place
  <2>. QED
    BY <1>4, <2>6, <2>7, <2>8, <2>9 DEF ScalarAt
<1>. QED
  BY <1>5, <1>6

(***************************************************************************)
(* A scalar argument: its words, and those that va_arg looks at.           *)
(***************************************************************************)
VaSlots(at, n) == [w \in 1 .. n |-> OnStack(at + 4 * (w - 1))]
FreeHomes(c, r) == {[reg |-> i, off |-> 4 * i] : i \in IF HasHomes(c) THEN r .. 1 ELSE {}}

Walked(c, l, a, sent) ==
  LET s  == Analyze(c, l)
      at == AlignTo(VaNext(c, s), a.align)
      n  == a.size \div 4
  IN  /\ sent \in Seq(WordType)
      /\ PassedWords(c, Parts(Append(l, a))) = PassedWords(c, Parts(l)) \o sent
      /\ VaNext(c, Analyze(c, Append(l, a))) = at + a.size
      /\ s.regs <= Analyze(c, Append(l, a)).regs
      /\ VaSlots(at, n) \in Seq(WordType)
      /\ Matched(sent, VaSlots(at, n), FreeHomes(c, s.regs))

LEMMA VaWordFound ==
  ASSUME NEW c, NEW r \in Nat, NEW at \in Nat, at % 4 = 0, HasHomes(c) => 4 * r <= at
  PROVE  /\ VaWord(c, at) \in WordType
         /\ \/ OnStack(at) = VaWord(c, at)
            \/ \E h \in FreeHomes(c, r) : VaWord(c, at) = InReg(h.reg) /\ OnStack(at) = OnStack(h.off)
<1>1. CASE HasHomes(c) /\ at < 8
  <2>1. PICK i \in Nat : i = at \div 4 /\ at = 4 * i
    BY <1>1
  <2>2. i \in r .. 1
    BY <1>1, <2>1
  <2>3. VaWord(c, at) = InReg(i)
    BY <1>1, <2>1 DEF VaWord
  <2> DEFINE h == [reg |-> i, off |-> 4 * i]
  <2>4. h \in FreeHomes(c, r)
    BY <1>1, <2>2 DEF FreeHomes
  <2>5. h.reg = i /\ h.off = at
    BY <2>1
  <2>6. InReg(i) \in WordType
    BY DEF InReg, WordType
  <2>. HIDE DEF h
  <2>. QED
    BY <2>3, <2>4, <2>5, <2>6
<1>2. CASE ~(HasHomes(c) /\ at < 8)
  <2>1. OnStack(at) = VaWord(c, at) /\ OnStack(at) \in WordType
    BY <1>2 DEF VaWord, OnStack, WordType
  <2>. QED
    BY <2>1
<1>. QED
  BY <1>1, <1>2

WalkedPart(c, parts, p, at) ==
  LET s == Run(c, parts)
      t == Run(c, Append(parts, p))
  IN  /\ at = AlignTo(VaNext(c, s), p.align)
      /\ PassedWords(c, Append(parts, p)) = PassedWords(c, parts) \o <<VaWord(c, at)>>
      /\ VaNext(c, t) = at + 4 /\ s.regs <= t.regs
      /\ s \in StateType(c) /\ t \in StateType(c)
      /\ at % 4 = 0 /\ (HasHomes(c) => 4 * s.regs <= at)

LEMMA WalkOne ==
  ASSUME NEW c \in ConvType, c.conv # "fast", NEW parts \in Seq(PartType),
         NEW p \in Scalars, PartsInv(c, parts)
  PROVE  \E at \in Nat : WalkedPart(c, parts, p, at)
<1>1. p \in PartType /\ p.align \in {1, 4, 8}
  BY DEF PartType, Scalars
<1>2. PICK loc : Extended(c, parts, p, loc)
  BY <1>1, PartsInvAppend
<1>3. PICK s \in StateType(c) : s = Run(c, parts)
  BY DEF PartsInv
<1>4. PICK t : t = Run(c, Append(parts, p)) /\ t = Assign(c, s, p) /\ t \in StateType(c)
  <2>1. Run(c, Append(parts, p)) = Assign(c, s, p)
    BY <1>1, <1>3, RunAppend
  <2>2. Assign(c, s, p) \in StateType(c)
    BY <1>1, AssignFits
  <2>. QED
    BY <2>1, <2>2
<1>5. Fits(c, s, t, p, loc)
  BY <1>2, <1>3, <1>4 DEF Extended
<1>6. ScalarAt(c, s, t, p, loc)
  BY <1>4, <1>5, ScalarIsAt
<1>7. PICK n \in Nat : n = VaNext(c, s) /\ n % 4 = 0 /\ (HasHomes(c) => 4 * s.regs <= n)
  BY VaNextIs
<1>8. PICK at \in Nat : at = AlignTo(n, p.align) /\ n <= at /\ at % 4 = 0
  <2>1. CASE p.align = 1
    BY <1>7, <2>1, Aligned
  <2>2. CASE p.align = 4
    BY <1>7, <2>2, Aligned
  <2>3. CASE p.align = 8
    BY <1>7, <2>3, Aligned
  <2>. QED
    BY <1>1, <2>1, <2>2, <2>3
<1>9. HasHomes(c) => 4 * s.regs <= at
  <2>1. s.regs \in 0 .. 2
    BY DEF StateType
  <2>. QED
    BY <1>7, <1>8, <2>1
<1>10. LocWords(p, loc) = <<VaWord(c, at)>> /\ VaNext(c, t) = at + 4
  BY <1>6, <1>7, <1>8 DEF ScalarAt
<1>11. PassedWords(c, Append(parts, p)) = PassedWords(c, parts) \o <<VaWord(c, at)>>
  BY <1>2, <1>10 DEF Extended
<1>12. s.regs <= t.regs
  BY <1>5 DEF Fits
<1>. QED
  BY <1>3, <1>4, <1>7, <1>8, <1>9, <1>10, <1>11, <1>12 DEF WalkedPart

LEMMA AppendTwice ==
  ASSUME NEW X, NEW z \in Seq(X), NEW x \in X, NEW y \in X
  PROVE  (z \o <<x>>) \o <<y>> = z \o <<x, y>>
<1>1. z \o <<x>> = Append(z, x) /\ Append(z, x) \in Seq(X)
  OBVIOUS
<1>2. \A s \in Seq(X) : s \o <<y>> = Append(s, y)
  OBVIOUS
<1>3. Append(Append(z, x), y) = z \o <<x, y>>
  OBVIOUS
<1>. QED
  BY <1>1, <1>2, <1>3

LEMMA WalkArg ==
  ASSUME NEW c \in ConvType, c.conv # "fast", NEW l \in Seq(ArgType),
         NEW a \in ArgType, a \in {I32, I64}, PartsInv(c, Parts(l))
  PROVE  \E sent : Walked(c, l, a, sent)
<1>1. PICK q \in Seq(PartType) : q = Parts(l)
  BY PartsAppend
<1>2. PICK s : s = Run(c, q) /\ s \in StateType(c) /\ s = Analyze(c, l)
  BY <1>1 DEF PartsInv, Analyze
<1>3. PICK r \in Nat : r = s.regs
  BY <1>2 DEF StateType
<1>4. CASE a = I32
  <2>1. a # I64 /\ a \in Scalars /\ a.align = 4 /\ a.size = 4 /\ a.size \div 4 = 1
    BY <1>4, PartsTyped DEF I32, I64
  <2>2. Parts(Append(l, a)) = Append(q, a)
    BY <1>1, <2>1, PartsAppend
  <2>3. PICK t : t = Run(c, Append(q, a)) /\ t = Analyze(c, Append(l, a))
    BY <2>2 DEF Analyze
  <2>4. PICK at \in Nat :
          /\ at = AlignTo(VaNext(c, s), a.align)
          /\ PassedWords(c, Append(q, a)) = PassedWords(c, q) \o <<VaWord(c, at)>>
          /\ VaNext(c, t) = at + 4 /\ s.regs <= t.regs
          /\ at % 4 = 0 /\ (HasHomes(c) => 4 * r <= at)
    <3>1. PICK at \in Nat : WalkedPart(c, q, a, at)
      BY <1>1, <2>1, WalkOne
    <3>. QED
      BY <1>2, <1>3, <2>3, <3>1 DEF WalkedPart
  <2>5. /\ VaWord(c, at) \in WordType
        /\ \/ OnStack(at) = VaWord(c, at)
           \/ \E h \in FreeHomes(c, r) : VaWord(c, at) = InReg(h.reg) /\ OnStack(at) = OnStack(h.off)
    BY <2>4, VaWordFound
  <2>6. VaSlots(at, 1) = <<OnStack(at)>>
    <3>1. at + 4 * (1 - 1) = at
      OBVIOUS
    <3>2. VaSlots(at, 1) = [w \in 1 .. 1 |-> OnStack(at + 4 * (w - 1))]
      BY DEF VaSlots
    <3>. QED
      BY <3>1, <3>2
  <2>7. <<OnStack(at)>> \in Seq(WordType) /\ <<VaWord(c, at)>> \in Seq(WordType)
    <3>1. OnStack(at) \in WordType
      BY DEF OnStack, WordType
    <3>. QED
      BY <2>5, <3>1
  <2>8. Matched(<<VaWord(c, at)>>, <<OnStack(at)>>, FreeHomes(c, r))
    BY <2>5 DEF Matched
  <2>9. Walked(c, l, a, <<VaWord(c, at)>>)
    BY <1>1, <1>2, <1>3, <2>1, <2>2, <2>3, <2>4, <2>6, <2>7, <2>8 DEF Walked
  <2>. QED
    BY <2>9
<1>5. CASE a = I64
  <2>1. a.align = 8 /\ a.size = 8 /\ a.size \div 4 = 2
    BY <1>5 DEF I64
  <2>2. /\ I64Low \in Scalars /\ I64Low.align = 8
        /\ I64High \in Scalars /\ I64High.align = 1
    BY PartsTyped
  <2>3. PICK qq : qq = Append(q, I64Low) /\ qq \in Seq(PartType)
    <3>1. Append(q, I64Low) \in Seq(PartType)
      BY <2>2, AppendProperties DEF PartType
    <3>. QED
      BY <3>1, Zenon
  <2>4. PartsInv(c, qq)
    BY <1>1, <2>2, <2>3, PartsInvAppend DEF PartType
  <2>5. Parts(Append(l, a)) = Append(qq, I64High)
    BY <1>1, <1>5, <2>3, PartsAppend
  <2>6. PICK t : t = Run(c, qq)
    OBVIOUS
  <2>7. PICK u : u = Run(c, Append(qq, I64High)) /\ u = Analyze(c, Append(l, a))
    BY <2>5 DEF Analyze
  <2>8. PICK at \in Nat :
          /\ at = AlignTo(VaNext(c, s), 8)
          /\ PassedWords(c, qq) = PassedWords(c, q) \o <<VaWord(c, at)>>
          /\ VaNext(c, t) = at + 4 /\ s.regs <= t.regs
          /\ at % 4 = 0 /\ (HasHomes(c) => 4 * r <= at)
    <3>1. PICK at \in Nat : WalkedPart(c, q, I64Low, at)
      BY <1>1, <2>2, WalkOne
    <3>. QED
      BY <1>2, <1>3, <2>2, <2>3, <2>6, <3>1 DEF WalkedPart
  <2>9. PICK b \in Nat :
          /\ b = AlignTo(VaNext(c, t), 1)
          /\ PassedWords(c, Append(qq, I64High)) = PassedWords(c, qq) \o <<VaWord(c, b)>>
          /\ VaNext(c, u) = b + 4 /\ t.regs <= u.regs
          /\ t \in StateType(c) /\ u \in StateType(c)
    <3>1. PICK b \in Nat : WalkedPart(c, qq, I64High, b)
      BY <2>2, <2>3, <2>4, WalkOne
    <3>. QED
      BY <2>2, <2>6, <2>7, <3>1 DEF WalkedPart
  <2>10. b = at + 4 /\ b % 4 = 0 /\ (HasHomes(c) => 4 * r <= b)
    <3>1. at + 4 \in Nat /\ (at + 4) % 4 = 0
      BY <2>8
    <3>2. AlignTo(at + 4, 1) = at + 4
      BY <3>1, Aligned
    <3>. QED
      BY <2>8, <2>9, <3>1, <3>2
  <2>11. /\ VaWord(c, at) \in WordType
         /\ \/ OnStack(at) = VaWord(c, at)
            \/ \E h \in FreeHomes(c, r) : VaWord(c, at) = InReg(h.reg) /\ OnStack(at) = OnStack(h.off)
    BY <2>8, VaWordFound
  <2>12. /\ VaWord(c, b) \in WordType
         /\ \/ OnStack(b) = VaWord(c, b)
            \/ \E h \in FreeHomes(c, r) : VaWord(c, b) = InReg(h.reg) /\ OnStack(b) = OnStack(h.off)
    BY ZenonT(60), <2>10, VaWordFound
  <2>13. VaSlots(at, 2) = <<OnStack(at), OnStack(b)>>
    <3>1. at + 4 * (1 - 1) = at /\ at + 4 * (2 - 1) = b
      BY <2>10
    <3>2. VaSlots(at, 2) = [w \in 1 .. 2 |-> OnStack(at + 4 * (w - 1))]
      BY DEF VaSlots
    <3>3. 1 .. 2 = {1, 2}
      OBVIOUS
    <3>. QED
      BY <3>1, <3>2, <3>3
  <2>14. PICK x, y : x = VaWord(c, at) /\ y = VaWord(c, b)
    OBVIOUS
  <2>15. PICK v, w : v = OnStack(at) /\ w = OnStack(b)
    OBVIOUS
  <2>16. /\ <<v, w>> \in Seq(WordType) /\ <<x, y>> \in Seq(WordType)
         /\ x \in WordType /\ y \in WordType
    <3>1. OnStack(at) \in WordType /\ OnStack(b) \in WordType
      BY DEF OnStack, WordType
    <3>. QED
      BY <2>11, <2>12, <2>14, <2>15, <3>1
  <2>17. Matched(<<x, y>>, <<v, w>>, FreeHomes(c, r))
    BY <2>11, <2>12, <2>14, <2>15 DEF Matched
  <2>18. PassedWords(c, Append(qq, I64High)) = PassedWords(c, q) \o <<x, y>>
    <3>1. PICK z : z = PassedWords(c, q) /\ z \in Seq(WordType)
      BY <1>1, PassedTyped
    <3>2. (z \o <<x>>) \o <<y>> = z \o <<x, y>>
      BY ZenonT(60), <2>16, <3>1, AppendTwice
    <3>. QED
      BY <2>8, <2>9, <2>14, <3>1, <3>2
  <2>19. VaNext(c, u) = at + 8 /\ s.regs <= u.regs
    <3>1. s.regs \in 0 .. 2 /\ t.regs \in 0 .. 2 /\ u.regs \in 0 .. 2
      BY <1>2, <2>9 DEF StateType
    <3>. QED
      BY SMTT(60), <2>8, <2>9, <2>10, <3>1
  <2>20. Walked(c, l, a, <<x, y>>)
    BY <1>1, <1>2, <1>3, <2>1, <2>5, <2>7, <2>8, <2>13, <2>15, <2>16, <2>17, <2>18, <2>19
       DEF Walked
  <2>. QED
    BY <2>20
<1>. QED
  BY <1>4, <1>5

-----------------------------------------------------------------------------
(***************************************************************************)
(* VaArgs, one argument at a time.                                         *)
(***************************************************************************)
VaType == [ap : Int, words : Seq(WordType)]
Extras == {I32, I64}

IsVaArgs(f, c, l, more) ==
  f = [n \in 0 .. Len(more) |->
        IF n = 0 THEN [ap |-> VaArgOffset(c, l), words |-> <<>>]
                 ELSE VaArg(f[n - 1], more[n])]

LEMMA AnalyzeTyped ==
  ASSUME NEW c \in ConvType, NEW l \in Seq(ArgType), PartsInv(c, Parts(l))
  PROVE  Analyze(c, l) \in StateType(c)
BY DEF Analyze, PartsInv

LEMMA VaOffsetTyped ==
  ASSUME NEW c \in ConvType, NEW l, Analyze(c, l) \in StateType(c)
  PROVE  /\ VaArgOffset(c, l) \in Int
         /\ c.conv # "fast" => VaArgOffset(c, l) = VaNext(c, Analyze(c, l))
<1>1. PICK s \in StateType(c) : s = Analyze(c, l)
  OBVIOUS
<1>2. PICK r \in 0 .. 2, st \in Nat : r = s.regs /\ st = s.stack /\ Sane(c, r, st)
  BY DEF StateType
<1>3. AlignTo(st, 4) = st
  BY <1>2, Aligned DEF Sane
<1>4. PICK n \in {0, 2} : n = NumIntArgRegs(c) /\ (c.abi = "O32" <=> n = 2)
  BY DEF NumIntArgRegs
<1>5. PICK z \in {0, 8} : z = ReservedArgArea(c) /\ (HasHomes(c) <=> z = 8)
  BY DEF ReservedArgArea, HasHomes
<1>6. CASE n = r
  <2>1. VaArgOffset(c, l) = st
    BY <1>1, <1>2, <1>3, <1>4, <1>6 DEF VaArgOffset, RegSize
  <2>2. VaNext(c, s) = st
    BY <1>2, <1>4, <1>6 DEF VaNext, HasHomes
  <2>. QED
    BY <1>1, <1>2, <2>1, <2>2
<1>7. CASE n # r
  <2>1. VaArgOffset(c, l) = z - 4 * (n - r)
    BY <1>1, <1>2, <1>4, <1>5, <1>7 DEF VaArgOffset, RegSize
  <2>2. ASSUME c.conv # "fast" PROVE VaNext(c, s) = z - 4 * (n - r)
    <3>1. c.abi = "O32"
      BY <1>2, <1>4, <1>7 DEF Sane, ConvType
    <3>2. n = 2 /\ z = 8 /\ HasHomes(c) /\ r < 2
      BY <1>2, <1>4, <1>5, <1>7, <2>2, <3>1 DEF HasHomes
    <3>3. VaNext(c, s) = 4 * r
      BY <1>2, <3>2 DEF VaNext
    <3>. QED
      BY <1>2, <3>2, <3>3
  <2>3. z - 4 * (n - r) \in Int
    BY <1>2, <1>4, <1>5
  <2>. QED
    BY <1>1, <2>1, <2>2, <2>3
<1>. QED
  BY <1>6, <1>7

LEMMA VaArgTyped ==
  ASSUME NEW v \in VaType, NEW a \in Extras
  PROVE  VaArg(v, a) \in VaType
<1>1. PICK ap \in Int : ap = v.ap /\ v.words \in Seq(WordType)
  BY DEF VaType
<1>2. PICK al \in {4, 8} : al = a.align /\ a.size = al
  BY DEF Extras, I32, I64
<1>3. PICK n \in {1, 2} : n = a.size \div 4
  BY <1>2
<1>4. PICK at \in Int : at = AlignTo(ap, al)
  BY SMTT(60), <1>1, <1>2 DEF AlignTo
<1>5. VaArg(v, a) = [ap |-> at + al,
                     words |-> v.words \o [w \in 1 .. n |-> OnStack(at + 4 * (w - 1))]]
  BY <1>1, <1>2, <1>3, <1>4 DEF VaArg, Words, RegSize
<1>6. [w \in 1 .. n |-> OnStack(at + 4 * (w - 1))] \in Seq(WordType)
  <2>1. \A w \in 1 .. n : OnStack(at + 4 * (w - 1)) \in WordType
    BY <1>3, <1>4 DEF OnStack, WordType
  <2>. QED
    BY <1>3, <2>1, FunctionIsSeq
<1>7. PICK q : q = v.words \o [w \in 1 .. n |-> OnStack(at + 4 * (w - 1))] /\ q \in Seq(WordType)
  BY <1>1, <1>6, ConcatProperties
<1>8. at + al \in Int
  BY <1>2, <1>4
<1>. QED
  BY <1>5, <1>7, <1>8 DEF VaType

LEMMA VaArgsIs ==
  ASSUME NEW c \in ConvType, NEW l, Analyze(c, l) \in StateType(c),
         NEW more \in Seq(Extras)
  PROVE  \E f : /\ f \in [0 .. Len(more) -> VaType]
                /\ IsVaArgs(f, c, l, more) /\ VaArgs(c, l, more) = f[Len(more)]
<1> DEFINE N == Len(more)
           V == VaType
           x == [ap |-> VaArgOffset(c, l), words |-> <<>>]
           g == [v \in V \X (1 .. N) |-> VaArg(v[1], more[v[2]])]
           F(f) == [n \in 0 .. N |-> IF n = 0 THEN x ELSE VaArg(f[n - 1], more[n])]
           d == CHOOSE f : f = F(f)
<1>1. N \in Nat /\ \A i \in 1 .. N : more[i] \in Extras
  OBVIOUS
<1>2. StepOn(g, V, 0, N)
  <2>1. ASSUME NEW v \in V \X (1 .. N) PROVE VaArg(v[1], more[v[2]]) \in V
    <3>1. v[1] \in VaType /\ more[v[2]] \in Extras
      BY <1>1
    <3>. QED
      BY <3>1, VaArgTyped
  <2>2. g \in [V \X (1 .. N) -> V]
    <3>. HIDE DEF V, N
    <3>. QED
      BY <2>1
  <2>. HIDE DEF g, N, V
  <2>. QED
    BY <2>2 DEF StepOn
<1>3. PICK f : f \in [0 .. N -> V] /\ IsRecursion(f, x, g, 0, N)
  <2>1. x \in V
    <3>1. VaArgOffset(c, l) \in Int
      BY VaOffsetTyped
    <3>2. <<>> \in Seq(WordType)
      OBVIOUS
    <3>. QED
      BY <3>1, <3>2 DEF VaType
  <2>2. 0 \in Int /\ N \in Int /\ 0 <= N
    BY <1>1
  <2>. HIDE DEF g, N, V, x
  <2>. QED
    BY <1>2, <2>1, <2>2, RecursionExists
<1>4. f = F(f)
  <2>1. ASSUME NEW i \in 0 .. N, i # 0 PROVE f[i] = VaArg(f[i - 1], more[i])
    <3>1. i \in 0 + 1 .. N /\ i \in 1 .. N /\ i - 1 \in 0 .. N
      <4>. HIDE DEF N
      <4>. QED
        BY <1>1, <2>1
    <3>2. f[i - 1] \in V
      BY <1>3, <3>1
    <3>3. f[i] = g[<<f[i - 1], i>>]
      <4>. HIDE DEF g, N, x
      <4>. QED
        BY <1>3, <3>1 DEF IsRecursion
    <3>4. <<f[i - 1], i>> \in V \X (1 .. N)
      BY <3>1, <3>2
    <3>. HIDE DEF V, N
    <3>. QED
      BY <3>3, <3>4
  <2>2. f[0] = x
    <3>. HIDE DEF x, g, N
    <3>. QED
      BY <1>3 DEF IsRecursion
  <2>. HIDE DEF x, V, N
  <2>. QED
    BY <1>3, <2>1, <2>2
<1>5. d = F(d)
  <2>. HIDE DEF F
  <2>. QED
    BY <1>4
<1>6. \A i \in 0 .. N : d[i] = f[i]
  <2>1. d[0] = f[0]
    <3>1. 0 \in 0 .. N
      BY <1>1
    <3>. HIDE DEF d, x, N
    <3>. QED
      BY <1>4, <1>5, <3>1
  <2>2. ASSUME NEW j \in 0 .. N - 1, d[j] = f[j] PROVE d[j + 1] = f[j + 1]
    <3>1. j + 1 \in 0 .. N /\ j + 1 # 0 /\ (j + 1) - 1 = j
      <4>. HIDE DEF N
      <4>. QED
        BY <1>1
    <3>2. f[j + 1] = VaArg(f[j], more[j + 1])
      <4>. HIDE DEF d, N, x
      <4>. QED
        BY <1>4, <3>1
    <3>3. d[j + 1] = VaArg(d[j], more[j + 1])
      <4>. HIDE DEF d, N, x
      <4>. QED
        BY <1>5, <3>1
    <3>. HIDE DEF d
    <3>. QED
      BY <2>2, <3>2, <3>3
  <2>3. StepsAgree(d, f, 0, N)
    <3>. HIDE DEF d, N
    <3>. QED
      BY <2>2 DEF StepsAgree
  <2>4. 0 \in Int /\ N \in Int
    BY <1>1
  <2>. HIDE DEF d, N, F, g, V, x
  <2>. QED
    BY <2>1, <2>3, <2>4, RecursionsAgree
<1>7. VaArgs(c, l, more) = d[N]
  BY DEF VaArgs
<1>8. VaArgs(c, l, more) = f[N]
  <2>1. N \in 0 .. N
    BY <1>1
  <2>. HIDE DEF d, N
  <2>. QED
    BY <2>1, <1>6, <1>7
<1>. QED
  BY <1>3, <1>4, <1>8 DEF IsVaArgs

LEMMA VaArgsEmpty ==
  ASSUME NEW c \in ConvType, NEW l, Analyze(c, l) \in StateType(c)
  PROVE  VaArgs(c, l, <<>>) = [ap |-> VaArgOffset(c, l), words |-> <<>>]
<1>1. <<>> \in Seq(Extras) /\ Len(<<>>) = 0
  OBVIOUS
<1>2. PICK f : IsVaArgs(f, c, l, <<>>) /\ VaArgs(c, l, <<>>) = f[0]
  BY <1>1, VaArgsIs
<1>3. f[0] = [ap |-> VaArgOffset(c, l), words |-> <<>>]
  BY <1>1, <1>2 DEF IsVaArgs
<1>. QED
  BY <1>2, <1>3

LEMMA VaArgsAppend ==
  ASSUME NEW c \in ConvType, NEW l, Analyze(c, l) \in StateType(c),
         NEW more \in Seq(Extras), NEW a \in Extras
  PROVE  /\ VaArgs(c, l, more) \in VaType
         /\ VaArgs(c, l, Append(more, a)) = VaArg(VaArgs(c, l, more), a)
<1> DEFINE tt == Append(more, a)
           N == Len(more)
<1>1. /\ tt \in Seq(Extras) /\ Len(tt) = N + 1 /\ tt[N + 1] = a /\ N \in Nat
      /\ \A i \in 1 .. N : tt[i] = more[i]
  OBVIOUS
<1>2. PICK f : /\ f \in [0 .. N -> VaType]
               /\ IsVaArgs(f, c, l, more) /\ VaArgs(c, l, more) = f[N]
  BY VaArgsIs
<1>3. PICK h : IsVaArgs(h, c, l, tt) /\ VaArgs(c, l, tt) = h[N + 1]
  <2>. HIDE DEF tt
  <2>. QED
    BY <1>1, VaArgsIs
<1>4. f[0] = h[0]
  <2>1. 0 \in 0 .. N /\ 0 \in 0 .. N + 1
    BY <1>1
  <2>. HIDE DEF tt
  <2>. QED
    BY <1>1, <1>2, <1>3, <2>1 DEF IsVaArgs
<1>5. ASSUME NEW j \in 0 .. N - 1, f[j] = h[j] PROVE f[j + 1] = h[j + 1]
  <2>1. /\ j + 1 \in 0 .. N /\ j + 1 \in 0 .. N + 1 /\ j + 1 # 0 /\ (j + 1) - 1 = j
        /\ tt[j + 1] = more[j + 1]
    <3>. HIDE DEF N, tt
    <3>. QED
      BY <1>1
  <2>2. f[j + 1] = VaArg(f[j], more[j + 1])
    BY <1>2, <2>1 DEF IsVaArgs
  <2>3. h[j + 1] = VaArg(h[j], tt[j + 1])
    <3>. HIDE DEF tt
    <3>. QED
      BY <1>1, <1>3, <2>1 DEF IsVaArgs
  <2>. QED
    BY <1>5, <2>1, <2>2, <2>3
<1>6. \A k \in 0 .. N : f[k] = h[k]
  <2>1. StepsAgree(f, h, 0, N)
    <3>. HIDE DEF N
    <3>. QED
      BY <1>5 DEF StepsAgree
  <2>2. 0 \in Int /\ N \in Int
    BY <1>1
  <2>. HIDE DEF N
  <2>. QED
    BY <1>4, <2>1, <2>2, RecursionsAgree
<1>7. h[N + 1] = VaArg(h[N], a)
  <2>1. N + 1 \in 0 .. N + 1 /\ N + 1 # 0 /\ (N + 1) - 1 = N
    BY <1>1
  <2>. HIDE DEF tt, N
  <2>. QED
    BY <1>1, <1>3, <2>1 DEF IsVaArgs
<1>8. h[N] = f[N] /\ f[N] \in VaType
  <2>1. N \in 0 .. N
    BY <1>1
  <2>. HIDE DEF N
  <2>. QED
    BY <2>1, <1>2, <1>6
<1>. QED
  BY <1>2, <1>3, <1>7, <1>8

-----------------------------------------------------------------------------
(***************************************************************************)
(* The inductive invariant.                                                *)
(***************************************************************************)
TypedLists(c, v, l, e) ==
  /\ c \in ConvType /\ v \in BOOLEAN
  /\ v => c.conv # "fast"
  /\ l \in Seq(ArgType)
  /\ e \in Seq(ArgType) /\ e \in Seq(Extras)
  /\ ~v => e = <<>>

VaInv(c, l, e) ==
  /\ VaArgs(c, l, e).ap = VaNext(c, Analyze(c, l \o e))
  /\ Analyze(c, l).regs <= Analyze(c, l \o e).regs

FoundInv(c, v, l, e) ==
  Matched(CallerWords(c, l \o e), CalleeWords(c, l, e), ToSet(HomedRegs(c, l, v)))

ListInv(c, v, l, e) ==
  /\ TypedLists(c, v, l, e)
  /\ PartsInv(c, Parts(l))
  /\ PartsInv(c, Parts(l \o e))
  /\ v => VaInv(c, l, e)
  /\ FoundInv(c, v, l, e)

(***************************************************************************)
(* The registers that the callee stores.                                   *)
(***************************************************************************)
LEMMA VarArgHomesAre ==
  ASSUME NEW c \in ConvType, c.conv # "fast", NEW l, Analyze(c, l) \in StateType(c)
  PROVE  /\ VarArgHomes(c, l) \in Seq(HomeType(c))
         /\ FreeHomes(c, Analyze(c, l).regs) \subseteq ToSet(VarArgHomes(c, l))
<1>1. PICK s \in StateType(c) : s = Analyze(c, l)
  OBVIOUS
<1>2. PICK r \in 0 .. 2 : r = s.regs /\ (c.abi = "S32" => r = 0)
  BY DEF StateType, Sane
<1>3. PICK o \in Int : o = VaArgOffset(c, l) /\ o = VaNext(c, s)
  BY <1>1, VaOffsetTyped
<1>4. PICK n \in Nat : /\ n = AtLeast(NumIntArgRegs(c) - r, 0)
                       /\ n = IF HasHomes(c) THEN 2 - r ELSE 0
  <2>1. CASE HasHomes(c)
    <3>1. NumIntArgRegs(c) = 2
      BY <2>1 DEF HasHomes, NumIntArgRegs
    <3>2. AtLeast(2 - r, 0) = 2 - r /\ 2 - r \in Nat
      BY <1>2 DEF AtLeast
    <3>. QED
      BY <2>1, <3>1, <3>2
  <2>2. CASE ~HasHomes(c)
    <3>1. c.abi = "S32"
      BY <2>2 DEF HasHomes, ConvType
    <3>2. NumIntArgRegs(c) = 0 /\ r = 0
      BY <1>2, <3>1 DEF NumIntArgRegs
    <3>3. AtLeast(0 - 0, 0) = 0
      BY DEF AtLeast
    <3>. QED
      BY <2>2, <3>2, <3>3
  <2>. QED
    BY <2>1, <2>2
<1>5. VarArgHomes(c, l) = [i \in 1 .. n |-> [reg |-> r + i - 1, off |-> o + 4 * (i - 1)]]
  BY <1>1, <1>2, <1>3, <1>4 DEF VarArgHomes, Homes, RegSize
<1>6. ASSUME NEW i \in 1 .. n
      PROVE  /\ HasHomes(c) /\ r + i - 1 \in {0, 1} /\ r < 2
             /\ o + 4 * (i - 1) = 4 * (r + i - 1)
  <2>1. HasHomes(c) /\ r < 2 /\ i <= 2 - r
    BY <1>2, <1>4
  <2>2. o = 4 * r
    BY <1>2, <1>3, <2>1 DEF VaNext
  <2>3. PICK k \in 1 .. 2 : k = i
    <3>1. n <= 2
      BY <1>2, <1>4
    <3>. QED
      BY <3>1
  <2>4. r + k - 1 \in {0, 1} /\ 4 * r + 4 * (k - 1) = 4 * (r + k - 1)
    BY <2>1, <2>3
  <2>. QED
    BY <2>1, <2>2, <2>3, <2>4
<1>7. VarArgHomes(c, l) = [i \in 1 .. n |-> [reg |-> r + i - 1, off |-> 4 * (r + i - 1)]]
  BY <1>5, <1>6
<1>8. \A i \in 1 .. n : [reg |-> r + i - 1, off |-> 4 * (r + i - 1)] \in HomeType(c)
  BY <1>6 DEF HomeType
<1>9. VarArgHomes(c, l) \in Seq(HomeType(c)) /\ DOMAIN VarArgHomes(c, l) = 1 .. n
  BY <1>7, <1>8, FunctionIsSeq
<1>10. ASSUME NEW h \in FreeHomes(c, r) PROVE h \in ToSet(VarArgHomes(c, l))
  <2>1. PICK i \in r .. 1 : h = [reg |-> i, off |-> 4 * i] /\ HasHomes(c)
    BY DEF FreeHomes
  <2>2. PICK k \in 1 .. n : i = r + k - 1
    <3>1. i - r + 1 \in 1 .. n /\ i = r + (i - r + 1) - 1
      BY <1>2, <1>4, <2>1
    <3>. QED
      BY <3>1
  <2>3. VarArgHomes(c, l)[k] = h
    BY <1>7, <2>1, <2>2
  <2>. QED
    BY <1>9, <2>3 DEF ToSet
<1>. QED
  BY <1>1, <1>2, <1>9, <1>10

LEMMA HomedRegsAre ==
  ASSUME NEW c \in ConvType, NEW v \in BOOLEAN, v => c.conv # "fast",
         NEW l \in Seq(ArgType), PartsInv(c, Parts(l))
  PROVE  /\ HomedRegs(c, l, v) \in Seq(HomeType(c))
         /\ ToSet(ObjectHomes(c, Parts(l))) \subseteq ToSet(HomedRegs(c, l, v))
         /\ v => FreeHomes(c, Analyze(c, l).regs) \subseteq ToSet(HomedRegs(c, l, v))
<1>1. PICK s : s = ObjectHomes(c, Parts(l)) /\ s \in Seq(HomeType(c))
  BY DEF PartsInv
<1>2. PICK t : /\ t = (IF v THEN VarArgHomes(c, l) ELSE <<>>) /\ t \in Seq(HomeType(c))
               /\ v => FreeHomes(c, Analyze(c, l).regs) \subseteq ToSet(t)
  <2>1. CASE v
    BY <2>1, AnalyzeTyped, VarArgHomesAre
  <2>2. CASE ~v
    <3>1. <<>> \in Seq(HomeType(c))
      OBVIOUS
    <3>. QED
      BY <2>2, <3>1
  <2>. QED
    BY <2>1, <2>2
<1>3. HomedRegs(c, l, v) = s \o t
  BY <1>1, <1>2 DEF HomedRegs
<1>4. s \o t \in Seq(HomeType(c)) /\ ToSet(s \o t) = ToSet(s) \cup ToSet(t)
  <2>1. PICK H : H = HomeType(c)
    OBVIOUS
  <2>2. s \in Seq(H) /\ t \in Seq(H)
    BY <1>1, <1>2, <2>1
  <2>3. s \o t \in Seq(H)
    BY <2>2, ConcatProperties
  <2>4. ToSet(s \o t) = ToSet(s) \cup ToSet(t)
    BY <2>2, ToSetConcat
  <2>. QED
    BY <2>1, <2>3, <2>4
<1>. QED
  BY <1>1, <1>2, <1>3, <1>4

(***************************************************************************)
(* A list with no variable arguments yet.                                  *)
(***************************************************************************)
LEMMA FixedList ==
  ASSUME NEW c \in ConvType, NEW v \in BOOLEAN, v => c.conv # "fast",
         NEW l \in Seq(ArgType), PartsInv(c, Parts(l))
  PROVE  /\ l \o <<>> = l
         /\ v => VaInv(c, l, <<>>)
         /\ FoundInv(c, v, l, <<>>)
<1>1. l \o <<>> = l
  OBVIOUS
<1>2. PICK s \in StateType(c) : s = Analyze(c, l)
  BY AnalyzeTyped
<1>3. VaArgs(c, l, <<>>) = [ap |-> VaArgOffset(c, l), words |-> <<>>]
  BY <1>2, VaArgsEmpty
<1>4. v => VaInv(c, l, <<>>)
  <2>1. s.regs <= s.regs
    BY <1>2 DEF StateType
  <2>2. v => VaArgOffset(c, l) = VaNext(c, s)
    BY <1>2, VaOffsetTyped
  <2>. QED
    BY <1>1, <1>2, <1>3, <2>1, <2>2 DEF VaInv
<1>5. CalleeWords(c, l, <<>>) = FixedWords(c, Parts(l))
  <2>1. PICK f : f = FixedWords(c, Parts(l)) /\ f \in Seq(WordType)
    BY DEF PartsInv
  <2>2. f \o <<>> = f
    BY <2>1
  <2>. QED
    BY <1>3, <2>1, <2>2 DEF CalleeWords
<1>6. FoundInv(c, v, l, <<>>)
  <2>1. Matched(PassedWords(c, Parts(l)), FixedWords(c, Parts(l)), ToSet(ObjectHomes(c, Parts(l))))
    BY DEF PartsInv
  <2>2. ToSet(ObjectHomes(c, Parts(l))) \subseteq ToSet(HomedRegs(c, l, v))
    BY HomedRegsAre
  <2>3. Matched(PassedWords(c, Parts(l)), FixedWords(c, Parts(l)), ToSet(HomedRegs(c, l, v)))
    BY <2>1, <2>2 DEF Matched
  <2>. QED
    BY <1>1, <1>5, <2>3 DEF FoundInv, CallerWords
<1>. QED
  BY <1>1, <1>4, <1>6

LEMMA ConcatThree ==
  ASSUME NEW S, NEW x \in Seq(S), NEW y \in Seq(S), NEW z \in Seq(S)
  PROVE  x \o (y \o z) = (x \o y) \o z
  OBVIOUS

(***************************************************************************)
(* One variable argument more.                                             *)
(***************************************************************************)
LEMMA ExtraList ==
  ASSUME NEW c, NEW l, NEW e, ListInv(c, TRUE, l, e),
         NEW a \in ArgType, a \in Extras
  PROVE  ListInv(c, TRUE, l, Append(e, a))
<1>1. /\ c \in ConvType /\ c.conv # "fast"
      /\ l \in Seq(ArgType) /\ e \in Seq(ArgType) /\ e \in Seq(Extras)
  BY DEF ListInv, TypedLists
<1>2. PICK q : q = l \o e /\ q \in Seq(ArgType) /\ l \o Append(e, a) = Append(q, a)
  <2>1. l \o e \in Seq(ArgType) /\ l \o Append(e, a) = Append(l \o e, a)
    BY <1>1
  <2>. QED
    BY <2>1
<1>3. Append(e, a) \in Seq(ArgType) /\ Append(e, a) \in Seq(Extras)
  BY <1>1, AppendProperties
<1>4. TypedLists(c, TRUE, l, Append(e, a))
  BY <1>1, <1>3 DEF TypedLists
<1>5. PartsInv(c, Parts(l)) /\ PartsInv(c, Parts(q))
  BY <1>2 DEF ListInv
<1>6. PartsInv(c, Parts(Append(q, a)))
  BY <1>1, <1>2, <1>5, ListInvAppend
<1>7. PICK sent : Walked(c, q, a, sent)
  BY <1>1, <1>2, <1>5, WalkArg DEF Extras
<1>8. PICK s \in StateType(c), t \in StateType(c), f \in StateType(c) :
        s = Analyze(c, q) /\ t = Analyze(c, Append(q, a)) /\ f = Analyze(c, l)
  <2>1. Append(q, a) \in Seq(ArgType)
    BY <1>2, AppendProperties
  <2>. QED
    BY <1>1, <1>2, <1>5, <1>6, <2>1, AnalyzeTyped
<1>9. PICK va : va = VaArgs(c, l, e) /\ va \in VaType /\ VaArgs(c, l, Append(e, a)) = VaArg(va, a)
  BY <1>1, <1>8, VaArgsAppend
<1>10. va.ap = VaNext(c, s) /\ f.regs <= s.regs
  BY <1>2, <1>8, <1>9 DEF ListInv, VaInv
<1>11. PICK at : at = AlignTo(va.ap, a.align)
  OBVIOUS
<1>12. PICK n : n = a.size \div 4
  OBVIOUS
<1>13. /\ sent \in Seq(WordType)
       /\ PassedWords(c, Parts(Append(q, a))) = PassedWords(c, Parts(q)) \o sent
       /\ VaNext(c, t) = at + a.size
       /\ s.regs <= t.regs
       /\ VaSlots(at, n) \in Seq(WordType)
       /\ Matched(sent, VaSlots(at, n), FreeHomes(c, s.regs))
  BY <1>7, <1>8, <1>10, <1>11, <1>12 DEF Walked
<1>14. VaArg(va, a) = [ap |-> at + a.size, words |-> va.words \o VaSlots(at, n)]
  BY <1>11, <1>12 DEF VaArg, VaSlots, Words, RegSize
<1>15. VaInv(c, l, Append(e, a))
  <2>1. f.regs <= t.regs
    <3>1. f.regs \in 0 .. 2 /\ s.regs \in 0 .. 2 /\ t.regs \in 0 .. 2
      BY DEF StateType
    <3>. QED
      BY <1>10, <1>13, <3>1
  <2>2. VaArgs(c, l, Append(e, a)).ap = VaNext(c, t)
    BY <1>9, <1>13, <1>14
  <2>. QED
    BY <1>2, <1>8, <2>1, <2>2 DEF VaInv
<1>16. PICK w : w = PassedWords(c, Parts(q)) /\ w \in Seq(WordType)
  BY <1>5, PassedTyped
<1>17. PICK x, y, z : /\ x = FixedWords(c, Parts(l)) /\ x \in Seq(WordType)
                      /\ y = va.words /\ y \in Seq(WordType)
                      /\ z = VaSlots(at, n) /\ z \in Seq(WordType)
  BY <1>5, <1>9, <1>13 DEF PartsInv, VaType
<1>18. CalleeWords(c, l, e) = x \o y /\ CalleeWords(c, l, Append(e, a)) = (x \o y) \o z
  <2>1. CalleeWords(c, l, Append(e, a)) = x \o (y \o z)
    <3>1. VaArgs(c, l, Append(e, a)).words = y \o z
      BY <1>9, <1>14, <1>17
    <3>. QED
      BY <1>17, <3>1 DEF CalleeWords
  <2>2. CalleeWords(c, l, e) = x \o y
    BY <1>9, <1>17 DEF CalleeWords
  <2>3. x \o (y \o z) = (x \o y) \o z
    <3>1. PICK S : x \in Seq(S) /\ y \in Seq(S) /\ z \in Seq(S)
      BY <1>17
    <3>. QED
      BY <3>1, ConcatThree
  <2>. QED
    BY <2>1, <2>2, <2>3
<1>19. PICK K : K = ToSet(HomedRegs(c, l, TRUE)) /\ FreeHomes(c, s.regs) \subseteq K
  <2>1. FreeHomes(c, f.regs) \subseteq ToSet(HomedRegs(c, l, TRUE))
    BY <1>1, <1>5, <1>8, HomedRegsAre
  <2>2. FreeHomes(c, s.regs) \subseteq FreeHomes(c, f.regs)
    <3>1. PICK i \in 0 .. 2, j \in 0 .. 2 : i = f.regs /\ j = s.regs /\ i <= j
      BY <1>10 DEF StateType
    <3>2. FreeHomes(c, j) \subseteq FreeHomes(c, i)
      BY <3>1 DEF FreeHomes
    <3>. QED
      BY <3>1, <3>2
  <2>. QED
    BY <2>1, <2>2
<1>20. Matched(w, x \o y, K)
  BY <1>2, <1>16, <1>18, <1>19 DEF ListInv, FoundInv, CallerWords
<1>21. Matched(w \o sent, (x \o y) \o z, K)
  <2>1. x \o y \in Seq(WordType)
    BY <1>17, ConcatProperties
  <2>2. Matched(sent, z, FreeHomes(c, s.regs))
    BY <1>13, <1>17
  <2>3. K \cup FreeHomes(c, s.regs) \subseteq K
    BY <1>19
  <2>. QED
    BY <1>13, <1>16, <1>17, <1>20, <2>1, <2>2, <2>3, MatchedJoin
<1>22. FoundInv(c, TRUE, l, Append(e, a))
  BY <1>2, <1>13, <1>16, <1>18, <1>19, <1>21 DEF FoundInv, CallerWords
<1>. QED
  BY <1>2, <1>4, <1>5, <1>6, <1>15, <1>22 DEF ListInv

-----------------------------------------------------------------------------
(***************************************************************************)
(* The lists of the model.                                                 *)
(***************************************************************************)
LEMMA ExtrasAre ==
  ASSUME NEW a \in ArgType, ~a.byval
  PROVE  a \in Extras
BY DEF Extras, Structs, ArgType

LEMMA FixedStep ==
  ASSUME NEW c, NEW v, NEW l, ListInv(c, v, l, <<>>), NEW a \in ArgType
  PROVE  ListInv(c, v, Append(l, a), <<>>)
<1>1. /\ c \in ConvType /\ c \in ConvType /\ v \in BOOLEAN /\ (v => c.conv # "fast")
      /\ l \in Seq(ArgType)
  BY DEF ListInv, TypedLists
<1>2. PICK m : m = Append(l, a) /\ m \in Seq(ArgType)
  BY <1>1, AppendProperties
<1>3. PartsInv(c, Parts(m))
  <2>1. PartsInv(c, Parts(l))
    BY DEF ListInv
  <2>. QED
    BY <1>1, <1>2, <2>1, ListInvAppend
<1>4. /\ m \o <<>> = m
      /\ v => VaInv(c, m, <<>>)
      /\ FoundInv(c, v, m, <<>>)
  BY <1>1, <1>2, <1>3, FixedList
<1>5. TypedLists(c, v, m, <<>>)
  <2>1. <<>> \in Seq(ArgType) /\ <<>> \in Seq(Extras)
    OBVIOUS
  <2>. QED
    BY <1>1, <1>2, <2>1 DEF TypedLists
<1>6. ListInv(c, v, m, <<>>)
  BY <1>3, <1>4, <1>5 DEF ListInv
<1>. QED
  BY <1>2, <1>6

-----------------------------------------------------------------------------
(***************************************************************************)
(* Every list of arguments: the fixed ones of a prototype, one at a time,  *)
(* and then those that a call passes for its ellipsis.                     *)
(***************************************************************************)
LEMMA SubSeqGrows ==
  ASSUME NEW X, NEW s \in Seq(X), NEW n \in Nat, n + 1 <= Len(s)
  PROVE  /\ SubSeq(s, 1, n) \in Seq(X) /\ s[n + 1] \in X
         /\ SubSeq(s, 1, n + 1) = Append(SubSeq(s, 1, n), s[n + 1])
OBVIOUS

LEMMA SubSeqEnds ==
  ASSUME NEW X, NEW s \in Seq(X)
  PROVE  SubSeq(s, 1, 0) = <<>> /\ SubSeq(s, 1, Len(s)) = s
OBVIOUS

LEMMA EveryFixedList ==
  ASSUME NEW c \in ConvType, NEW v \in BOOLEAN, v => c.conv # "fast",
         NEW l \in Seq(ArgType)
  PROVE  ListInv(c, v, l, <<>>)
<1> DEFINE S == {n \in Nat : ListInv(c, v, SubSeq(l, 1, n), <<>>)}
<1>1. ListInv(c, v, <<>>, <<>>)
  <2>1. <<>> \in Seq(ArgType) /\ <<>> \in Seq(Extras)
    OBVIOUS
  <2>2. PICK q : q = <<>> /\ q \in Seq(ArgType) /\ PartsInv(c, Parts(q))
    BY <2>1, EmptyParts, PartsEmpty
  <2>3. q \o <<>> = q /\ (v => VaInv(c, q, <<>>)) /\ FoundInv(c, v, q, <<>>)
    BY <2>2, FixedList
  <2>4. TypedLists(c, v, q, <<>>)
    BY <2>1, <2>2 DEF TypedLists
  <2>5. ListInv(c, v, q, <<>>)
    BY <2>2, <2>3, <2>4 DEF ListInv
  <2>. QED
    BY <2>2, <2>5
<1>2. 0 \in S
  BY <1>1, SubSeqEnds
<1>3. ASSUME NEW n \in 0 .. Len(l) - 1, n \in S PROVE n + 1 \in S
  <2>1. n \in Nat /\ n + 1 <= Len(l) /\ ListInv(c, v, SubSeq(l, 1, n), <<>>)
    BY <1>3
  <2>2. l[n + 1] \in ArgType /\ SubSeq(l, 1, n + 1) = Append(SubSeq(l, 1, n), l[n + 1])
    BY <2>1, SubSeqGrows
  <2>3. ListInv(c, v, SubSeq(l, 1, n + 1), <<>>)
    BY <2>1, <2>2, FixedStep
  <2>. QED
    BY <2>1, <2>3
<1>4. \A n \in 0 .. Len(l) : n \in S
  <2>1. 0 \in Int /\ Len(l) \in Int
    OBVIOUS
  <2>. HIDE DEF S
  <2>. QED
    BY <1>2, <1>3, <2>1, IntervalInduction
<1>5. Len(l) \in S
  BY <1>4
<1>. QED
  BY <1>5, SubSeqEnds

LEMMA EveryList ==
  ASSUME NEW c \in ConvType, NEW v \in BOOLEAN, v => c.conv # "fast",
         NEW l \in Seq(ArgType), NEW e \in Seq(Extras), ~v => e = <<>>
  PROVE  ListInv(c, v, l, e)
<1> DEFINE S == {n \in Nat : ListInv(c, v, l, SubSeq(e, 1, n))}
<1>1. 0 \in S
  BY EveryFixedList, SubSeqEnds
<1>2. ASSUME NEW n \in 0 .. Len(e) - 1, n \in S PROVE n + 1 \in S
  <2>1. n \in Nat /\ n + 1 <= Len(e) /\ ListInv(c, v, l, SubSeq(e, 1, n))
    BY <1>2
  <2>2. e[n + 1] \in Extras /\ SubSeq(e, 1, n + 1) = Append(SubSeq(e, 1, n), e[n + 1])
    BY <2>1, SubSeqGrows
  <2>3. v = TRUE
    BY <2>1
  <2>4. e[n + 1] \in ArgType
    BY <2>2 DEF Extras, ArgType
  <2>5. ListInv(c, TRUE, l, SubSeq(e, 1, n))
    BY <2>1, <2>3
  <2>6. ListInv(c, TRUE, l, Append(SubSeq(e, 1, n), e[n + 1]))
    BY <2>2, <2>4, <2>5, ExtraList
  <2>7. ListInv(c, v, l, SubSeq(e, 1, n + 1))
    BY <2>2, <2>3, <2>6
  <2>. QED
    BY <2>1, <2>7
<1>3. \A n \in 0 .. Len(e) : n \in S
  <2>1. 0 \in Int /\ Len(e) \in Int
    OBVIOUS
  <2>. HIDE DEF S
  <2>. QED
    BY <1>1, <1>2, <2>1, IntervalInduction
<1>4. Len(e) \in S
  BY <1>3
<1>. QED
  BY <1>4, SubSeqEnds

(***************************************************************************)
(* More arguments take no less space on the stack.                         *)
(***************************************************************************)
LEMMA StackGrows ==
  ASSUME NEW c \in ConvType, NEW parts \in Seq(PartType), NEW p \in PartType,
         PartsInv(c, parts)
  PROVE  /\ Run(c, parts).stack <= Run(c, Append(parts, p)).stack
         /\ Run(c, parts).stack \in Nat /\ Run(c, Append(parts, p)).stack \in Nat
<1>1. PICK loc : Extended(c, parts, p, loc)
  BY PartsInvAppend
<1>2. PartsInv(c, Append(parts, p))
  BY PartsInvAppend
<1>3. Run(c, parts).stack \in Nat /\ Run(c, Append(parts, p)).stack \in Nat
  BY <1>2 DEF PartsInv, StateType
<1>. QED
  BY <1>1, <1>3 DEF Extended, Fits

LEMMA ArgGrows ==
  ASSUME NEW c \in ConvType, NEW l \in Seq(ArgType), NEW a \in ArgType,
         PartsInv(c, Parts(l))
  PROVE  /\ Analyze(c, l).stack <= Analyze(c, Append(l, a)).stack
         /\ Analyze(c, l).stack \in Nat /\ Analyze(c, Append(l, a)).stack \in Nat
<1>1. Parts(l) \in Seq(PartType)
  BY PartsAppend
<1>2. CASE a # I64
  <2>1. a \in PartType
    BY <1>2, PartsOfArg
  <2>2. Parts(Append(l, a)) = Append(Parts(l), a)
    BY <1>2, PartsAppend
  <2>. QED
    BY <1>1, <2>1, <2>2, StackGrows DEF Analyze
<1>3. CASE a = I64
  <2>1. I64Low \in PartType /\ I64High \in PartType
    BY PartsTyped DEF PartType
  <2>2. PICK q : q = Append(Parts(l), I64Low) /\ q \in Seq(PartType)
    BY <1>1, <2>1, AppendProperties
  <2>3. Parts(Append(l, a)) = Append(q, I64High)
    BY <1>3, <2>2, PartsAppend
  <2>4. PartsInv(c, q)
    BY <1>1, <2>1, <2>2, PartsInvAppend
  <2>5. /\ Run(c, Parts(l)).stack <= Run(c, q).stack
        /\ Run(c, Parts(l)).stack \in Nat /\ Run(c, q).stack \in Nat
    BY <1>1, <2>1, <2>2, StackGrows
  <2>6. /\ Run(c, q).stack <= Run(c, Append(q, I64High)).stack
        /\ Run(c, Append(q, I64High)).stack \in Nat
    BY <2>1, <2>2, <2>4, StackGrows
  <2>. QED
    BY <2>3, <2>5, <2>6 DEF Analyze
<1>. QED
  BY <1>2, <1>3

LEMMA ListGrows ==
  ASSUME NEW c \in ConvType, NEW v \in BOOLEAN, v => c.conv # "fast",
         NEW l \in Seq(ArgType), NEW e \in Seq(Extras), ~v => e = <<>>
  PROVE  /\ Analyze(c, l).stack <= Analyze(c, l \o e).stack
         /\ Analyze(c, l).stack \in Nat /\ Analyze(c, l \o e).stack \in Nat
<1> DEFINE size(d) == Analyze(c, l \o d).stack
           S == {n \in Nat : /\ Analyze(c, l).stack <= size(SubSeq(e, 1, n))
                             /\ size(SubSeq(e, 1, n)) \in Nat}
<1>1. PartsInv(c, Parts(l))
  BY EveryFixedList DEF ListInv
<1>2. Analyze(c, l).stack \in Nat
  BY <1>1, AnalyzeTyped DEF StateType
<1>3. 0 \in S
  <2>1. l \o SubSeq(e, 1, 0) = l
    BY SubSeqEnds
  <2>2. size(SubSeq(e, 1, 0)) = Analyze(c, l).stack
    BY <2>1
  <2>. HIDE DEF size
  <2>. QED
    BY <1>2, <2>2
<1>4. ASSUME NEW n \in 0 .. Len(e) - 1, n \in S PROVE n + 1 \in S
  <2>1. n \in Nat /\ n + 1 <= Len(e)
    BY <1>4
  <2> DEFINE d == SubSeq(e, 1, n)
             a == e[n + 1]
             q == l \o d
  <2>2. d \in Seq(Extras) /\ a \in Extras /\ SubSeq(e, 1, n + 1) = Append(d, a)
    BY <2>1, SubSeqGrows
  <2>3. size(d) \in Nat /\ Analyze(c, l).stack <= size(d)
    BY <1>4
  <2>. HIDE DEF d, a
  <2>4. a \in ArgType /\ d \in Seq(ArgType)
    BY <2>2 DEF Extras, ArgType
  <2>5. q \in Seq(ArgType) /\ l \o Append(d, a) = Append(q, a)
    BY <2>4
  <2>6. PartsInv(c, Parts(q))
    <3>1. v = TRUE
      BY <2>1
    <3>2. ListInv(c, v, l, d)
      BY <2>2, <3>1, EveryList
    <3>. QED
      BY <3>2 DEF ListInv
  <2>7. /\ Analyze(c, q).stack <= Analyze(c, Append(q, a)).stack
        /\ Analyze(c, q).stack \in Nat /\ Analyze(c, Append(q, a)).stack \in Nat
    <3>. HIDE DEF q
    <3>. QED
      BY <2>4, <2>5, <2>6, ArgGrows
  <2>8. size(SubSeq(e, 1, n + 1)) = Analyze(c, Append(q, a)).stack
    BY <2>2, <2>5
  <2>. HIDE DEF size
  <2>9. size(d) = Analyze(c, q).stack
    BY DEF size
  <2>10. Analyze(c, l).stack <= size(SubSeq(e, 1, n + 1)) /\ size(SubSeq(e, 1, n + 1)) \in Nat
    <3>. HIDE DEF q
    <3>. QED
      BY <1>2, <2>3, <2>7, <2>8, <2>9
  <2>. QED
    BY <2>1, <2>10
<1>5. \A n \in 0 .. Len(e) : n \in S
  <2>1. 0 \in Int /\ Len(e) \in Int
    OBVIOUS
  <2>. HIDE DEF S
  <2>. QED
    BY <1>3, <1>4, <2>1, IntervalInduction
<1>6. Len(e) \in S
  BY <1>5
<1>. QED
  BY <1>2, <1>6, SubSeqEnds

(***************************************************************************)
(* What a caller and a callee know of the words of a call: each is in a    *)
(* register of its own or in the outgoing area, behind the area of the     *)
(* registers when there is one, and where the callee finds it.             *)
(***************************************************************************)
InArea(c, words, area) ==
  \A i \in DOMAIN words :
    \/ /\ words[i].reg \in {0, 1}
    \/ /\ words[i].reg = -1 /\ words[i].off \in Nat /\ words[i].off % 4 = 0
       /\ ReservedArgArea(c) <= words[i].off /\ words[i].off + 4 <= area

Apart(words) ==
  \A i, j \in DOMAIN words :
    /\ words[i].reg = words[j].reg /\ words[i].reg # -1 => i = j
    /\ words[i].reg = -1 /\ words[j].reg = -1 /\ words[i].off = words[j].off => i = j

CallWords(c, words, area) ==
  /\ words \in Seq(WordType)
  /\ InArea(c, words, area) /\ Apart(words)

LEMMA WordsOfCall ==
  ASSUME NEW c \in ConvType, NEW v \in BOOLEAN, v => c.conv # "fast",
         NEW l \in Seq(ArgType), NEW e \in Seq(Extras), ~v => e = <<>>
  PROVE  /\ CallWords(c, CallerWords(c, l \o e), Analyze(c, l \o e).stack)
         /\ Analyze(c, l \o e).stack % 4 = 0
         /\ ReservedArgArea(c) <= Analyze(c, l).stack
         /\ FoundInv(c, v, l, e)
         /\ HomedRegs(c, l, v) \in Seq(HomeType(c))
<1>1. ListInv(c, v, l, e) /\ PartsInv(c, Parts(l)) /\ PartsInv(c, Parts(l \o e))
  BY EveryList DEF ListInv
<1>2. PICK s \in StateType(c) : s = Analyze(c, l \o e)
  BY <1>1 DEF PartsInv, Analyze
<1>3. PICK words : /\ words = CallerWords(c, l \o e) /\ IsInjective(words)
                   /\ words \in Seq(Region(0, s.regs, ReservedArgArea(c), s.stack))
  BY <1>1, <1>2 DEF PartsInv, CallerWords, Analyze
<1>4. words \in Seq(WordType)
  BY <1>1, <1>3, PassedTyped DEF CallerWords
<1>5. PICK a \in Nat, st \in Nat, r \in 0 .. 2 :
        a = ReservedArgArea(c) /\ st = s.stack /\ r = s.regs /\ st % 4 = 0
  <2>1. ReservedArgArea(c) \in Nat
    BY DEF ReservedArgArea
  <2>. QED
    BY <2>1 DEF StateType, Sane
<1>6. ASSUME NEW i \in DOMAIN words
      PROVE  \/ \E q \in {0, 1} : words[i] = InReg(q)
             \/ \E o \in Nat : o % 4 = 0 /\ a <= o /\ o + 4 <= st /\ words[i] = OnStack(o)
  <2>1. words[i] \in Region(0, r, a, st)
    BY <1>3, <1>5
  <2>2. CASE \E q \in 0 .. r - 1 : words[i] = InReg(q)
    <3>1. PICK q \in 0 .. r - 1 : words[i] = InReg(q)
      BY <2>2
    <3>2. q \in {0, 1}
      BY <1>5
    <3>. QED
      BY <3>1, <3>2
  <2>3. CASE \E o \in {x \in a .. st - 4 : x % 4 = 0} : words[i] = OnStack(o)
    <3>1. PICK o \in {x \in a .. st - 4 : x % 4 = 0} : words[i] = OnStack(o)
      BY <2>3
    <3>2. o \in Nat /\ o % 4 = 0 /\ a <= o /\ o + 4 <= st
      BY <1>5, <3>1
    <3>. QED
      BY <3>1, <3>2
  <2>. QED
    BY <2>1, <2>2, <2>3 DEF Region
<1>7. InArea(c, words, st)
  BY <1>5, <1>6 DEF InArea, InReg, OnStack
<1>8. Apart(words)
  <2>1. \A i, j \in DOMAIN words : words[i] = words[j] => i = j
    BY <1>3 DEF IsInjective
  <2>2. ASSUME NEW i \in DOMAIN words, NEW j \in DOMAIN words,
               words[i].reg = words[j].reg, words[i].reg # -1
        PROVE  words[i] = words[j]
    BY <1>6, <2>2 DEF InReg, OnStack
  <2>3. ASSUME NEW i \in DOMAIN words, NEW j \in DOMAIN words,
               words[i].reg = -1, words[j].reg = -1, words[i].off = words[j].off
        PROVE  words[i] = words[j]
    <3>1. ASSUME NEW k \in DOMAIN words, words[k].reg = -1
          PROVE  words[k] = OnStack(words[k].off)
      BY <1>6, <3>1 DEF InReg, OnStack
    <3>. QED
      BY <2>3, <3>1
  <2>. QED
    BY <2>1, <2>2, <2>3 DEF Apart
<1>9. CallWords(c, words, st)
  BY <1>4, <1>7, <1>8 DEF CallWords
<1>10. ReservedArgArea(c) <= Analyze(c, l).stack
  BY <1>1, AnalyzeTyped DEF StateType, Sane
<1>11. FoundInv(c, v, l, e)
  BY <1>1 DEF ListInv
<1>12. HomedRegs(c, l, v) \in Seq(HomeType(c))
  BY <1>1, HomedRegsAre
<1>. QED
  BY <1>2, <1>3, <1>5, <1>9, <1>10, <1>11, <1>12
=============================================================================
