---------------------------- MODULE SumTheorems ----------------------------
(***************************************************************************)
(* Facts about SumOf.  They are proved by induction over an interval, in   *)
(* the form that a set with its first element that is closed under the     *)
(* next one contains all of it.  At the end, the order of tuples of        *)
(* numbers in which the passes and tools come to an end.                   *)
(***************************************************************************)
EXTENDS Sums, WellFoundedInduction, TLAPS

LEMMA SmallestOf ==
  ASSUME NEW S \in SUBSET Nat, S # {}
  PROVE  \E m \in S : \A n \in S : m <= n
<1> DEFINE R == {ss \in Nat \X Nat : ss[1] < ss[2]}
<1>1. IsWellFoundedOn(R, Nat)
  BY NatLessThanWellFounded DEF OpToRel
<1>2. PICK x \in S : \A y \in S : ~ (<<y, x>> \in R)
  <2>. HIDE DEF R
  <2>. QED
    BY <1>1, WFMin
<1>3. \A y \in S : ~(y < x)
  BY <1>2
<1>. QED
  BY <1>3

LEMMA IntervalInduction ==
  ASSUME NEW S, NEW a \in Int, NEW b \in Int, a \in S,
         \A k \in a .. b - 1 : k \in S => k + 1 \in S
  PROVE  \A k \in a .. b : k \in S
<1> DEFINE D == {n \in Nat : a + n <= b /\ a + n \notin S}
<1>1. ASSUME D # {} PROVE FALSE
  <2>1. PICK m \in D : \A n \in D : m <= n
    <3>. HIDE DEF D
    <3>1. D \in SUBSET Nat
      BY DEF D
    <3>. QED
      BY <1>1, <3>1, SmallestOf
  <2>2. m # 0
    BY <2>1
  <2>3. m - 1 \notin D
    BY <2>1, <2>2
  <2>4. a + (m - 1) \in a .. b - 1 /\ a + (m - 1) \in S
    BY <2>1, <2>2, <2>3
  <2>. QED
    BY <2>1, <2>4
<1>2. ASSUME NEW k \in a .. b PROVE k \in S
  <2>1. k - a \in Nat /\ a + (k - a) = k /\ k <= b
    OBVIOUS
  <2>2. k - a \notin D
    <3>. HIDE DEF D
    <3>. QED
      BY <1>1
  <2>. QED
    BY <2>1, <2>2
<1>. QED
  BY <1>2

(***************************************************************************)
(* A function with the equations of the sum is determined by them.         *)
(***************************************************************************)
IsSum(s, f, a, b) ==
  s[a - 1] = 0 /\ \A k \in a .. b : s[k] = s[k - 1] + f[k]

LEMMA SumUnique ==
  ASSUME NEW f, NEW a \in Int, NEW b \in Int, NEW s, NEW t,
         IsSum(s, f, a, b), IsSum(t, f, a, b)
  PROVE  \A k \in a - 1 .. b : s[k] = t[k]
<1> DEFINE S == {k \in Int : s[k] = t[k]}
<1>1. a - 1 \in S
  BY DEF IsSum
<1>2. \A k \in a - 1 .. b - 1 : k \in S => k + 1 \in S
  BY DEF IsSum
<1>3. \A k \in a - 1 .. b : k \in S
  <2>. HIDE DEF S
  <2>. QED
    BY <1>1, <1>2, IntervalInduction
<1>. QED
  BY <1>3

LEMMA SumExists ==
  ASSUME NEW f, NEW a \in Int, NEW b \in Int, a <= b + 1,
         \A k \in a .. b : f[k] \in Int
  PROVE  \E s \in [a - 1 .. b -> Int] : IsSum(s, f, a, b)
<1> DEFINE Has(c) == \E s \in [a - 1 .. c -> Int] : IsSum(s, f, a, c)
           S == {c \in Int : Has(c)}
<1>1. a - 1 \in S
  <2>1. [k \in a - 1 .. a - 1 |-> 0] \in [a - 1 .. a - 1 -> Int]
    OBVIOUS
  <2>2. IsSum([k \in a - 1 .. a - 1 |-> 0], f, a, a - 1)
    BY DEF IsSum
  <2>3. Has(a - 1)
    BY <2>1, <2>2
  <2>. HIDE DEF Has
  <2>. QED
    BY <2>3
<1>2. ASSUME NEW d \in a - 1 .. b - 1, d \in S PROVE d + 1 \in S
  <2>1. PICK s \in [a - 1 .. d -> Int] : IsSum(s, f, a, d)
    BY <1>2
  <2> DEFINE t == [k \in a - 1 .. d + 1 |-> IF k = d + 1 THEN s[d] + f[d + 1] ELSE s[k]]
  <2>2. t \in [a - 1 .. d + 1 -> Int]
    BY <2>1
  <2>3. t[a - 1] = 0
    BY <2>1 DEF IsSum
  <2>4. ASSUME NEW k \in a .. d + 1 PROVE t[k] = t[k - 1] + f[k]
    <3>1. k - 1 \in a - 1 .. d + 1 /\ k - 1 # d + 1 /\ t[k - 1] = s[k - 1]
      OBVIOUS
    <3>2. CASE k = d + 1
      BY <3>1, <3>2
    <3>3. CASE k # d + 1
      BY <3>1, <3>3, <2>1 DEF IsSum
    <3>. QED
      BY <3>2, <3>3
  <2>5. IsSum(t, f, a, d + 1)
    BY <2>3, <2>4 DEF IsSum
  <2>. QED
    BY <2>2, <2>5
<1>3. \A k \in a - 1 .. b : k \in S
  <2>. HIDE DEF S
  <2>. QED
    BY <1>1, <1>2, IntervalInduction
<1>. QED
  BY <1>3

(***************************************************************************)
(* The equations of SumOf.                                                 *)
(***************************************************************************)
LEMMA SumIsSum ==
  ASSUME NEW f, NEW a \in Int, NEW b \in Int, a <= b + 1,
         \A k \in a .. b : f[k] \in Int
  PROVE  \E s \in [a - 1 .. b -> Int] :
            IsSum(s, f, a, b) /\ SumOf(f, a, b) = s[b]
<1> DEFINE Sum(s) == [k \in a - 1 .. b |-> IF k = a - 1 THEN 0 ELSE s[k - 1] + f[k]]
           c == CHOOSE s : s = Sum(s)
<1>1. PICK s \in [a - 1 .. b -> Int] : IsSum(s, f, a, b)
  BY SumExists
<1>2. s = Sum(s)
  BY <1>1 DEF IsSum
<1>3. c = Sum(c)
  <2>. HIDE DEF Sum
  <2>. QED
    BY <1>2
<1>4. IsSum(c, f, a, b)
  <2>. HIDE DEF c
  <2>. QED
    BY <1>3 DEF IsSum
<1>5. c[b] = s[b]
  <2>1. b \in a - 1 .. b
    OBVIOUS
  <2>. HIDE DEF c
  <2>. QED
    BY <1>1, <1>4, <2>1, SumUnique
<1>6. SumOf(f, a, b) = s[b]
  <2>1. CASE b < a
    BY <1>1, <2>1 DEF SumOf, IsSum
  <2>2. CASE ~(b < a)
    BY <1>5, <2>2 DEF SumOf
  <2>. QED
    BY <2>1, <2>2
<1>. QED
  BY <1>1, <1>6

LEMMA SumEmpty ==
  ASSUME NEW f, NEW a \in Int, NEW b \in Int, b < a
  PROVE  SumOf(f, a, b) = 0
BY DEF SumOf

LEMMA SumStep ==
  ASSUME NEW f, NEW a \in Int, NEW b \in Int, a <= b,
         \A k \in a .. b : f[k] \in Int
  PROVE  /\ SumOf(f, a, b - 1) \in Int /\ SumOf(f, a, b) \in Int
         /\ SumOf(f, a, b) = SumOf(f, a, b - 1) + f[b]
<1>1. PICK s \in [a - 1 .. b -> Int] : IsSum(s, f, a, b) /\ SumOf(f, a, b) = s[b]
  <2>1. a <= b + 1
    OBVIOUS
  <2>2. \E s \in [a - 1 .. b -> Int] : IsSum(s, f, a, b) /\ SumOf(f, a, b) = s[b]
    BY <2>1, SumIsSum
  <2>. QED
    BY <2>2
<1>2. PICK t \in [a - 1 .. b - 1 -> Int] :
         IsSum(t, f, a, b - 1) /\ SumOf(f, a, b - 1) = t[b - 1]
  <2> DEFINE c == b - 1
  <2>1. c \in Int /\ a <= c + 1 /\ \A k \in a .. c : f[k] \in Int
    OBVIOUS
  <2>. HIDE DEF c
  <2>2. \E t \in [a - 1 .. c -> Int] : IsSum(t, f, a, c) /\ SumOf(f, a, c) = t[c]
    BY <2>1, SumIsSum
  <2>. QED
    BY <2>2 DEF c
<1>3. IsSum(s, f, a, b - 1)
  BY <1>1 DEF IsSum
<1>4. s[b - 1] = t[b - 1]
  <2>1. b - 1 \in a - 1 .. b - 1
    OBVIOUS
  <2>. QED
    BY <1>2, <1>3, <2>1, SumUnique
<1>. QED
  BY <1>1, <1>2, <1>4 DEF IsSum

LEMMA SumType ==
  ASSUME NEW f, NEW a \in Int, NEW b \in Int, \A k \in a .. b : f[k] \in Int
  PROVE  SumOf(f, a, b) \in Int
BY SumEmpty, SumStep

(***************************************************************************)
(* Sums of adjacent parts, and sums of sequences that are at most another. *)
(***************************************************************************)
LEMMA SumSplit ==
  ASSUME NEW f, NEW a \in Int, NEW b \in Int, NEW c \in Int,
         a - 1 <= b, b <= c, \A k \in a .. c : f[k] \in Int
  PROVE  SumOf(f, a, c) = SumOf(f, a, b) + SumOf(f, b + 1, c)
<1> DEFINE S == {d \in Int : SumOf(f, a, d) = SumOf(f, a, b) + SumOf(f, b + 1, d)}
<1>1. SumOf(f, a, b) \in Int
  BY SumType
<1>2. b \in S
  BY <1>1, SumEmpty
<1>3. ASSUME NEW d \in b .. c - 1, d \in S PROVE d + 1 \in S
  <2>1. (d + 1) - 1 = d /\ d + 1 \in Int /\ a <= d + 1 /\ b + 1 \in Int /\ b + 1 <= d + 1
    OBVIOUS
  <2>2. SumOf(f, a, d) \in Int /\ SumOf(f, a, d + 1) = SumOf(f, a, d) + f[d + 1]
    BY <2>1, SumStep
  <2>3. /\ SumOf(f, b + 1, d) \in Int
        /\ SumOf(f, b + 1, d + 1) = SumOf(f, b + 1, d) + f[d + 1]
    BY <2>1, SumStep
  <2>4. f[d + 1] \in Int
    BY <2>1
  <2>. QED
    BY <1>1, <1>3, <2>2, <2>3, <2>4
<1>4. \A d \in b .. c : d \in S
  <2>. HIDE DEF S
  <2>. QED
    BY <1>2, <1>3, IntervalInduction
<1>. QED
  BY <1>4

LEMMA SumAtMost ==
  ASSUME NEW f, NEW g, NEW a \in Int, NEW b \in Int,
         \A k \in a .. b : f[k] \in Int /\ g[k] \in Int /\ f[k] <= g[k]
  PROVE  SumOf(f, a, b) <= SumOf(g, a, b)
<1> DEFINE S == {d \in Int : SumOf(f, a, d) <= SumOf(g, a, d)}
<1>1. a - 1 \in S
  BY SumEmpty
<1>2. ASSUME NEW d \in a - 1 .. b - 1, d \in S PROVE d + 1 \in S
  <2>1. (d + 1) - 1 = d /\ d + 1 \in Int /\ a <= d + 1
    OBVIOUS
  <2>2. /\ SumOf(f, a, d) \in Int /\ SumOf(f, a, d + 1) = SumOf(f, a, d) + f[d + 1]
        /\ SumOf(g, a, d) \in Int /\ SumOf(g, a, d + 1) = SumOf(g, a, d) + g[d + 1]
    BY <2>1, SumStep
  <2>3. f[d + 1] \in Int /\ g[d + 1] \in Int /\ f[d + 1] <= g[d + 1]
    BY <2>1
  <2>. QED
    BY <1>2, <2>2, <2>3
<1>3. \A d \in a - 1 .. b : d \in S
  <2>. HIDE DEF S
  <2>. QED
    BY <1>1, <1>2, IntervalInduction
<1>4. CASE b < a
  BY <1>4, SumEmpty
<1>. QED
  BY <1>3, <1>4

LEMMA SumSame ==
  ASSUME NEW f, NEW g, NEW a \in Int, NEW b \in Int,
         \A k \in a .. b : f[k] \in Int /\ g[k] = f[k]
  PROVE  SumOf(g, a, b) = SumOf(f, a, b)
<1>1. SumOf(f, a, b) \in Int /\ SumOf(g, a, b) \in Int
  BY SumType
<1>2. SumOf(f, a, b) <= SumOf(g, a, b)
  BY SumAtMost
<1>3. SumOf(g, a, b) <= SumOf(f, a, b)
  BY SumAtMost
<1>. QED
  BY <1>1, <1>2, <1>3

LEMMA SumNat ==
  ASSUME NEW f, NEW a \in Int, NEW b \in Int, \A k \in a .. b : f[k] \in Nat
  PROVE  SumOf(f, a, b) \in Nat
<1> DEFINE S == {d \in Int : SumOf(f, a, d) \in Nat}
<1>1. a - 1 \in S
  BY SumEmpty
<1>2. ASSUME NEW d \in a - 1 .. b - 1, d \in S PROVE d + 1 \in S
  <2>1. (d + 1) - 1 = d /\ d + 1 \in Int /\ a <= d + 1
    OBVIOUS
  <2>2. SumOf(f, a, d + 1) = SumOf(f, a, d) + f[d + 1]
    BY <2>1, SumStep
  <2>. QED
    BY <1>2, <2>1, <2>2
<1>3. \A d \in a - 1 .. b : d \in S
  <2>. HIDE DEF S
  <2>. QED
    BY <1>1, <1>2, IntervalInduction
<1>4. CASE b < a
  BY <1>4, SumEmpty
<1>. QED
  BY <1>3, <1>4

-----------------------------------------------------------------------------
(***************************************************************************)
(* Tuples of n numbers in the order of their first difference.  There is   *)
(* no infinite descent in it.                                              *)
(***************************************************************************)
LessThan == {ss \in Nat \X Nat : ss[1] < ss[2]}
TupleOrder(n) == LexProductOrdering(LessThan, Nat, n)

LEMMA TupleOrderWellFounded ==
  ASSUME NEW n \in Nat
  PROVE  IsWellFoundedOn(TupleOrder(n), [1..n -> Nat])
<1>1. IsWellFoundedOn(LessThan, Nat)
  BY NatLessThanWellFounded DEF LessThan, OpToRel
<1>. QED
  BY <1>1, WFLexProductOrdering DEF TupleOrder

LEMMA LowerTuple ==
  ASSUME NEW n \in Nat, NEW f \in [1..n -> Nat], NEW g \in [1..n -> Nat],
         NEW j \in 1..n, f[j] < g[j], \A i \in 1..(j - 1) : f[i] = g[i]
  PROVE  <<f, g>> \in TupleOrder(n)
<1>1. <<f[j], g[j]>> \in LessThan
  BY DEF LessThan
<1>. QED
  BY <1>1 DEF TupleOrder, LexProductOrdering

=============================================================================
