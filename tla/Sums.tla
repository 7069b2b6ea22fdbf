-------------------------------- MODULE Sums --------------------------------
(***************************************************************************)
(* Sums of a part of a sequence of numbers.                                *)
(***************************************************************************)
EXTENDS Integers

\* The sum of f[a] to f[b]; 0 if there are none.
SumOf(f, a, b) ==
  LET sum[k \in a - 1 .. b] == IF k = a - 1 THEN 0 ELSE sum[k - 1] + f[k]
  IN  IF b < a THEN 0 ELSE sum[b]
=============================================================================
