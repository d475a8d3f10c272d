-------------------------------- MODULE Sums --------------------------------
(***************************************************************************)
(* The sum of the first n values of a function on 1..n, as a recursive     *)
(* function so that facts about it can be proved.                          *)
(***************************************************************************)
EXTENDS Integers

SumUpTo(f, n) ==
  LET partial[k \in 0..n] == IF k = 0 THEN 0 ELSE partial[k - 1] + f[k]
  IN  partial[n]
=============================================================================
