-------------------------------- MODULE Sums --------------------------------
(* The sum of f over a finite set of arguments. *)
EXTENDS Integers, Folds

SumOf(f, S) == MapThenFoldSet(+, 0, LAMBDA x : f[x], LAMBDA T : CHOOSE x \in T : TRUE, S)
=============================================================================
