-------------------------------- MODULE Sums --------------------------------
(* The sum of f[x] over the elements x of a finite set.                    *)
EXTENDS Integers, FiniteSetsExt

Sum(f, S) == MapThenSumSet(LAMBDA x : f[x], S)
=============================================================================
