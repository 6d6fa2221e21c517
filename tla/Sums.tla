---------------------------------- MODULE Sums ----------------------------------
(***************************************************************************)
(* The sum of a function over a finite set of its arguments, by the        *)
(* community modules' fold.                                                *)
(***************************************************************************)
EXTENDS Integers, FiniteSets, FiniteSetsExt

SumOf(f, S) == MapThenSumSet(LAMBDA x : f[x], S)
===============================================================================
