---------------------------- MODULE MCBudgetReaders ----------------------------
(***************************************************************************)
(* BudgetReaders for TLC: threads are interchangeable.                     *)
(***************************************************************************)
EXTENDS BudgetReaders, TLC

ThreadSymmetry == Permutations(Threads)
===============================================================================
