---------------------------- MODULE MCAtomicBudget ----------------------------
(***************************************************************************)
(* AtomicBudget and its inductive invariant for TLC: threads are           *)
(* interchangeable.                                                        *)
(***************************************************************************)
EXTENDS AtomicBudgetInv, TLC

ThreadSymmetry == Permutations(Threads)
===============================================================================
