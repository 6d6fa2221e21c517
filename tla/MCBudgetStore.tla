----------------------------- MODULE MCBudgetStore -----------------------------
(***************************************************************************)
(* BudgetStore for TLC: tasks are interchangeable.                         *)
(***************************************************************************)
EXTENDS BudgetStore, TLC

OneSession == {[base |-> "a", ends |-> 0]}
TwoSessions == OneSession \cup {[base |-> "b", ends |-> 0]}

TaskSymmetry == Permutations(Tasks)
===============================================================================
