------------------------------- MODULE HardCap -------------------------------
(***************************************************************************)
(* What AtomicBudget (src/budget/mod.rs) promises its callers: a single    *)
(* number that accepted charges add to, under a cap that may be lowered    *)
(* only down to what has already been accepted.  Every operation is one    *)
(* step; a refused call is no step at all.                                 *)
(***************************************************************************)
EXTENDS Integers

CONSTANTS InitialLimit,   \* the limit the budget is created with
          Costs,          \* what one charge may cost
          ShrinkAmounts,  \* what one shrink_limit may take away
          GrowAmounts     \* what one grow_limit may add

VARIABLES accepted,       \* the sum of all accepted charges
          cap             \* the limit in force

vars == <<accepted, cap>>

Init == accepted = 0 /\ cap = InitialLimit

\* A charge is accepted only when the whole of it fits under the cap.
Accept(cost) ==
    /\ accepted + cost <= cap
    /\ accepted' = accepted + cost
    /\ UNCHANGED cap

\* The cap is lowered only when the unspent part covers the amount.
Lower(amount) ==
    /\ accepted + amount <= cap
    /\ cap' = cap - amount
    /\ UNCHANGED accepted

Raise(amount) ==
    /\ cap' = cap + amount
    /\ UNCHANGED accepted

Next == \/ \E cost \in Costs : Accept(cost)
        \/ \E amount \in ShrinkAmounts : Lower(amount)
        \/ \E amount \in GrowAmounts : Raise(amount)

Spec == Init /\ [][Next]_vars
==============================================================================
