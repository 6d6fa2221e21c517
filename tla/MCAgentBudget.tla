----------------------------- MODULE MCAgentBudget -----------------------------
(***************************************************************************)
(* AgentBudget for TLC: requests of one prompt token, and callers and      *)
(* movers that are interchangeable.                                        *)
(***************************************************************************)
EXTENDS AgentBudget, TLC

OneToken == {<<1, 0>>}

PricedCosts ==
    ExactCosts \cup {EstimateCost(tier, r[1], r[2]) : tier \in Tiers, r \in Requests}

TaskSymmetry == Permutations(Callers) \cup Permutations(Movers)
===============================================================================
