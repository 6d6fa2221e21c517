-------------------------------- MODULE Cascade --------------------------------
(***************************************************************************)
(* ModelTier and ModelCascade of src/model.rs.  Prices are whole           *)
(* nano-dollars per token (0.015 USD per 1K tokens is 15000), budgets      *)
(* nano-dollars, and the threshold is in percent, so that the code's       *)
(* remaining / total <= threshold is a comparison of integers.             *)
(***************************************************************************)
EXTENDS Integers

Local == 0
Economy == 1
Standard == 2
Premium == 3
Tiers == {Local, Economy, Standard, Premium}

\* The tiers downgrade returns: the next cheaper one, or none.
Downgrades(tier) == {lower \in Tiers : lower = tier - 1}

InputPrice == [tier \in Tiers |->
    CASE tier = Premium -> 15000 [] tier = Standard -> 3000
      [] tier = Economy -> 250 [] tier = Local -> 0]

OutputPrice == [tier \in Tiers |->
    CASE tier = Premium -> 75000 [] tier = Standard -> 15000
      [] tier = Economy -> 1250 [] tier = Local -> 0]

EstimateCost(tier, input, output) ==
    input * InputPrice[tier] + output * OutputPrice[tier]

Cascades == [current : Tiers, threshold : 0..100, total : Nat \ {0}]

\* The cascades new returns: none when it refuses its arguments (InvalidConfig).
NewCascades(tier, threshold, total) ==
    {c \in {[current |-> tier, threshold |-> threshold, total |-> total]} :
        threshold \in 0..100 /\ total > 0}

\* The total is kept when all of the budget has been moved away.
SetTotalBudget(c, total) == IF total > 0 THEN [c EXCEPT !.total = total] ELSE c

\* The remaining fraction is at or below the threshold.
UnderPressure(c, remaining) == 100 * remaining <= c.threshold * c.total

ForceDowngrade(c) ==
    IF Downgrades(c.current) = {} THEN c ELSE [c EXCEPT !.current = @ - 1]

\* Mutant: the threshold is taken as exclusive.
EvaluateStrictly(c, remaining) ==
    IF 100 * remaining < c.threshold * c.total THEN ForceDowngrade(c) ELSE c

\* Mutant: Local is downgraded too.
EvaluateBelowLocal(c, remaining) ==
    IF UnderPressure(c, remaining) THEN [c EXCEPT !.current = @ - 1] ELSE c

Evaluate(c, remaining) == IF UnderPressure(c, remaining) THEN ForceDowngrade(c) ELSE c
===============================================================================
