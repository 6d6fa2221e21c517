----------------------------- MODULE MCBudgetHook -----------------------------
(***************************************************************************)
(* BudgetHook for TLC: one hook that kills on a refusal and whose model is *)
(* a private one, named with the provider in front, one that does not and  *)
(* whose model has no output price, and a caller that goes through a       *)
(* router.                                                                 *)
(***************************************************************************)
EXTENDS BudgetHook, TLC

CONSTANTS r1, r2, c1

MCListPrice == [input |-> 2, output |-> 1, cacheRead |-> 1, cacheWrite |-> 1]

MCEntries ==
    <<"azure", "gpt">> :> MCListPrice @@ <<"priv">> :> [input |-> 2]

MCOwnModel == <<"tuned">>

MCModel == r1 :> <<"openai", "tuned">> @@ r2 :> <<"priv">> @@ c1 :> <<"router", "azure", "gpt">>

MCTokenizers == {<<"gpt">>}

MCMaxRuns == r1 :> 2 @@ r2 :> 1 @@ c1 :> 1

\* One of 2 nano-dollars, two of 3.
MCCalls ==
    {[fresh |-> 0, read |-> 1, written |-> 0, output |-> 1],
     [fresh |-> 1, read |-> 0, written |-> 1, output |-> 0],
     [fresh |-> 1, read |-> 0, written |-> 0, output |-> 1]}
===============================================================================
