------------------------------ MODULE BudgetHook ------------------------------
(***************************************************************************)
(* BudgetHook of src/rig.rs, and callers of charge_usage and, with texts,  *)
(* of charge_model_text (src/tokens.rs) next to it: all                    *)
(* of them share one AgentBudget, are billed by a provider and charge what *)
(* its usage blocks say (Metering).  A run is a slot with a hook of its    *)
(* own, in which one rig run follows the other.  The limit never shrinks   *)
(* here, so HardCap refuses exactly the charges that do not fit.           *)
(***************************************************************************)
EXTENDS Metering, Sums, FiniteSets

CONSTANTS Runs,           \* slots of rig runs, each with its BudgetHook
          Callers,        \* tasks that call the provider and charge themselves
          InitialLimit,   \* the agent's limit, in nano-dollars
          Entries,        \* the LiteLLM file the price tables are made from
          OwnModel,       \* the private model that the hooks' table lists besides
          Model,          \* Model[a]: the model name that a charges for
          ListPrice,      \* what the provider bills per token
          Tokenizers,     \* the models whose tokenizer is known
          KillOnRefusal,  \* the runs whose hooks kill on a refusal
          Calls,          \* tokens of one model call: fresh, read, written, output
          GrowAmounts,    \* amounts an operator raises the limit by
          GrowBound,      \* bound of the model: the limit never grows past it
          MaxRuns,        \* bound of the model: started[a] never grows past MaxRuns[a]
          MayDrop         \* TRUE when a run may be dropped while it charges

\* The price tables are right: what they list is what the provider bills, and no
\* prompt is longer than a u64 counts.
ASSUME HookAssumption ==
    /\ Runs \cap Callers = {} /\ IsFiniteSet(Runs \cup Callers)
    /\ InitialLimit \in Nat \ {0}
    /\ ListPrice \in Prices /\ {"cacheRead", "cacheWrite"} \subseteq DOMAIN ListPrice
    /\ \A m \in DOMAIN FromLitellm(Entries) : Entries[m] = ListPrice
    /\ KillOnRefusal \subseteq Runs
    /\ \A c \in Callers : <<Model[c][Len(Model[c])]>> \in Tokenizers
    /\ Calls \subseteq [fresh : U64, read : U64, written : U64, output : U64]
    /\ \A call \in Calls : call.fresh + call.read + call.written <= MaxU64
    /\ GrowAmounts \subseteq Nat
    /\ GrowBound \in Nat /\ InitialLimit <= GrowBound
    /\ MaxRuns \in [Runs \cup Callers -> Nat]
    /\ MayDrop \in BOOLEAN

VARIABLES spent, limit,   \* AtomicBudget, as HardCap
          killed,         \* AtomicBool
          pc,             \* pc[a]: what a does next
          seen,           \* seen[a]: the spend a read
          cost,           \* cost[a]: what a is charging
          due,            \* history: due[a], what the provider bills for it
          paid,           \* history: all the provider has billed
          lost,           \* history: billed, and refused, dropped or without a price
          started,        \* history: started[a], runs begun before the kill, calls
          uncharged,      \* history: uncharged[r], turns of r that were not charged
          late,           \* history: late[r], turns billed to r after the kill
          begunOn         \* history: begunOn[r], the budget r's run found: open, spent, killed

budget == <<spent, limit>>
bills == <<due, paid, lost>>
counts == <<started, uncharged, late>>
vars == <<budget, killed, pc, seen, cost, bills, counts, begunOn>>

Budget == INSTANCE HardCap
              WITH accepted <- spent, cap <- limit, Costs <- {},
                   ShrinkAmounts <- {}, GrowAmounts <- GrowAmounts

Actors == Runs \cup Callers

\* The built-in table, which charge_usage and charge_model_text use, and the one
\* a hook was given by with_price_table.
Builtin == FromLitellm(Entries)
Table == Insert(Builtin, OwnModel, ListPrice)

Goto(a, next) == pc' = [pc EXCEPT ![a] = next]

\* a's run or call is over.
Stop(a) ==
    /\ Goto(a, "idle")
    /\ seen' = [seen EXCEPT ![a] = 0]
    /\ cost' = [cost EXCEPT ![a] = 0]
    /\ due' = [due EXCEPT ![a] = 0]
    /\ begunOn' = [r \in Runs |-> IF r = a THEN "open" ELSE begunOn[r]]

Init ==
    /\ spent = 0 /\ limit = InitialLimit
    /\ killed = FALSE
    /\ pc = [a \in Actors |-> "idle"]
    /\ seen = [a \in Actors |-> 0]
    /\ cost = [a \in Actors |-> 0]
    /\ due = [a \in Actors |-> 0]
    /\ paid = 0 /\ lost = 0
    /\ started = [a \in Actors |-> 0]
    /\ uncharged = [r \in Runs |-> 0]
    /\ late = [r \in Runs |-> 0]
    /\ begunOn = [r \in Runs |-> "open"]

-------------------------------------------------------------------------------
(***************************************************************************)
(* The provider: how it reports the tokens of a call, by the table of      *)
(* src/usage.rs, and what it bills for them.                               *)
(***************************************************************************)
Bill(call) ==
    call.fresh * ListPrice.input + call.read * ListPrice.cacheRead
        + call.written * ListPrice.cacheWrite + call.output * ListPrice.output

\* The usage blocks the APIs send for a call. Only Anthropic reports cache
\* writes, and counts the cache beside input_tokens. A streamed response may
\* come without a block.
Blocks(call) ==
    LET whole == call.fresh + call.read
    IN  {[f \in {} |-> 0],
         [input_tokens |-> call.fresh, cache_read_input_tokens |-> call.read,
          cache_creation_input_tokens |-> call.written, output_tokens |-> call.output]}
        \cup IF call.written > 0 THEN {} ELSE
             {[prompt_tokens |-> whole, prompt_tokens_details |-> call.read,
               completion_tokens |-> call.output],
              [input_tokens |-> whole, input_tokens_details |-> call.read,
               output_tokens |-> call.output],
              [promptTokenCount |-> whole, cachedContentTokenCount |-> call.read,
               candidatesTokenCount |-> 0, thoughtsTokenCount |-> call.output]}

\* The usage of a turn as rig reports it, with the cost where the provider
\* gives one; -1 stands for a cost that is no amount, negative or not finite.
Turns(call) ==
    LET usage == [input_tokens |-> call.fresh + call.read + call.written,
                  cached_input_tokens |-> call.read,
                  cache_creation_input_tokens |-> call.written,
                  output_tokens |-> call.output]
        costing(c) == [f \in DOMAIN usage \cup {"cost"} |-> IF f = "cost" THEN c ELSE usage[f]]
    IN  {usage, costing(Bill(call)), costing(-1)}

-------------------------------------------------------------------------------
(***************************************************************************)
(* on_completion_call                                                      *)
(***************************************************************************)
StartRun(r) ==
    /\ pc[r] = "idle"
    /\ killed \/ started[r] < MaxRuns[r]
    /\ started' = [started EXCEPT ![r] = @ + IF killed THEN 0 ELSE 1]
    /\ begunOn' = [begunOn EXCEPT ![r] = IF killed THEN "killed"
                                        ELSE IF spent >= limit THEN "spent" ELSE "open"]
    /\ Goto(r, "ask")
    /\ UNCHANGED <<budget, killed, seen, cost, bills, uncharged, late>>

\* Mutant: a killed run is put on hold.
HoldKilled(r) ==
    /\ pc[r] = "ask"
    /\ killed
    /\ UNCHANGED vars

StopKilled(r) ==
    /\ pc[r] = "ask"
    /\ killed
    /\ Stop(r)
    /\ UNCHANGED <<budget, killed, paid, lost, counts>>

\* Mutant: the kill switch is left to the charge.
AskNothing(r) ==
    /\ pc[r] = "ask"
    /\ Goto(r, "readSpent")
    /\ UNCHANGED <<budget, killed, seen, cost, bills, counts, begunOn>>

AskKilled(r) ==
    /\ pc[r] = "ask"
    /\ ~killed
    /\ Goto(r, "readSpent")
    /\ UNCHANGED <<budget, killed, seen, cost, bills, counts, begunOn>>

\* remaining_usd loads spent_nanos, then limit_nanos.
ReadSpent(r) ==
    /\ pc[r] = "readSpent"
    /\ seen' = [seen EXCEPT ![r] = spent]
    /\ Goto(r, "readLimit")
    /\ UNCHANGED <<budget, killed, cost, bills, counts, begunOn>>

StopExhausted(r) ==
    /\ pc[r] = "readLimit"
    /\ seen[r] >= limit
    /\ Stop(r)
    /\ UNCHANGED <<budget, killed, paid, lost, counts>>

\* Mutant: nothing left counts as room for a call.
CallModelAtCap(r) ==
    /\ pc[r] = "readLimit"
    /\ seen[r] <= limit
    /\ seen' = [seen EXCEPT ![r] = 0]
    /\ Goto(r, "model")
    /\ UNCHANGED <<budget, killed, cost, bills, counts, begunOn>>

CallModel(r) ==
    /\ pc[r] = "readLimit"
    /\ seen[r] < limit
    /\ seen' = [seen EXCEPT ![r] = 0]
    /\ Goto(r, "model")
    /\ UNCHANGED <<budget, killed, cost, bills, counts, begunOn>>

\* The run ends by itself, or the model call fails.
EndRun(r) ==
    /\ pc[r] \in {"ask", "model"}
    /\ Stop(r)
    /\ UNCHANGED <<budget, killed, paid, lost, counts>>

-------------------------------------------------------------------------------
(***************************************************************************)
(* on_model_turn_finished                                                  *)
(***************************************************************************)
\* The provider has answered and bills the turn.
Billed(r, bill) ==
    /\ paid' = paid + bill
    /\ late' = [late EXCEPT ![r] = @ + IF killed THEN 1 ELSE 0]
    /\ UNCHANGED <<budget, killed, started>>

\* The provider's cost is charged if it gives an amount, the table's otherwise.
CostGiven(turn) == Has(turn, "cost") /\ turn.cost >= 0

Priced(model, turn) == CostGiven(turn) \/ Knows(Table, model)

TurnCost(model, turn) ==
    IF CostGiven(turn) THEN turn.cost ELSE CostUsage(Get(Table, model), FromRig(turn))

FinishTurn(r) ==
    /\ pc[r] = "model"
    /\ \E call \in Calls : \E turn \in Turns(call) :
         /\ Priced(Model[r], turn)
         /\ cost' = [cost EXCEPT ![r] = TurnCost(Model[r], turn)]
         /\ due' = [due EXCEPT ![r] = Bill(call)]
         /\ Billed(r, Bill(call))
    /\ Goto(r, "killCheck")
    /\ UNCHANGED <<seen, lost, uncharged, begunOn>>

\* The run stops at a model without a price; the budget is not killed.
FinishUnknown(r) ==
    /\ pc[r] = "model"
    /\ \E call \in Calls : \E turn \in Turns(call) :
         /\ ~Priced(Model[r], turn)
         /\ lost' = lost + Bill(call)
         /\ Billed(r, Bill(call))
    /\ uncharged' = [uncharged EXCEPT ![r] = @ + 1]
    /\ Stop(r)

-------------------------------------------------------------------------------
(***************************************************************************)
(* charge_usage, called with the usage block of a response, and            *)
(* charge_model_text, called with the prompt and the completion            *)
(***************************************************************************)
\* c has called the provider and pays; the charge begins unless the usage block
\* or the model is unknown.
ChargeCall(c, call, known, charged) ==
    /\ pc[c] = "idle"
    /\ started[c] < MaxRuns[c]
    /\ started' = [started EXCEPT ![c] = @ + 1]
    /\ paid' = paid + Bill(call)
    /\ IF known
       THEN /\ cost' = [cost EXCEPT ![c] = charged]
            /\ due' = [due EXCEPT ![c] = Bill(call)]
            /\ Goto(c, "killCheck")
            /\ UNCHANGED <<seen, lost>>
       ELSE /\ lost' = lost + Bill(call)
            /\ Stop(c)
    /\ UNCHANGED <<budget, killed, uncharged, late, begunOn>>

ChargeUsage(c, call) ==
    \E block \in Blocks(call) :
        ChargeCall(c, call, Recognised(block) /\ Knows(Builtin, Model[c]),
                   CostUsage(Get(Builtin, Model[c]), FromValue(block)))

\* A text does not tell what came from the cache, so this is for calls without.
\* The stand-in tokenizer splits the text into one token more.
ChargeText(c, call) ==
    LET Text(n) == [own |-> n, standIn |-> n + 1]
    IN  /\ call.read = 0 /\ call.written = 0
        /\ ChargeCall(c, call, Knows(Builtin, Model[c]),
                      CostOfText(Builtin, Tokenizers, Model[c], Text(call.fresh), Text(call.output)))

-------------------------------------------------------------------------------
(***************************************************************************)
(* charge_inner, and what the hook makes of its result                     *)
(***************************************************************************)
PassKillCheck(a) ==
    /\ pc[a] = "killCheck"
    /\ ~killed
    /\ Goto(a, "charge")
    /\ UNCHANGED <<budget, killed, seen, cost, bills, counts, begunOn>>

\* Mutant: the cap is looked at before the charge only.
AcceptIfRoom(a) ==
    /\ pc[a] = "charge"
    /\ spent < limit
    /\ spent' = spent + cost[a]
    /\ cost' = [cost EXCEPT ![a] = 0]
    /\ due' = [due EXCEPT ![a] = 0]
    /\ Goto(a, IF a \in Runs THEN "ask" ELSE "idle")
    /\ UNCHANGED <<limit, killed, seen, paid, lost, counts, begunOn>>

\* The charge is accepted: the run goes on to its next model call.
Accept(a) ==
    /\ pc[a] = "charge"
    /\ Budget!Accept(cost[a])
    /\ cost' = [cost EXCEPT ![a] = 0]
    /\ due' = [due EXCEPT ![a] = 0]
    /\ Goto(a, IF a \in Runs THEN "ask" ELSE "idle")
    /\ UNCHANGED <<killed, seen, paid, lost, counts, begunOn>>

\* The charge is refused: a run stops, once it has killed the budget if its
\* hook does so.
Refuse(a) ==
    /\ lost' = lost + due[a]
    /\ uncharged' = [r \in Runs |-> uncharged[r] + IF r = a THEN 1 ELSE 0]
    /\ cost' = [cost EXCEPT ![a] = 0]
    /\ due' = [due EXCEPT ![a] = 0]
    /\ Goto(a, IF a \in KillOnRefusal THEN "kill" ELSE "idle")
    /\ UNCHANGED <<budget, killed, seen, paid, started, late, begunOn>>

RefuseKilled(a) ==
    /\ pc[a] = "killCheck"
    /\ killed
    /\ Refuse(a)

RefuseExhausted(a) ==
    /\ pc[a] = "charge"
    /\ spent + cost[a] > limit
    /\ Refuse(a)

\* Mutant: the run stops and leaves the budget alive.
LeaveAlive(r) ==
    /\ pc[r] = "kill"
    /\ Stop(r)
    /\ UNCHANGED <<budget, killed, paid, lost, counts>>

Kill(r) ==
    /\ pc[r] = "kill"
    /\ killed' = TRUE
    /\ Stop(r)
    /\ UNCHANGED <<budget, paid, lost, counts>>

\* The future of the run or call is dropped while charge_inner waits for the
\* cascade lock.
Drop(a) ==
    /\ MayDrop
    /\ pc[a] = "killCheck"
    /\ lost' = lost + due[a]
    /\ Stop(a)
    /\ UNCHANGED <<budget, killed, paid, counts>>

-------------------------------------------------------------------------------
(***************************************************************************)
(* What others do to the shared budget                                     *)
(***************************************************************************)
OperatorKill ==
    /\ ~killed
    /\ killed' = TRUE
    /\ UNCHANGED <<budget, pc, seen, cost, bills, counts, begunOn>>

\* A raised limit gives the runs that have begun something to spend.
GrowLimit ==
    /\ \E amount \in GrowAmounts :
         /\ limit + amount <= GrowBound
         /\ Budget!Raise(amount)
    /\ begunOn' = [r \in Runs |-> IF begunOn[r] = "spent" THEN "open" ELSE begunOn[r]]
    /\ UNCHANGED <<killed, pc, seen, cost, bills, started, uncharged, late>>

Charging(a) ==
    PassKillCheck(a) \/ RefuseKilled(a) \/ Accept(a) \/ RefuseExhausted(a)

\* The steps of a run once it has begun.
Running(r) ==
    \/ StopKilled(r) \/ AskKilled(r) \/ ReadSpent(r) \/ StopExhausted(r) \/ CallModel(r)
    \/ FinishTurn(r) \/ FinishUnknown(r) \/ Charging(r) \/ Kill(r)

Next ==
    \/ \E r \in Runs : StartRun(r) \/ Running(r) \/ EndRun(r)
    \/ \E c \in Callers :
         \/ \E call \in Calls : ChargeUsage(c, call) \/ ChargeText(c, call)
         \/ Charging(c)
    \/ \E a \in Actors : Drop(a)
    \/ OperatorKill
    \/ GrowLimit

Spec == Init /\ [][Next]_vars

\* The runtime polls every run that can go on, and every model call returns.
FairSpec == Spec /\ \A r \in Runs : WF_vars(Running(r))
-------------------------------------------------------------------------------
TypeOK ==
    /\ spent \in 0..GrowBound /\ limit \in 0..GrowBound
    /\ killed \in BOOLEAN
    /\ pc \in [Actors -> {"idle", "ask", "readSpent", "readLimit", "model",
                         "killCheck", "charge", "kill"}]
    /\ seen \in [Actors -> Nat] /\ cost \in [Actors -> Nat] /\ due \in [Actors -> Nat]
    /\ paid \in Nat /\ lost \in Nat
    /\ started \in [Actors -> Nat] /\ \A a \in Actors : started[a] <= MaxRuns[a]
    /\ uncharged \in [Runs -> Nat] /\ late \in [Runs -> Nat]
    /\ begunOn \in [Runs -> {"open", "spent", "killed"}]

\* The agent's spend is the provider's bill: whichever API reported the call,
\* with whatever cache, what was billed is spent, on its way to be charged, or
\* was refused, dropped or without a price (src/usage.rs: "Charge exactly what
\* the provider reported").
BillAccounted ==
    paid = spent + lost + SumOf(due, Actors)

\* The cap is overrun by one turn per run and no more: a hook that kills on a
\* refusal has one uncharged turn in all its runs, and a hook that does not, or
\* has no price for its model, one in each run (doc of BudgetHook: "any later
\* run sharing it stops before its first call instead of paying for one more
\* turn and being refused again"). Turns of dropped runs are not counted here.
OneUnchargedTurn ==
    \A r \in Runs :
        uncharged[r] <= IF r \in KillOnRefusal /\ Knows(Table, Model[r])
                        THEN 1 ELSE started[r]

\* Once the budget is killed, by whomever, every hook lets at most the one model
\* call return that it had let pass before.
OneLateTurn == \A r \in Runs : late[r] <= 1

\* A run on a budget that is already spent or killed stops before its first
\* paid call (src/rig.rs:6), unless the limit is raised in time.
SpentOrKilledPaysNothing ==
    \A r \in Runs : begunOn[r] # "open" => pc[r] \in {"idle", "ask", "readSpent", "readLimit"}

\* No run goes on for ever: turns cost money, and in the end the cap, the kill
\* switch or a refusal stops it.
RunsEnd == \A r \in Runs : pc[r] # "idle" ~> pc[r] = "idle"
===============================================================================
