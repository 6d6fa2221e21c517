----------------------------- MODULE AgentBudget -----------------------------
(***************************************************************************)
(* AgentBudget and BudgetEnvelope of src/budget/mod.rs with the cascade of *)
(* src/model.rs and the metrics of src/observe.rs: several tasks charge,   *)
(* kill, shrink and grow one agent.                                        *)
(* A step runs from one shared access or lock acquisition to the next.     *)
(* The atomic budget is AtomicBudget, access by access: what a charge      *)
(* publishes and judges is read from the raw counters, with the charges    *)
(* and shrinks of others half done.                                        *)
(***************************************************************************)
EXTENDS AtomicBudget, Cascade, Sequences, Sums

CONSTANTS Callers,        \* tasks that charge and kill the agent
          Movers,         \* tasks that shrink and grow its limit
          InitialTier,
          PressurePct,    \* cascade_threshold in percent
          Requests,       \* <<input, output>> tokens of the calls charge prices
          ExactCosts,     \* costs of charge_model, charge_usage, charge_usd
          MaxAttempts,    \* bound of the model: calls of the charge functions
          MayCancel       \* TRUE when a caller may drop a charge that awaits a lock

ASSUME AgentAssumption ==
    /\ Threads = Callers \cup Movers
    /\ Callers \cap Movers = {} /\ IsFiniteSet(Callers)
    /\ InitialLimit > 0
    /\ InitialTier \in Tiers
    /\ PressurePct \in 0..100
    /\ Requests \subseteq Nat \X Nat
    /\ \A tier \in Tiers, r \in Requests : EstimateCost(tier, r[1], r[2]) \in Costs
    /\ ExactCosts \subseteq Costs
    /\ MaxAttempts \in Nat
    /\ MayCancel \in BOOLEAN

VARIABLES killed,            \* AtomicBool
          killReason,        \* a reason has been stored
          log,               \* Vec<SpendRecord>
          cascade,           \* ModelCascade
          counted,           \* counter llm_budget_charges_total by outcome
          gauge,             \* gauges llm_budget_spent_usd and _remaining_usd
          call,              \* call[t]: where task t is in its call
          record,            \* record[t]: the SpendRecord of t's charge
          got,               \* got[t]: the spend, remainder or new limit t was given
          attempts,          \* history: charge calls begun
          lateCharges,       \* history: lateCharges[t], accepted after the kill
          dropped,           \* history: the charges dropped before the log, and their cost
          crowded,           \* history: two charges have waited for the log at once
          crossed,           \* history: half-done charges that met another one
          behind,            \* history: a reason why the gauges may be off
          timely,            \* history: charges that loaded the spend since limit or
                             \* total last moved and since a charge was last dropped
          judged,            \* history: the cascade has judged such a load
          firm               \* history: charges that loaded the spend since room was
                             \* last made, by a grow or by the undo of another call

atomics == vars
switch == <<killed, killReason>>
metrics == <<counted, gauge>>
locals == <<record, got>>
books == <<attempts, lateCharges, dropped, crowded>>
doubts == <<crossed, behind>>
judging == <<timely, judged, firm>>
agentVars == <<atomics, switch, log, cascade, metrics, call, locals, books, doubts, judging>>

Tasks == Callers \cup Movers

Step(t, next) == call' = [call EXCEPT ![t] = next]

\* What a record keeps of a charge: the tier the agent was on and the cost, with
\* the total the charge returned and (history) what the charges accepted by then
\* add up to, which is how the log's order is told.
Records == [tier : Tiers, cost : Nat, total : Nat, sum : Nat]
NoRecord == [tier |-> Local, cost |-> 0, total |-> 0, sum |-> 0]

Outcomes == {"accepted", "refused", "killed"}
Unset == -1     \* a gauge before the first charge sets it

\* t's call is over.
Done(t) ==
    /\ Step(t, "idle")
    /\ record' = [record EXCEPT ![t] = NoRecord]
    /\ got' = [got EXCEPT ![t] = 0]

\* observe::refused and observe::charged count the call's outcome.
Count(outcome) == counted' = [counted EXCEPT ![outcome] = @ + 1]

AgentInit ==
    /\ Init
    /\ killed = FALSE /\ killReason = FALSE
    /\ log = <<>>
    /\ cascade \in NewCascades(InitialTier, PressurePct, InitialLimit)
    /\ counted = [outcome \in Outcomes |-> 0]
    /\ gauge = [spent |-> Unset, remaining |-> Unset]
    /\ call = [t \in Tasks |-> "idle"]
    /\ record = [t \in Tasks |-> NoRecord]
    /\ got = [t \in Tasks |-> 0]
    /\ attempts = 0
    /\ lateCharges = [t \in Callers |-> 0]
    /\ dropped = [charges |-> 0, cost |-> 0]
    /\ crowded = FALSE
    /\ crossed = {} /\ behind = TRUE
    /\ timely = {} /\ judged = FALSE /\ firm = {}

-------------------------------------------------------------------------------
(***************************************************************************)
(* charge_inner                                                            *)
(***************************************************************************)
\* The tier is read under the cascade lock; it prices the charge unless the
\* caller brought an exact cost.
ReadTier(t) ==
    /\ call[t] = "idle"
    /\ attempts < MaxAttempts
    /\ attempts' = attempts + 1
    /\ \E c \in ExactCosts \cup {EstimateCost(cascade.current, r[1], r[2]) : r \in Requests} :
         record' = [record EXCEPT ![t] = [NoRecord EXCEPT !.tier = cascade.current, !.cost = c]]
    /\ Step(t, "killCheck")
    /\ UNCHANGED <<atomics, switch, log, cascade, metrics, got, lateCharges, dropped, crowded,
                   doubts, judging>>

\* Mutant: the kill switch is not looked at.
PassUnchecked(t) ==
    /\ call[t] = "killCheck"
    /\ StartCharge(t, record[t].cost)
    /\ Step(t, "charge")
    /\ UNCHANGED <<switch, log, cascade, metrics, locals, books, doubts, judging>>

\* The switch is off, and inner.charge begins.
PassKillCheck(t) ==
    /\ call[t] = "killCheck"
    /\ ~killed
    /\ StartCharge(t, record[t].cost)
    /\ Step(t, "charge")
    /\ UNCHANGED <<switch, log, cascade, metrics, locals, books, doubts, judging>>

RefuseKilled(t) ==
    /\ call[t] = "killCheck"
    /\ killed
    /\ Count("killed")
    /\ Done(t)
    /\ UNCHANGED <<atomics, switch, log, cascade, gauge, books, doubts, judging>>

\* inner.charge looks at the two atomics and has not written yet.
TryCharge(t) ==
    /\ call[t] = "charge"
    /\ ChargeLoad(t) \/ ChargeRefuse(t) \/ ChargeFits(t) \/ ChargeRetry(t) \/ ChargeOverrun(t)
    /\ UNCHANGED <<switch, log, cascade, metrics, call, locals, books, doubts, judging>>

\* inner.charge writes its total, and takes it back if the limit was lowered.
WriteTotal(t) ==
    /\ call[t] = "charge"
    /\ ChargeSwap(t)
    /\ crossed' = IF PendingCharges = {} THEN crossed ELSE crossed \cup PendingCharges \cup {t}
    /\ UNCHANGED <<switch, log, cascade, metrics, call, locals, books, behind, judging>>

UndoTotal(t) ==
    /\ call[t] = "charge"
    /\ ChargeUndo(t)
    /\ crossed' = crossed \ {t}
    /\ firm' = {}
    /\ UNCHANGED <<switch, log, cascade, metrics, call, locals, books, behind, timely, judged>>

\* Accepted charges that have not reached both gauges.
Unpublished == {t \in Callers : call[t] \in {"log", "readSpent", "readLimit", "count",
                                             "gaugeSpent", "gaugeRemaining"}}

\* inner.charge returns Ok(total).
Accept(t) ==
    /\ call[t] = "charge"
    /\ ChargeAccept(t)
    /\ record' = [record EXCEPT ![t].total = NewTotal(t), ![t].sum = accepted']
    /\ lateCharges' = [lateCharges EXCEPT ![t] = @ + IF killed THEN 1 ELSE 0]
    /\ crowded' = (crowded \/ \E u \in Callers : call[u] = "log")
    /\ behind' = (Unpublished # {} \/ t \in crossed)
    /\ crossed' = crossed \ {t}
    /\ Step(t, "log")
    /\ UNCHANGED <<switch, log, cascade, metrics, got, attempts, dropped, judging>>

\* inner.charge returned Err.
RefuseExhausted(t) ==
    /\ call[t] = "charge"
    /\ pc[t] = "refused"
    /\ Count("refused")
    /\ Done(t)
    /\ UNCHANGED <<atomics, switch, log, cascade, gauge, books, doubts, judging>>

\* Mutant: records are put in front.
PushRecordFirst(t) ==
    /\ call[t] = "log"
    /\ log' = <<record[t]>> \o log
    /\ Step(t, "readSpent")
    /\ UNCHANGED <<atomics, switch, cascade, metrics, locals, books, doubts, judging>>

\* log.write().await.push(record)
PushRecord(t) ==
    /\ call[t] = "log"
    /\ log' = Append(log, record[t])
    /\ Step(t, "readSpent")
    /\ UNCHANGED <<atomics, switch, cascade, metrics, locals, books, doubts, judging>>

\* Calls of others between their write and their return, at a load of the atomics.
HalfDone == PendingCharges \cup PendingShrinks # {}

\* remaining_usd loads spent_nanos, then limit_nanos.
ReadSpent(t) ==
    /\ call[t] = "readSpent"
    /\ got' = [got EXCEPT ![t] = spent]
    /\ Step(t, "readLimit")
    /\ behind' = (behind \/ HalfDone)
    /\ timely' = timely \cup {t}
    /\ firm' = firm \cup {t}
    /\ UNCHANGED <<atomics, switch, log, cascade, metrics, record, books, crossed, judged>>

\* Mutant: the remainder is what was left when the charge was accepted minus
\* its cost once more.
ReadLimitTwice(t) ==
    /\ call[t] = "readLimit"
    /\ got' = [got EXCEPT ![t] = SaturatingSub(limit, @ + record[t].cost)]
    /\ Step(t, "count")
    /\ behind' = (behind \/ HalfDone)
    /\ UNCHANGED <<atomics, switch, log, cascade, metrics, record, books, crossed, judging>>

ReadLimit(t) ==
    /\ call[t] = "readLimit"
    /\ got' = [got EXCEPT ![t] = SaturatingSub(limit, @)]
    /\ Step(t, "count")
    /\ behind' = (behind \/ HalfDone)
    /\ UNCHANGED <<atomics, switch, log, cascade, metrics, record, books, crossed, judging>>

\* observe::charged counts the charge and then sets one gauge after the other,
\* to the total the charge returned and the remainder read after it.
CountAccepted(t) ==
    /\ call[t] = "count"
    /\ Count("accepted")
    /\ Step(t, "gaugeSpent")
    /\ UNCHANGED <<atomics, switch, log, cascade, gauge, locals, books, doubts, judging>>

\* Mutant: the cost of the charge is published in place of the total.
SetSpentToCost(t) ==
    /\ call[t] = "gaugeSpent"
    /\ gauge' = [gauge EXCEPT !.spent = record[t].cost]
    /\ Step(t, "gaugeRemaining")
    /\ UNCHANGED <<atomics, switch, log, cascade, counted, locals, books, doubts, judging>>

SetSpent(t) ==
    /\ call[t] = "gaugeSpent"
    /\ gauge' = [gauge EXCEPT !.spent = record[t].total]
    /\ Step(t, "gaugeRemaining")
    /\ UNCHANGED <<atomics, switch, log, cascade, counted, locals, books, doubts, judging>>

SetRemaining(t) ==
    /\ call[t] = "gaugeRemaining"
    /\ gauge' = [gauge EXCEPT !.remaining = got[t]]
    /\ Step(t, "evaluate")
    /\ UNCHANGED <<atomics, switch, log, cascade, counted, locals, books, doubts, judging>>

\* ModelCascade::evaluate under the cascade lock, with the remainder read before.
JudgePressure(t) ==
    /\ call[t] = "evaluate"
    /\ cascade' = Evaluate(cascade, got[t])
    /\ Done(t)
    /\ judged' = (judged \/ t \in timely)
    /\ timely' = timely \ {t}
    /\ firm' = firm \ {t}
    /\ UNCHANGED <<atomics, switch, log, metrics, books, doubts>>

\* The spend, the limit or the total is no longer what the cascade judged.
Unjudged ==
    /\ judged' = FALSE
    /\ timely' = {}

\* Mutant: a dropped charge is counted as refused.
CancelCounted(t) ==
    /\ MayCancel
    /\ call[t] \in {"log", "evaluate", "setTotal"}
    /\ dropped' = IF call[t] = "log"
                  THEN [charges |-> dropped.charges + 1, cost |-> dropped.cost + record[t].cost]
                  ELSE dropped
    /\ behind' = (behind \/ call[t] = "log")
    /\ Count("refused")
    /\ Done(t)
    /\ Unjudged
    /\ firm' = firm \ {t}
    /\ UNCHANGED <<atomics, switch, log, cascade, gauge, attempts, lateCharges, crowded, crossed>>

\* The future is dropped while it waits for the log or the cascade lock.
Cancel(t) ==
    /\ MayCancel
    /\ call[t] \in {"log", "evaluate", "setTotal"}
    /\ dropped' = IF call[t] = "log"
                  THEN [charges |-> dropped.charges + 1, cost |-> dropped.cost + record[t].cost]
                  ELSE dropped
    /\ behind' = (behind \/ call[t] = "log")
    /\ Done(t)
    /\ Unjudged
    /\ firm' = firm \ {t}
    /\ UNCHANGED <<atomics, switch, log, cascade, metrics, attempts, lateCharges, crowded, crossed>>

-------------------------------------------------------------------------------
(***************************************************************************)
(* kill stores the reason, then the flag.                                  *)
(***************************************************************************)
\* Mutant: the flag is stored first.
StoreFlagFirst(t) ==
    /\ call[t] = "idle"
    /\ killed' = TRUE
    /\ Step(t, "kill")
    /\ UNCHANGED <<atomics, killReason, log, cascade, metrics, locals, books, doubts, judging>>

StoreReason(t) ==
    /\ call[t] = "idle"
    /\ killReason' = TRUE
    /\ Step(t, "kill")
    /\ UNCHANGED <<atomics, killed, log, cascade, metrics, locals, books, doubts, judging>>

StoreKilled(t) ==
    /\ call[t] = "kill"
    /\ killed' = TRUE
    /\ Step(t, "idle")
    /\ UNCHANGED <<atomics, killReason, log, cascade, metrics, locals, books, doubts, judging>>

-------------------------------------------------------------------------------
(***************************************************************************)
(* shrink_limit and grow_limit move the atomic limit and only then, under  *)
(* the cascade lock, tell the cascade the limit they were given back.      *)
(***************************************************************************)
BeginShrink(t) ==
    /\ call[t] = "idle"
    /\ \E amount \in ShrinkAmounts : StartShrink(t, amount)
    /\ Step(t, "shrink")
    /\ UNCHANGED <<switch, log, cascade, metrics, locals, books, doubts, judging>>

\* The atomic shrink_limit, up to the check that accepts it and without its undo.
TryShrink(t) ==
    /\ call[t] = "shrink"
    /\ \/ ShrinkLoad(t) \/ ShrinkRefuse(t) \/ ShrinkFits(t) \/ ShrinkSwap(t) \/ ShrinkRetry(t)
       \/ ShrinkOverrun(t) \/ ShrinkReport(t) \/ ShrinkReturn(t)
    /\ UNCHANGED <<switch, log, cascade, metrics, call, locals, books, doubts, judging>>

UndoLimit(t) ==
    /\ call[t] = "shrink"
    /\ ShrinkUndo(t)
    /\ firm' = {}
    /\ UNCHANGED <<switch, log, cascade, metrics, call, locals, books, doubts, timely, judged>>

Shrunk(t) ==
    /\ call[t] = "shrink"
    /\ ShrinkAccept(t)
    /\ got' = [got EXCEPT ![t] = NewLimit(t)]
    /\ Step(t, "setTotal")
    /\ behind' = TRUE
    /\ Unjudged
    /\ UNCHANGED <<switch, log, cascade, metrics, record, books, crossed, firm>>

ShrinkRefused(t) ==
    /\ call[t] = "shrink"
    /\ pc[t] = "kept"
    /\ Done(t)
    /\ UNCHANGED <<atomics, switch, log, cascade, metrics, books, doubts, judging>>

GrowLimit(t) ==
    /\ call[t] = "idle"
    /\ \E amount \in GrowAmounts :
         /\ Grow(t, amount)
         /\ got' = [got EXCEPT ![t] = SaturatingAdd(limit, amount)]
    /\ Step(t, "setTotal")
    /\ behind' = TRUE
    /\ Unjudged
    /\ firm' = {}
    /\ UNCHANGED <<switch, log, cascade, metrics, record, books, crossed>>

TellCascade(t) ==
    /\ call[t] = "setTotal"
    /\ cascade' = SetTotalBudget(cascade, got[t])
    /\ Done(t)
    /\ Unjudged
    /\ UNCHANGED <<atomics, switch, log, metrics, books, doubts, firm>>

ChargeCall(t) ==
    \/ ReadTier(t) \/ PassKillCheck(t) \/ RefuseKilled(t)
    \/ TryCharge(t) \/ WriteTotal(t) \/ UndoTotal(t) \/ Accept(t) \/ RefuseExhausted(t)
    \/ PushRecord(t) \/ ReadSpent(t) \/ ReadLimit(t)
    \/ CountAccepted(t) \/ SetSpent(t) \/ SetRemaining(t) \/ JudgePressure(t)

KillCall(t) == StoreReason(t) \/ StoreKilled(t)

MoveCall(t) ==
    \/ BeginShrink(t) \/ TryShrink(t) \/ UndoLimit(t) \/ Shrunk(t) \/ ShrinkRefused(t)
    \/ GrowLimit(t) \/ TellCascade(t)

AgentNext ==
    \/ \E t \in Callers : ChargeCall(t) \/ KillCall(t)
    \/ \E t \in Movers : MoveCall(t)
    \/ \E t \in Tasks : Cancel(t)

AgentSpec == AgentInit /\ [][AgentNext]_agentVars
-------------------------------------------------------------------------------
AgentTypeOK ==
    /\ killed \in BOOLEAN /\ killReason \in BOOLEAN
    /\ log \in Seq(Records)
    /\ cascade \in Cascades
    /\ counted \in [Outcomes -> Nat]
    /\ gauge \in [spent : Nat \cup {Unset}, remaining : Nat \cup {Unset}]
    /\ call \in [Tasks -> {"idle", "killCheck", "charge", "log", "readSpent", "readLimit",
                          "count", "gaugeSpent", "gaugeRemaining", "evaluate", "kill",
                          "shrink", "setTotal"}]
    /\ record \in [Tasks -> Records]
    /\ got \in [Tasks -> Nat]
    /\ attempts \in 0..MaxAttempts
    /\ lateCharges \in [Callers -> Nat]
    /\ dropped \in [charges : Nat, cost : Nat]
    /\ crowded \in BOOLEAN /\ behind \in BOOLEAN /\ judged \in BOOLEAN
    /\ crossed \subseteq Callers /\ timely \subseteq Callers /\ firm \subseteq Callers

Idle(tasks) == \A t \in tasks : call[t] = "idle"

\* The kill switch stops an agent that many tasks charge: a task that had
\* passed the check may still get its one charge accepted, and after that no
\* charge of it ever is (doc of kill: "every later charge is refused").
OneLateChargeEach == \A t \in Callers : lateCharges[t] <= 1

\* Whenever a charge is refused by the kill switch, the reason given to kill is
\* there to be reported; charge's fallback text is never needed.
RefusalHasReason == \A t \in Tasks : call[t] = "killCheck" /\ killed => killReason

\* What the log accounts for, and what was accepted and waits for the log lock.
Recorded == SumOf([i \in DOMAIN log |-> log[i].cost], DOMAIN log)
Unrecorded == SumOf([t \in Callers |-> record[t].cost], {t \in Callers : call[t] = "log"})

\* The log accounts for the whole spend: whenever no charge is half done,
\* spent_nanos is the sum of the records plus the charges that were accepted and
\* wait for the log lock (doc of audit_log: "Every accepted charge"), and what
\* is missing is exactly the charges whose callers dropped them while they waited.
AuditComplete ==
    PendingCharges = {} => spent = Recorded + Unrecorded + dropped.cost

\* The log is "oldest first" (doc of audit_log), by what the accepted charges
\* added up to, as long as no two charges have waited for its lock at once.
AuditOrderedApart ==
    ~crowded => \A i, j \in DOMAIN log : i < j => log[i].sum <= log[j].sum

\* Every attempt to charge is counted once, under its outcome (observe.rs:
\* "charge attempts"), but for those still under way and those dropped before
\* the log, which have spent their money uncounted.
AttemptsCounted ==
    counted["accepted"] + counted["refused"] + counted["killed"] + dropped.charges
        + Cardinality({t \in Callers : call[t] \in {"killCheck", "charge", "log", "readSpent",
                                                    "readLimit", "count"}}) = attempts

\* The gauges show the agent's spend and remainder (observe.rs: "total spent by
\* the agent", "budget left") once no charge is on its way to them.  Exceptions
\* are marked: the last accepted charge had met another half-done one or one on
\* its way to the gauges, or has read the atomics while a charge or a shrink was
\* half done; a charge was dropped or the limit moved since.
GaugeCurrent ==
    Unpublished = {} /\ ~behind => gauge = [spent |-> accepted, remaining |-> settled - accepted]

\* What remaining_usd returns when nobody interferes.
RoomLeft == SaturatingSub(limit, spent)

\* However late a charge judges its remainder, it goes down a tier only if the
\* remainder is still at or below the threshold (doc of evaluate: "downgrade if
\* under pressure"), unless room was made since it loaded the spend: by a grow,
\* or by a charge or a shrink that took back what it had written.
DowngradeJustified ==
    [][\A t \in firm :
          cascade'.current < cascade.current /\ call[t] = "evaluate" /\ call'[t] = "idle"
              => UnderPressure(cascade, RoomLeft)]_agentVars

\* And it does happen: once all calls have returned, an agent whose spend was
\* judged since the limit or total last moved (and since a charge was dropped),
\* and which is under pressure, is below the tier it started on, whichever of
\* the racing charges read the remainder last and whatever half-done calls it saw.
PressureNoticed ==
    Idle(Tasks) /\ judged /\ UnderPressure(cascade, settled - accepted)
        => cascade.current < InitialTier \/ InitialTier = Local

\* The budget the threshold is measured against is the limit in force once the
\* moves have returned (doc of set_total_budget: "Update the budget the threshold
\* is measured against (after a reallocation)"; a limit of zero leaves the old
\* total).  Not so when two moves set their totals in the opposite order.
TotalBudgetInStep == Idle(Movers) => cascade.total = settled \/ settled = 0
===============================================================================
