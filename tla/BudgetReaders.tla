----------------------------- MODULE BudgetReaders -----------------------------
(***************************************************************************)
(* What callers of an AtomicBudget are told while charges, shrinks and     *)
(* grows go on: the readers of src/budget/mod.rs make two loads with       *)
(* anything in between, the Exhausted error of a refused charge pairs the  *)
(* spend the refusal saw with a limit loaded later, and a refused shrink   *)
(* reports a remainder.  The actions of AtomicBudget are taken as they are.*)
(***************************************************************************)
EXTENDS AtomicBudget

CONSTANT Readers      \* threads that only read

VARIABLES reading,    \* reading[r]: what r has loaded, and which load is next
          report,     \* report[t]: the error of t's refused charge
          most,       \* history: the largest true remainder since r's first load
          raised,     \* history: the limit was raised since r's first load of the pair
          eased       \* history: another thread made room while t's call was
                      \* being turned down

observed == <<most, raised, eased>>
allVars == <<vars, reading, report, observed>>

Remaining == SaturatingSub(limit, spent)

NoReading == [next |-> "spent", spent |-> 0, limit |-> 0, torn |-> FALSE]
NoReport == [due |-> FALSE, spent |-> 0, limit |-> 0]

ReadersInit ==
    /\ Init
    /\ reading = [r \in Readers |-> NoReading]
    /\ report = [t \in Threads |-> NoReport]
    /\ most = [r \in Readers |-> 0]
    /\ raised = [r \in Readers |-> FALSE]
    /\ eased = [t \in Threads |-> FALSE]

-------------------------------------------------------------------------------
\* A charge between the check that turned it down and its error; a shrink between
\* its swap and the remainder it returns.
AnsweringCharge(t) == pc[t] = "chargeUndo" \/ report[t].due
AnsweringShrink(t) == pc[t] \in {"shrinkRecheck", "shrinkUndo", "shrinkReport", "shrinkReturn"}

\* What the histories make of a step of thread u.
Observe(u) ==
    /\ most' = [r \in Readers |-> IF Remaining' > most[r] THEN Remaining' ELSE most[r]]
    /\ raised' = [r \in Readers |-> raised[r] \/ limit' > limit]
    /\ eased' = [t \in Threads |->
            IF t = u THEN eased[t] /\ (AnsweringCharge(t) \/ AnsweringShrink(t))
            ELSE \/ eased[t]
                 \/ AnsweringCharge(t) /\ limit' > limit
                 \/ AnsweringShrink(t) /\ (limit' > limit \/ spent' < spent)]

\* A step of AtomicBudget.  A charge that comes back refused owes its caller an
\* error with the spend it saw.
BudgetStep(t) ==
    /\ ~report[t].due
    /\ Start(t) \/ Charging(t) \/ Shrinking(t)
    /\ Observe(t)
    /\ report' = [report EXCEPT ![t] =
            IF pc'[t] = "refused" THEN [due |-> TRUE, spent |-> seen[t], limit |-> 0]
            ELSE NoReport]
    /\ UNCHANGED reading

\* BudgetEnvelope::charge: the limit in the error is loaded last.
ReportLimit(t) ==
    /\ report[t].due
    /\ report' = [report EXCEPT ![t] = [@ EXCEPT !.due = FALSE, !.limit = limit]]
    /\ UNCHANGED <<vars, reading, observed>>

-------------------------------------------------------------------------------
\* r's first load of a pair, with the histories started afresh, and its second.
FirstLoad(r, got) ==
    /\ reading' = [reading EXCEPT ![r] = got]
    /\ most' = [most EXCEPT ![r] = Remaining]
    /\ raised' = [raised EXCEPT ![r] = FALSE]
    /\ UNCHANGED <<vars, report, eased>>

SecondLoad(r, got) ==
    /\ reading' = [reading EXCEPT ![r] = got]
    /\ UNCHANGED <<vars, report, observed>>

\* Mutant: the limit is loaded first.
ReadRemainingLimitFirst(r) ==
    \/ /\ reading[r].next = "spent"
       /\ FirstLoad(r, [NoReading EXCEPT !.limit = limit, !.next = "limit"])
    \/ /\ reading[r].next = "limit"
       /\ SecondLoad(r, [reading[r] EXCEPT !.spent = spent, !.next = "cap"])

\* remaining_usd and is_exhausted: spent_nanos, then limit_nanos.
ReadRemaining(r) ==
    \/ /\ reading[r].next = "spent"
       /\ FirstLoad(r, [NoReading EXCEPT !.spent = spent, !.next = "limit"])
    \/ /\ reading[r].next = "limit"
       /\ SecondLoad(r, [reading[r] EXCEPT !.limit = limit, !.next = "cap"])

\* utilization: limit_nanos, then spent_nanos unless the limit is zero.
ReadUtilization(r) ==
    \/ /\ reading[r].next = "cap"
       /\ FirstLoad(r, [NoReading EXCEPT
               !.limit = limit, !.next = IF limit = 0 THEN "spent" ELSE "used"])
    \/ /\ reading[r].next = "used"
       /\ SecondLoad(r, [reading[r] EXCEPT
               !.spent = spent, !.next = "spent",
               !.torn = PendingCharges \cup PendingShrinks # {}])

\* A snapshot asks for the remainder and then for the utilization.
Snapshot(r) == ReadRemaining(r) \/ ReadUtilization(r)

ReadersNext ==
    \/ \E t \in Threads : BudgetStep(t) \/ ReportLimit(t)
    \/ \E r \in Readers : Snapshot(r)

ReadersSpec == ReadersInit /\ [][ReadersNext]_allVars

-------------------------------------------------------------------------------
\* The remainder a reader reports was not exceeded by the true one all the time:
\* at some moment between its loads that much was left, unless the limit was
\* raised in between, by a grow or by the undo of a shrink.
RemainingNotOverstated ==
    \A r \in Readers :
        reading[r].next = "cap" /\ ~raised[r]
            => SaturatingSub(reading[r].limit, reading[r].spent) <= most[r]

\* Utilization stays within "0.0 to 1.0" (doc of BudgetEnvelope::utilization)
\* unless the limit was raised between its loads or a charge or shrink was half
\* done when the spend was loaded.
UtilizationAtMostOne ==
    \A r \in Readers :
        reading[r].next = "spent" /\ ~raised[r] /\ ~reading[r].torn
            => reading[r].spent <= reading[r].limit

\* The error of a refused charge explains the refusal: the spend and the limit it
\* shows leave no room for the cost, although they were not loaded together,
\* unless the limit was raised between the check and the second load.
RefusalExplained ==
    \A t \in Threads :
        pc[t] = "refused" /\ ~report[t].due /\ ~eased[t]
            => SaturatingAdd(report[t].spent, arg[t]) > report[t].limit

\* The remainder a refused shrink returns is short of the amount ("Err(remaining)
\* if there is not enough left", doc of shrink_limit), although it is loaded again
\* after the undo, unless others raised the limit or took spend back since its
\* swap.  A shrink by nothing can be refused too, with nothing left.
ShortfallReported ==
    \A t \in Threads : pc[t] = "kept" /\ ~eased[t] => seen[t] < arg[t] \/ seen[t] = 0
===============================================================================
