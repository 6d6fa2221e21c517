----------------------------- MODULE AtomicBudget -----------------------------
(***************************************************************************)
(* struct AtomicBudget of src/budget/mod.rs: two atomics, spent_nanos and  *)
(* limit_nanos, that any number of threads charge, shrink and grow without *)
(* a lock.  One action is one atomic access; all accesses are SeqCst, so   *)
(* their interleavings are all there is.                                   *)
(*                                                                         *)
(* accepted and settled are history variables: what the charges that       *)
(* returned Ok add up to, and the limit the budget was created with plus   *)
(* every grow minus every shrink that returned Ok.                         *)
(***************************************************************************)
EXTENDS Integers

CONSTANTS Threads,        \* callers of one shared budget
          InitialLimit,   \* nano-dollars the budget is created with
          Costs,          \* nano-dollars of one charge
          ShrinkAmounts,  \* nano-dollars of one shrink_limit
          GrowAmounts,    \* nano-dollars of one grow_limit
          MaxNanos,       \* u64::MAX
          GrowBound       \* bound of the model: settled never grows past it

ASSUME ConstantsAssumption ==
    /\ MaxNanos \in Nat
    /\ GrowBound \in Nat
    /\ InitialLimit \in 0..MaxNanos
    /\ InitialLimit <= GrowBound
    /\ Costs \subseteq 0..MaxNanos
    /\ ShrinkAmounts \subseteq 0..MaxNanos
    /\ GrowAmounts \subseteq 0..MaxNanos

VARIABLES spent,          \* spent_nanos
          limit,          \* limit_nanos
          pc,             \* pc[t]: the atomic access thread t makes next
          arg,            \* arg[t]: nano-dollars t was called with
          seen,           \* seen[t]: the value t loaded and works from
          accepted,       \* history: sum of the charges that returned Ok
          settled         \* history: limit after the finished shrinks and grows

vars == <<spent, limit, pc, arg, seen, accepted, settled>>

(***************************************************************************)
(* A thread with no call in progress: "idle", or, when its last call was   *)
(* turned down, "refused" (a charge; arg is its cost) or "kept" (a shrink; *)
(* arg is its amount and seen the remaining budget it reported).           *)
(***************************************************************************)
Returned == {"idle", "refused", "kept"}

PCs == Returned \cup
       {"chargeLoad", "chargeCheck", "chargeSwap", "chargeRecheck", "chargeUndo",
        "shrinkLoad", "shrinkCheck", "shrinkSwap", "shrinkRecheck", "shrinkUndo",
        "shrinkReport", "shrinkReturn"}

-------------------------------------------------------------------------------
\* u64 arithmetic.
SaturatingAdd(x, y) == IF x + y <= MaxNanos THEN x + y ELSE MaxNanos
\* Mutant: a plain subtraction.
PlainSub(x, y) == x - y
SaturatingSub(x, y) == IF y <= x THEN x - y ELSE 0
FetchAdd(x, y) == IF x + y <= MaxNanos THEN x + y ELSE (x + y) - (MaxNanos + 1)
FetchSub(x, y) == IF y <= x THEN x - y ELSE (x + MaxNanos + 1) - y

NewTotal(t) == SaturatingAdd(seen[t], arg[t])
NewLimit(t) == seen[t] - arg[t]

\* t goes on to the access named next and keeps what it works from.
Goto(t, next) == pc' = [pc EXCEPT ![t] = next]

\* t returns with the outcome r; arg and seen keep what the outcome is about.
Return(t, r, a, s) ==
    /\ pc' = [pc EXCEPT ![t] = r]
    /\ arg' = [arg EXCEPT ![t] = a]
    /\ seen' = [seen EXCEPT ![t] = s]

Init ==
    /\ spent = 0
    /\ limit = InitialLimit
    /\ pc = [t \in Threads |-> "idle"]
    /\ arg = [t \in Threads |-> 0]
    /\ seen = [t \in Threads |-> 0]
    /\ accepted = 0
    /\ settled = InitialLimit

-------------------------------------------------------------------------------
(***************************************************************************)
(* charge                                                                  *)
(***************************************************************************)
StartCharge(t, cost) ==
    /\ pc[t] \in Returned
    /\ Return(t, "chargeLoad", cost, 0)
    /\ UNCHANGED <<spent, limit, accepted, settled>>

ChargeLoad(t) ==
    /\ pc[t] = "chargeLoad"
    /\ seen' = [seen EXCEPT ![t] = spent]
    /\ Goto(t, "chargeCheck")
    /\ UNCHANGED <<spent, limit, arg, accepted, settled>>

\* Mutant: a charge that would use the limit up is refused.
ChargeRefuseExact(t) ==
    /\ pc[t] = "chargeCheck"
    /\ NewTotal(t) >= limit
    /\ Return(t, "refused", arg[t], 0)
    /\ UNCHANGED <<spent, limit, accepted, settled>>

ChargeRefuse(t) ==
    /\ pc[t] = "chargeCheck"
    /\ NewTotal(t) > limit
    /\ Return(t, "refused", arg[t], 0)
    /\ UNCHANGED <<spent, limit, accepted, settled>>

ChargeFits(t) ==
    /\ pc[t] = "chargeCheck"
    /\ NewTotal(t) <= limit
    /\ Goto(t, "chargeSwap")
    /\ UNCHANGED <<spent, limit, arg, seen, accepted, settled>>

ChargeSwap(t) ==
    /\ pc[t] = "chargeSwap"
    /\ spent = seen[t]
    /\ spent' = NewTotal(t)
    /\ Goto(t, "chargeRecheck")
    /\ UNCHANGED <<limit, arg, seen, accepted, settled>>

\* Mutant: the loop tries the swap again without loading spent_nanos again.
ChargeRetryStale(t) ==
    /\ pc[t] = "chargeSwap"
    /\ Goto(t, "chargeSwap")
    /\ UNCHANGED <<spent, limit, arg, seen, accepted, settled>>

\* compare_exchange_weak fails when spent has moved, and may fail when not.
ChargeRetry(t) ==
    /\ pc[t] = "chargeSwap"
    /\ Return(t, "chargeLoad", arg[t], 0)
    /\ UNCHANGED <<spent, limit, accepted, settled>>

\* Mutant: no second look at limit_nanos.
ChargeAcceptUnchecked(t) ==
    /\ pc[t] = "chargeRecheck"
    /\ accepted' = accepted + arg[t]
    /\ Return(t, "idle", 0, 0)
    /\ UNCHANGED <<spent, limit, settled>>

ChargeAccept(t) ==
    /\ pc[t] = "chargeRecheck"
    /\ NewTotal(t) <= limit
    /\ accepted' = accepted + arg[t]
    /\ Return(t, "idle", 0, 0)
    /\ UNCHANGED <<spent, limit, settled>>

ChargeOverrun(t) ==
    /\ pc[t] = "chargeRecheck"
    /\ NewTotal(t) > limit
    /\ Goto(t, "chargeUndo")
    /\ UNCHANGED <<spent, limit, arg, seen, accepted, settled>>

\* Mutant: refuse without taking the cost back.
ChargeUndoForgotten(t) ==
    /\ pc[t] = "chargeUndo"
    /\ Return(t, "refused", arg[t], 0)
    /\ UNCHANGED <<spent, limit, accepted, settled>>

ChargeUndo(t) ==
    /\ pc[t] = "chargeUndo"
    /\ spent' = FetchSub(spent, arg[t])
    /\ Return(t, "refused", arg[t], 0)
    /\ UNCHANGED <<limit, accepted, settled>>

-------------------------------------------------------------------------------
(***************************************************************************)
(* shrink_limit                                                            *)
(***************************************************************************)
StartShrink(t, amount) ==
    /\ pc[t] \in Returned
    /\ Return(t, "shrinkLoad", amount, 0)
    /\ UNCHANGED <<spent, limit, accepted, settled>>

ShrinkLoad(t) ==
    /\ pc[t] = "shrinkLoad"
    /\ seen' = [seen EXCEPT ![t] = limit]
    /\ Goto(t, "shrinkCheck")
    /\ UNCHANGED <<spent, limit, arg, accepted, settled>>

ShrinkRefuse(t) ==
    /\ pc[t] = "shrinkCheck"
    /\ arg[t] > SaturatingSub(seen[t], spent)
    /\ Return(t, "kept", arg[t], SaturatingSub(seen[t], spent))
    /\ UNCHANGED <<spent, limit, accepted, settled>>

ShrinkFits(t) ==
    /\ pc[t] = "shrinkCheck"
    /\ arg[t] <= SaturatingSub(seen[t], spent)
    /\ Goto(t, "shrinkSwap")
    /\ UNCHANGED <<spent, limit, arg, seen, accepted, settled>>

ShrinkSwap(t) ==
    /\ pc[t] = "shrinkSwap"
    /\ limit = seen[t]
    /\ limit' = NewLimit(t)
    /\ Goto(t, "shrinkRecheck")
    /\ UNCHANGED <<spent, arg, seen, accepted, settled>>

ShrinkRetry(t) ==
    /\ pc[t] = "shrinkSwap"
    /\ Return(t, "shrinkLoad", arg[t], 0)
    /\ UNCHANGED <<spent, limit, accepted, settled>>

\* Mutant: no second look at spent_nanos.
ShrinkAcceptUnchecked(t) ==
    /\ pc[t] = "shrinkRecheck"
    /\ settled' = settled - arg[t]
    /\ Return(t, "idle", 0, 0)
    /\ UNCHANGED <<spent, limit, accepted>>

ShrinkAccept(t) ==
    /\ pc[t] = "shrinkRecheck"
    /\ spent <= NewLimit(t)
    /\ settled' = settled - arg[t]
    /\ Return(t, "idle", 0, 0)
    /\ UNCHANGED <<spent, limit, accepted>>

ShrinkOverrun(t) ==
    /\ pc[t] = "shrinkRecheck"
    /\ spent > NewLimit(t)
    /\ Goto(t, "shrinkUndo")
    /\ UNCHANGED <<spent, limit, arg, seen, accepted, settled>>

ShrinkUndo(t) ==
    /\ pc[t] = "shrinkUndo"
    /\ limit' = FetchAdd(limit, arg[t])
    /\ Return(t, "shrinkReport", arg[t], 0)
    /\ UNCHANGED <<spent, accepted, settled>>

ShrinkReport(t) ==
    /\ pc[t] = "shrinkReport"
    /\ seen' = [seen EXCEPT ![t] = limit]
    /\ Goto(t, "shrinkReturn")
    /\ UNCHANGED <<spent, limit, arg, accepted, settled>>

\* Mutant: the new limit is returned for the remainder.
ShrinkReturnLimit(t) ==
    /\ pc[t] = "shrinkReturn"
    /\ Return(t, "kept", arg[t], seen[t])
    /\ UNCHANGED <<spent, limit, accepted, settled>>

ShrinkReturn(t) ==
    /\ pc[t] = "shrinkReturn"
    /\ Return(t, "kept", arg[t], SaturatingSub(seen[t], spent))
    /\ UNCHANGED <<spent, limit, accepted, settled>>

-------------------------------------------------------------------------------
(***************************************************************************)
(* grow_limit is one fetch_add, which wraps.                               *)
(***************************************************************************)
Grow(t, amount) ==
    /\ pc[t] \in Returned
    /\ settled + amount <= GrowBound
    /\ limit' = FetchAdd(limit, amount)
    /\ settled' = settled + amount
    /\ Return(t, "idle", 0, 0)
    /\ UNCHANGED <<spent, accepted>>

Start(t) ==
    \/ \E cost \in Costs : StartCharge(t, cost)
    \/ \E amount \in ShrinkAmounts : StartShrink(t, amount)
    \/ \E amount \in GrowAmounts : Grow(t, amount)

Charging(t) ==
    \/ ChargeLoad(t) \/ ChargeRefuse(t) \/ ChargeFits(t)
    \/ ChargeSwap(t) \/ ChargeRetry(t)
    \/ ChargeAccept(t) \/ ChargeOverrun(t) \/ ChargeUndo(t)

Shrinking(t) ==
    \/ ShrinkLoad(t) \/ ShrinkRefuse(t) \/ ShrinkFits(t)
    \/ ShrinkSwap(t) \/ ShrinkRetry(t)
    \/ ShrinkAccept(t) \/ ShrinkOverrun(t) \/ ShrinkUndo(t)
    \/ ShrinkReport(t) \/ ShrinkReturn(t)

Next == \E t \in Threads : Start(t) \/ Charging(t) \/ Shrinking(t)

Spec == Init /\ [][Next]_vars

(***************************************************************************)
(* The operating system keeps running a thread inside a call, and          *)
(* compare_exchange_weak does not fail spuriously for ever: a swap that    *)
(* keeps being possible is eventually made.                                *)
(***************************************************************************)
FairSpec ==
    /\ Spec
    /\ \A t \in Threads :
         /\ WF_vars(Charging(t) \/ Shrinking(t))
         /\ SF_vars(ChargeSwap(t))
         /\ SF_vars(ShrinkSwap(t))
-------------------------------------------------------------------------------
TypeOK ==
    /\ spent \in 0..MaxNanos
    /\ limit \in 0..MaxNanos
    /\ pc \in [Threads -> PCs]
    /\ arg \in [Threads -> 0..MaxNanos]
    /\ seen \in [Threads -> 0..MaxNanos]
    /\ accepted \in Nat
    /\ settled \in 0..GrowBound

\* Charges and shrinks whose swap has succeeded and that have not returned.
PendingCharges == {t \in Threads : pc[t] \in {"chargeRecheck", "chargeUndo"}}
PendingShrinks == {t \in Threads : pc[t] \in {"shrinkRecheck", "shrinkUndo"}}

\* The hard cap: what the accepted charges add up to never exceeds the limit
\* that the finished grows and shrinks left, however charges and shrinks race
\* ("so the cap holds", charge's comment on its second check).
NeverOverspent == accepted <= settled

\* The counters are exact whenever no call is between its swap and its return:
\* refused calls have taken back all they wrote and nothing else, so
\* spent_nanos is the sum of the accepted charges and limit_nanos is the limit
\* the finished shrinks and grows left.
Ledger ==
    PendingCharges = {} /\ PendingShrinks = {} => spent = accepted /\ limit = settled

\* The undo of a charge never takes spent_nanos below zero and the undo of a
\* shrink never takes limit_nanos past u64::MAX, although other threads have
\* charged, undone, shrunk and grown in between: neither fetch wraps.
UndoNeverWraps ==
    /\ \A t \in Threads : pc[t] = "chargeUndo" => arg[t] <= spent
    /\ \A t \in Threads : pc[t] = "shrinkUndo" => limit + arg[t] <= MaxNanos

\* A charge that fits is not refused because of another charge in progress
\* (doc of charge).  Without grows, and with no shrink that was turned down,
\* the room only gets smaller, so a refused cost that would fit after all
\* calls have returned fitted all along.
FittingChargeAccepted ==
    (\A t \in Threads : pc[t] \in {"idle", "refused"})
        => \A t \in Threads : pc[t] = "refused" => accepted + arg[t] > settled

\* Callers see one number under one cap: with the recheck as the moment a
\* charge or a shrink takes effect, every step is a step of HardCap.
HC == INSTANCE HardCap WITH cap <- settled
ImplementsHardCap == HC!Spec

\* Lock freedom: once callers stop making new calls, the retry loops and the
\* undo paths of the calls in progress all come to an end.
CallsReturn ==
    <>[][\A t \in Threads : ~Start(t)]_vars
        => <>[](\A t \in Threads : pc[t] \in Returned)
===============================================================================
