--------------------------- MODULE AgentBudgetProofs ---------------------------
(***************************************************************************)
(* Proofs about AgentBudget, for any number of callers and movers, any     *)
(* limit, threshold and costs.  The atomics are under the invariant of     *)
(* AtomicBudgetInv throughout.                                             *)
(***************************************************************************)
EXTENDS AgentBudget, SumProofs, AtomicBudgetProofs

-------------------------------------------------------------------------------
(***************************************************************************)
(* What the cascade guarantees for every budget, threshold and request.    *)
(***************************************************************************)
\* downgrade is undefined exactly on Local, and otherwise goes down by one.
LEMMA DowngradeStep ==
    ASSUME NEW tier \in Tiers
    PROVE  /\ Downgrades(tier) = {} <=> tier = Local
           /\ tier # Local => tier - 1 \in Tiers
  BY DEF Downgrades, Tiers, Local, Economy, Standard, Premium

\* ForceDowngrade changes nothing but the tier and stays within the tiers.
LEMMA ForceDowngradeStep ==
    ASSUME NEW c \in Cascades
    PROVE  /\ ForceDowngrade(c) \in Cascades
           /\ ForceDowngrade(c).threshold = c.threshold
           /\ ForceDowngrade(c).total = c.total
           /\ ForceDowngrade(c).current =
                  IF c.current = Local THEN Local ELSE c.current - 1
<1>1. c.current \in Tiers
  BY DEF Cascades
<1>2. CASE c.current = Local
  BY <1>1, <1>2, DowngradeStep DEF ForceDowngrade
<1>3. CASE c.current # Local
  <2>1. ForceDowngrade(c) = [c EXCEPT !.current = @ - 1]
    BY <1>1, <1>3, DowngradeStep DEF ForceDowngrade
  <2>2. c.current - 1 \in Tiers
    BY <1>1, <1>3, DowngradeStep
  <2> QED
    BY <1>3, <2>1, <2>2 DEF Cascades
<1> QED
  BY <1>2, <1>3

\* A downgrade never makes a request dearer, whatever its token counts: the
\* estimate that prices the next charge only falls (estimate_cost, downgrade).
THEOREM DowngradeNeverDearer ==
    ASSUME NEW c \in Cascades, NEW input \in Nat, NEW output \in Nat
    PROVE  EstimateCost(ForceDowngrade(c).current, input, output)
               <= EstimateCost(c.current, input, output)
<1>1. c.current \in Tiers
  BY DEF Cascades
<1>2. /\ InputPrice[Premium] = 15000 /\ InputPrice[Standard] = 3000
      /\ InputPrice[Economy] = 250 /\ InputPrice[Local] = 0
  BY DEF InputPrice, Tiers, Local, Economy, Standard, Premium
<1>3. /\ OutputPrice[Premium] = 75000 /\ OutputPrice[Standard] = 15000
      /\ OutputPrice[Economy] = 1250 /\ OutputPrice[Local] = 0
  BY DEF OutputPrice, Tiers, Local, Economy, Standard, Premium
<1>4. c.current = Local \/ c.current = Economy \/ c.current = Standard \/ c.current = Premium
  BY <1>1 DEF Tiers
<1>5. Economy - 1 = Local /\ Standard - 1 = Economy /\ Premium - 1 = Standard
      /\ Economy # Local /\ Standard # Local /\ Premium # Local
  BY DEF Local, Economy, Standard, Premium
<1>6. ForceDowngrade(c).current = IF c.current = Local THEN Local ELSE c.current - 1
  BY ForceDowngradeStep
<1>7. CASE c.current = Local
  BY <1>2, <1>3, <1>6, <1>7 DEF EstimateCost
<1>8. CASE c.current = Economy
  BY <1>2, <1>3, <1>5, <1>6, <1>8 DEF EstimateCost
<1>9. CASE c.current = Standard
  BY <1>2, <1>3, <1>5, <1>6, <1>9 DEF EstimateCost
<1>10. CASE c.current = Premium
  BY <1>2, <1>3, <1>5, <1>6, <1>10 DEF EstimateCost
<1> QED
  BY <1>4, <1>7, <1>8, <1>9, <1>10

\* evaluate on a spent budget always downgrades, until Local: whatever the
\* threshold and whatever total the cascade was left with, nothing remaining is
\* pressure.  And evaluate never touches what it measures against.
THEOREM SpentBudgetDowngrades ==
    ASSUME NEW c \in Cascades, NEW remaining \in Nat
    PROVE  /\ Evaluate(c, remaining) \in {c, ForceDowngrade(c)}
           /\ Evaluate(c, 0) = ForceDowngrade(c)
           /\ Evaluate(c, remaining).total = c.total
           /\ Evaluate(c, remaining).threshold = c.threshold
<1>1. c.threshold \in 0..100 /\ c.total \in Nat
  BY DEF Cascades
<1>2. c.threshold * c.total \in Nat
  BY <1>1
<1>3. UnderPressure(c, 0)
  BY <1>2 DEF UnderPressure
<1> QED
  BY <1>3, ForceDowngradeStep DEF Evaluate

\* What new accepts and set_total_budget maintains is a cascade: its total is
\* positive, so the fraction evaluate computes is never a division by zero.
THEOREM TotalStaysPositive ==
    ASSUME NEW tier \in Tiers, NEW threshold \in Int, NEW total \in Int, NEW moved \in Nat
    PROVE  \A c \in NewCascades(tier, threshold, total) :
               c \in Cascades /\ SetTotalBudget(c, moved) \in Cascades
<1>1. ASSUME NEW c \in NewCascades(tier, threshold, total)
      PROVE  c \in Cascades
  BY <1>1 DEF NewCascades, Cascades
<1>2. ASSUME NEW c \in Cascades
      PROVE  SetTotalBudget(c, moved) \in Cascades
  BY <1>2 DEF SetTotalBudget, Cascades
<1> QED
  BY <1>1, <1>2

-------------------------------------------------------------------------------
ChargePCs == {"chargeLoad", "chargeCheck", "chargeSwap", "chargeRecheck", "chargeUndo"}
ShrinkPCs == {"shrinkLoad", "shrinkCheck", "shrinkSwap", "shrinkRecheck", "shrinkUndo",
              "shrinkReport", "shrinkReturn"}

\* The stages of an accepted charge once it has loaded the spend.
Holding == {"count", "gaugeSpent", "gaugeRemaining", "evaluate"}

\* Where a charge, a kill and a move can be, and what no call ever breaks.
Shape ==
    /\ \A t \in Callers :
         /\ call[t] \in {"idle", "killCheck", "charge", "log", "readSpent", "readLimit", "kill"}
                          \cup Holding
         /\ call[t] = "killCheck" => record[t].cost \in Costs
         /\ call[t] = "charge" => pc[t] \in ChargePCs \cup {"refused"} /\ arg[t] = record[t].cost
         /\ call[t] # "charge" => pc[t] \in Returned
    /\ \A m \in Movers :
         /\ call[m] \in {"idle", "shrink", "setTotal"}
         /\ call[m] = "shrink" => pc[m] \in ShrinkPCs \cup {"kept"}
         /\ call[m] # "shrink" => pc[m] \in Returned
    /\ cascade.current <= InitialTier /\ cascade.threshold = PressurePct
    /\ \A t \in timely \cup firm : call[t] \in {"readLimit"} \cup Holding

\* A task whose charge was late finds the switch set when it next looks, and
\* the reason is stored before the switch is.
KillInv ==
    /\ \A t \in Callers :
         /\ lateCharges[t] <= 1
         /\ lateCharges[t] = 1 => killed /\ call[t] # "charge"
    /\ killed \/ (\E t \in Callers : call[t] = "kill") => killReason

\* The sums grow in the order the charges were accepted.
OrderInv ==
    /\ \A i \in DOMAIN log : log[i].sum <= accepted
    /\ \A t \in Callers : call[t] = "log" => record[t].sum <= accepted
    /\ ~crowded =>
         /\ \A t, u \in Callers : call[t] = "log" /\ call[u] = "log" => t = u
         /\ \A t \in Callers, i \in DOMAIN log :
              call[t] = "log" => log[i].sum <= record[t].sum
         /\ AuditOrderedApart

\* A half-done charge that has met no other one is the only one, and its total
\* is what the accepted charges will add up to.
CrossInv ==
    \A t \in PendingCharges \ crossed :
       PendingCharges = {t} /\ NewTotal(t) = accepted + arg[t]

\* While the gauges are not behind, at most one charge is on its way to them
\* and it carries the numbers in force.
GaugeInv ==
    ~behind =>
      /\ \A t, u \in Unpublished : t = u
      /\ \A t \in Unpublished :
           /\ record[t].total = accepted
           /\ call[t] = "readLimit" => got[t] = accepted
           /\ call[t] \in Holding => got[t] = settled - accepted
           /\ call[t] = "gaugeRemaining" => gauge.spent = accepted
      /\ GaugeCurrent

\* What a firm charge has read is no less than what is left now.
ReadInv ==
    \A t \in firm :
      /\ call[t] = "readLimit" => got[t] <= spent
      /\ call[t] \in Holding => RoomLeft <= got[t]

\* While the spend is judged, or about to be, and it shows pressure, some charge
\* is on its way that will see as much pressure.
Judging == judged \/ timely # {}

Fresh(t) ==
    \/ call[t] \in {"log", "readSpent"}
    \/ t \in timely /\ call[t] = "readLimit" /\ accepted <= got[t]
    \/ t \in timely /\ call[t] \in Holding /\ got[t] <= settled - accepted

Noticed == cascade.current < InitialTier \/ InitialTier = Local

NoticeInv ==
    Judging /\ UnderPressure(cascade, settled - accepted)
      => Noticed \/ \E t \in Callers : Fresh(t)

\* The log, the charges that wait for it and those dropped are all there is.
Books == accepted = Recorded + Unrecorded + dropped.cost
-------------------------------------------------------------------------------
\* What the constants are for the provers.
LEMMA ConstantFacts ==
    /\ InitialLimit \in Nat \ {0}
    /\ PressurePct \in 0..100 /\ MaxAttempts \in Nat
    /\ Costs \subseteq Nat /\ ExactCosts \subseteq Costs /\ GrowAmounts \subseteq Nat
    /\ \A tier \in Tiers, r \in Requests : EstimateCost(tier, r[1], r[2]) \in Costs
    /\ Threads = Tasks /\ Tasks = Callers \cup Movers
    /\ Callers \cap Movers = {} /\ IsFiniteSet(Callers)
    /\ InitialTier \in Tiers /\ Tiers \subseteq Nat /\ Local \in Tiers
    /\ \A tier \in Tiers : Local <= tier
  BY AgentAssumption, ConstantsAssumption DEF Tasks, Tiers, Local, Economy, Standard, Premium

\* What evaluate leaves alone, and what it does to the tier.
LEMMA EvaluateStep ==
    ASSUME NEW c \in Cascades, NEW remaining \in Nat
    PROVE  /\ Evaluate(c, remaining) \in Cascades
           /\ Evaluate(c, remaining).threshold = c.threshold
           /\ Evaluate(c, remaining).total = c.total
           /\ Evaluate(c, remaining).current <= c.current
           /\ Evaluate(c, remaining).current \in Tiers /\ c.current \in Tiers
           /\ ~UnderPressure(c, remaining) => Evaluate(c, remaining) = c
           /\ UnderPressure(c, remaining)
                => \/ Evaluate(c, remaining).current < c.current
                   \/ c.current = Local /\ Evaluate(c, remaining).current = Local
<1>1. c.current \in Tiers /\ c.current \in Nat
  BY ConstantFacts DEF Cascades
<1>2. CASE UnderPressure(c, remaining)
  BY <1>1, <1>2, ForceDowngradeStep DEF Evaluate, Cascades
<1>3. CASE ~UnderPressure(c, remaining)
  BY <1>1, <1>3 DEF Evaluate
<1> QED
  BY <1>2, <1>3

\* set_total_budget changes nothing but the total.
LEMMA SetTotalStep ==
    ASSUME NEW c \in Cascades, NEW total \in Nat
    PROVE  /\ SetTotalBudget(c, total) \in Cascades
           /\ SetTotalBudget(c, total).current = c.current
           /\ SetTotalBudget(c, total).threshold = c.threshold
           /\ SetTotalBudget(c, total).total = IF total > 0 THEN total ELSE c.total
  BY DEF SetTotalBudget, Cascades

\* Less remaining is more pressure.
LEMMA PressureMonotone ==
    ASSUME NEW c \in Cascades, NEW more \in Int, NEW less \in Int, less <= more,
           UnderPressure(c, more)
    PROVE  UnderPressure(c, less)
<1>1. c.threshold * c.total \in Int
  BY DEF Cascades
<1> QED
  BY <1>1 DEF UnderPressure

-------------------------------------------------------------------------------
(***************************************************************************)
(* What the calls see of the atomics, from the invariant of AtomicBudget.  *)
(***************************************************************************)
\* The counters against what was accepted and settled.
LEMMA LedgerFacts ==
    ASSUME IInv
    PROVE  /\ spent \in Nat /\ limit \in Nat /\ accepted \in Nat /\ settled \in Nat
           /\ accepted <= spent /\ limit <= settled /\ accepted <= settled
           /\ \A t \in Tasks : pc[t] \in PCs /\ arg[t] \in Nat /\ seen[t] \in Nat
           /\ PendingCharges = {} => spent = accepted
           /\ PendingShrinks = {} => limit = settled
<1>1. /\ spent \in Nat /\ limit \in Nat /\ accepted \in Nat /\ settled \in Nat
      /\ \A t \in Tasks : pc[t] \in PCs /\ arg[t] \in Nat /\ seen[t] \in Nat
  BY ConstantFacts, ConstantsAssumption DEF IInv, TypeOK
<1>2. PICK lo, cov : ChargeLayout(lo, cov)
  BY DEF IInv, LayoutExists
<1>3. PICK hi, clim : ShrinkLayout(hi, clim)
  BY DEF IInv, LayoutExists
<1>4. accepted <= spent /\ limit <= settled
  BY <1>1, <1>2 DEF ChargeLayout, IInv
<1>5. accepted <= settled
  BY IInvNeverOverspent DEF NeverOverspent
<1>6. PendingCharges = {} => spent = accepted
  <2>1. PendingCharges = {} => accepted \notin accepted..(spent - 1)
    BY <1>2 DEF ChargeLayout
  <2> QED
    BY <1>1, <1>4, <2>1
<1>7. PendingShrinks = {} => limit = settled
  <2>1. PendingShrinks = {} => limit \notin limit..(settled - 1)
    BY <1>3 DEF ShrinkLayout
  <2> QED
    BY <1>1, <1>4, <2>1
<1> QED
  BY <1>1, <1>4, <1>5, <1>6, <1>7

\* The accesses of a charge that write nothing leave everyone's call pending or not.
LEMMA TryChargeStep ==
    ASSUME IInv, NEW t \in Callers, TryCharge(t)
    PROVE  /\ UNCHANGED <<spent, limit, accepted, settled, arg>>
           /\ PendingCharges' = PendingCharges /\ PendingShrinks' = PendingShrinks
           /\ pc[t] \in ChargePCs /\ pc'[t] \in ChargePCs \cup {"refused"}
           /\ \A u \in Tasks \ {t} : pc'[u] = pc[u]
           /\ \A u \in PendingCharges : seen'[u] = seen[u]
           /\ [Next]_vars
<1>0. t \in Threads /\ Threads = Tasks
  BY ConstantFacts
<1>1. pc[t] \in ChargePCs /\ arg' = arg /\ UNCHANGED <<spent, limit, accepted, settled>>
  BY <1>0 DEF TryCharge, ChargeLoad, ChargeRefuse, ChargeFits, ChargeRetry, ChargeOverrun,
     Return, Goto, ChargePCs, IInv, TypeOK
<1>2. /\ pc'[t] \in ChargePCs \cup {"refused"}
      /\ \A u \in Tasks \ {t} : pc'[u] = pc[u] /\ seen'[u] = seen[u]
      /\ pc[t] \in {"chargeRecheck", "chargeUndo"} <=> pc'[t] \in {"chargeRecheck", "chargeUndo"}
      /\ pc[t] = "chargeRecheck" => seen'[t] = seen[t]
      /\ pc[t] # "chargeUndo"
  BY <1>0 DEF TryCharge, ChargeLoad, ChargeRefuse, ChargeFits, ChargeRetry, ChargeOverrun,
     Return, Goto, ChargePCs, IInv, TypeOK
<1>3. PendingCharges' = PendingCharges /\ PendingShrinks' = PendingShrinks
  BY <1>0, <1>1, <1>2 DEF PendingCharges, PendingShrinks, ChargePCs
<1>4. [Next]_vars
  BY <1>0 DEF TryCharge, Next, Charging
<1>5. \A u \in PendingCharges : seen'[u] = seen[u]
  BY <1>0, <1>2 DEF PendingCharges
<1> QED
  BY <1>1, <1>2, <1>3, <1>4, <1>5

\* A charge's write.
LEMMA WriteTotalStep ==
    ASSUME IInv, NEW t \in Callers, WriteTotal(t)
    PROVE  /\ UNCHANGED <<limit, accepted, settled, arg, seen>>
           /\ spent' = spent + arg[t] /\ NewTotal(t) = spent'
           /\ t \notin PendingCharges /\ PendingCharges' = PendingCharges \cup {t}
           /\ PendingShrinks' = PendingShrinks
           /\ pc[t] \in ChargePCs /\ pc'[t] \in ChargePCs
           /\ \A u \in Tasks \ {t} : pc'[u] = pc[u]
           /\ [Next]_vars
<1>0. t \in Threads /\ Threads = Tasks
  BY ConstantFacts
<1>1. /\ UNCHANGED <<limit, accepted, settled, arg, seen>>
      /\ pc[t] = "chargeSwap" /\ pc' = [pc EXCEPT ![t] = "chargeRecheck"]
      /\ spent = seen[t] /\ spent' = NewTotal(t)
  BY DEF WriteTotal, ChargeSwap, Goto
<1>2. spent' = spent + arg[t]
  BY <1>0, <1>1, NoWrapAssumption, ConstantsAssumption
  DEF NewTotal, SaturatingAdd, IInv, CallsFit, TypeOK
<1>3. DOMAIN pc = Threads
  BY DEF IInv, TypeOK
<1>4. /\ t \notin PendingCharges /\ PendingCharges' = PendingCharges \cup {t}
      /\ PendingShrinks' = PendingShrinks
  BY <1>0, <1>1, <1>3 DEF PendingCharges, PendingShrinks
<1>5. [Next]_vars
  BY <1>0 DEF WriteTotal, Next, Charging
<1> QED
  BY <1>0, <1>1, <1>2, <1>3, <1>4, <1>5 DEF ChargePCs

\* A charge takes its write back.
LEMMA UndoTotalStep ==
    ASSUME IInv, NEW t \in Callers, UndoTotal(t)
    PROVE  /\ UNCHANGED <<limit, accepted, settled, arg>>
           /\ spent' \in Nat
           /\ PendingCharges' = PendingCharges \ {t} /\ PendingShrinks' = PendingShrinks
           /\ pc[t] \in ChargePCs /\ pc'[t] = "refused"
           /\ \A u \in Tasks \ {t} : pc'[u] = pc[u] /\ seen'[u] = seen[u]
           /\ [Next]_vars
<1>0. t \in Threads /\ Threads = Tasks
  BY ConstantFacts
<1>1. /\ UNCHANGED <<limit, accepted, settled>> /\ arg' = [arg EXCEPT ![t] = arg[t]]
      /\ pc[t] = "chargeUndo" /\ pc' = [pc EXCEPT ![t] = "refused"]
      /\ seen' = [seen EXCEPT ![t] = 0] /\ spent' = FetchSub(spent, arg[t])
  BY DEF UndoTotal, ChargeUndo, Return
<1>2. DOMAIN pc = Threads /\ DOMAIN seen = Threads /\ arg' = arg
  BY <1>0, <1>1 DEF IInv, TypeOK
<1>3. spent' \in Nat
  BY <1>0, <1>1, LedgerFacts, IInvUndoNeverWraps DEF UndoNeverWraps, FetchSub
<1>4. PendingCharges' = PendingCharges \ {t} /\ PendingShrinks' = PendingShrinks
  BY <1>0, <1>1, <1>2 DEF PendingCharges, PendingShrinks
<1>5. [Next]_vars
  BY <1>0 DEF UndoTotal, Next, Charging
<1> QED
  BY <1>0, <1>1, <1>2, <1>3, <1>4, <1>5 DEF ChargePCs

\* A charge is accepted.
LEMMA AcceptStep ==
    ASSUME IInv, NEW t \in Callers, Accept(t)
    PROVE  /\ UNCHANGED <<spent, limit, settled>>
           /\ accepted' = accepted + arg[t] /\ NewTotal(t) \in Nat
           /\ t \in PendingCharges /\ PendingCharges' = PendingCharges \ {t}
           /\ PendingShrinks' = PendingShrinks
           /\ pc[t] \in ChargePCs /\ pc'[t] = "idle"
           /\ \A u \in Tasks \ {t} : pc'[u] = pc[u] /\ arg'[u] = arg[u] /\ seen'[u] = seen[u]
           /\ [Next]_vars
<1>0. t \in Threads /\ Threads = Tasks
  BY ConstantFacts
<1>1. /\ UNCHANGED <<spent, limit, settled>> /\ accepted' = accepted + arg[t]
      /\ pc[t] = "chargeRecheck" /\ pc' = [pc EXCEPT ![t] = "idle"]
      /\ arg' = [arg EXCEPT ![t] = 0] /\ seen' = [seen EXCEPT ![t] = 0]
  BY DEF Accept, ChargeAccept, Return
<1>2. DOMAIN pc = Threads /\ DOMAIN arg = Threads /\ DOMAIN seen = Threads
  BY DEF IInv, TypeOK
<1>3. NewTotal(t) \in Nat
  BY <1>0, NumberFacts DEF NewTotal
<1>4. /\ t \in PendingCharges /\ PendingCharges' = PendingCharges \ {t}
      /\ PendingShrinks' = PendingShrinks
  BY <1>0, <1>1, <1>2 DEF PendingCharges, PendingShrinks
<1>5. [Next]_vars
  BY <1>0 DEF Accept, Next, Charging
<1> QED
  BY <1>0, <1>1, <1>2, <1>3, <1>4, <1>5 DEF ChargePCs

\* The accesses of a shrink other than its undo and its acceptance.
LEMMA TryShrinkStep ==
    ASSUME IInv, NEW t \in Movers, TryShrink(t)
    PROVE  /\ UNCHANGED <<spent, accepted, settled, arg>>
           /\ limit' <= limit /\ limit' \in Nat
           /\ PendingCharges' = PendingCharges
           /\ pc[t] \in ShrinkPCs /\ pc'[t] \in ShrinkPCs \cup {"kept"}
           /\ \A u \in Tasks \ {t} : pc'[u] = pc[u] /\ seen'[u] = seen[u]
           /\ [Next]_vars
<1>0. t \in Threads /\ Threads = Tasks
  BY ConstantFacts
<1> USE DEF Return, Goto, ShrinkPCs, IInv, TypeOK
<1>1. /\ UNCHANGED <<spent, accepted, settled, arg>>
      /\ pc[t] \in ShrinkPCs /\ pc'[t] \in ShrinkPCs \cup {"kept"}
      /\ \A u \in Tasks \ {t} : pc'[u] = pc[u] /\ seen'[u] = seen[u]
  BY <1>0 DEF TryShrink, ShrinkLoad, ShrinkRefuse, ShrinkFits, ShrinkSwap, ShrinkRetry,
     ShrinkOverrun, ShrinkReport, ShrinkReturn
<1>2. limit' <= limit /\ limit' \in Nat
  <2>1. limit \in Nat
    BY LedgerFacts
  <2>2. CASE ShrinkSwap(t)
    BY <1>0, <2>1, <2>2, LedgerFacts DEF ShrinkSwap, NewLimit, CallsFit
  <2>3. CASE limit' = limit
    BY <2>1, <2>3
  <2> QED
    BY <2>2, <2>3 DEF TryShrink, ShrinkLoad, ShrinkRefuse, ShrinkFits, ShrinkRetry,
       ShrinkOverrun, ShrinkReport, ShrinkReturn
<1>3. PendingCharges' = PendingCharges
  BY <1>0, <1>1 DEF PendingCharges
<1>4. [Next]_vars
  BY <1>0 DEF TryShrink, Next, Shrinking
<1> QED
  BY <1>1, <1>2, <1>3, <1>4

\* A shrink takes its write back.
LEMMA UndoLimitStep ==
    ASSUME IInv, NEW t \in Movers, UndoLimit(t)
    PROVE  /\ UNCHANGED <<spent, accepted, settled, arg>>
           /\ limit' \in Nat
           /\ PendingCharges' = PendingCharges
           /\ pc[t] \in ShrinkPCs /\ pc'[t] \in ShrinkPCs
           /\ \A u \in Tasks \ {t} : pc'[u] = pc[u] /\ seen'[u] = seen[u]
           /\ [Next]_vars
<1>0. t \in Threads /\ Threads = Tasks
  BY ConstantFacts
<1>1. /\ UNCHANGED <<spent, accepted, settled>> /\ arg' = [arg EXCEPT ![t] = arg[t]]
      /\ pc[t] = "shrinkUndo" /\ pc' = [pc EXCEPT ![t] = "shrinkReport"]
      /\ seen' = [seen EXCEPT ![t] = 0] /\ limit' = FetchAdd(limit, arg[t])
  BY DEF UndoLimit, ShrinkUndo, Return
<1>2. DOMAIN pc = Threads /\ DOMAIN seen = Threads /\ arg' = arg
  BY <1>0, <1>1 DEF IInv, TypeOK
<1>3. limit' \in Nat
  BY <1>0, <1>1, LedgerFacts, IInvUndoNeverWraps DEF UndoNeverWraps, FetchAdd
<1>4. PendingCharges' = PendingCharges
  BY <1>0, <1>1, <1>2 DEF PendingCharges
<1>5. [Next]_vars
  BY <1>0 DEF UndoLimit, Next, Shrinking
<1> QED
  BY <1>0, <1>1, <1>2, <1>3, <1>4, <1>5 DEF ShrinkPCs

\* A shrink is accepted.
LEMMA ShrunkStep ==
    ASSUME IInv, NEW t \in Movers, Shrunk(t)
    PROVE  /\ UNCHANGED <<spent, limit, accepted>>
           /\ NewLimit(t) \in Nat
           /\ PendingCharges' = PendingCharges
           /\ pc[t] \in ShrinkPCs /\ pc'[t] = "idle"
           /\ \A u \in Tasks \ {t} : pc'[u] = pc[u] /\ arg'[u] = arg[u] /\ seen'[u] = seen[u]
           /\ [Next]_vars
<1>0. t \in Threads /\ Threads = Tasks
  BY ConstantFacts
<1>1. /\ UNCHANGED <<spent, limit, accepted>>
      /\ pc[t] = "shrinkRecheck" /\ pc' = [pc EXCEPT ![t] = "idle"]
      /\ arg' = [arg EXCEPT ![t] = 0] /\ seen' = [seen EXCEPT ![t] = 0]
  BY DEF Shrunk, ShrinkAccept, Return
<1>2. DOMAIN pc = Threads /\ DOMAIN arg = Threads /\ DOMAIN seen = Threads
  BY DEF IInv, TypeOK
<1>3. NewLimit(t) \in Nat
  BY <1>0, <1>1, LedgerFacts DEF NewLimit, IInv, CallsFit
<1>4. PendingCharges' = PendingCharges
  BY <1>0, <1>1, <1>2 DEF PendingCharges
<1>5. [Next]_vars
  BY <1>0 DEF Shrunk, Next, Shrinking
<1> QED
  BY <1>0, <1>1, <1>2, <1>3, <1>4, <1>5 DEF ShrinkPCs

\* grow_limit's fetch_add.
LEMMA GrowStep ==
    ASSUME IInv, NEW t \in Movers, GrowLimit(t)
    PROVE  /\ UNCHANGED <<spent, accepted>>
           /\ \E n \in Nat : got' = [got EXCEPT ![t] = n]
           /\ PendingCharges' = PendingCharges
           /\ pc'[t] = "idle"
           /\ \A u \in Tasks \ {t} : pc'[u] = pc[u] /\ arg'[u] = arg[u] /\ seen'[u] = seen[u]
           /\ [Next]_vars
<1>0. t \in Threads /\ Threads = Tasks /\ GrowAmounts \subseteq Nat
  BY ConstantFacts
<1>1. PICK amount \in GrowAmounts :
          Grow(t, amount) /\ got' = [got EXCEPT ![t] = SaturatingAdd(limit, amount)]
  BY DEF GrowLimit
<1>2. /\ UNCHANGED <<spent, accepted>>
      /\ pc[t] \in Returned /\ pc' = [pc EXCEPT ![t] = "idle"]
      /\ arg' = [arg EXCEPT ![t] = 0] /\ seen' = [seen EXCEPT ![t] = 0]
  BY <1>1 DEF Grow, Return
<1>3. DOMAIN pc = Threads /\ DOMAIN arg = Threads /\ DOMAIN seen = Threads
  BY DEF IInv, TypeOK
<1>4. SaturatingAdd(limit, amount) \in Nat
  BY <1>0, NumberFacts
<1>5. \E n \in Nat : got' = [got EXCEPT ![t] = n]
  BY <1>1, <1>4
<1>6. PendingCharges' = PendingCharges
  BY <1>0, <1>2, <1>3 DEF PendingCharges, Returned
<1>7. [Next]_vars
  BY <1>0, <1>1 DEF Next, Start
<1> QED
  BY <1>0, <1>2, <1>3, <1>5, <1>6, <1>7

-------------------------------------------------------------------------------
\* Every step takes a step of AtomicBudget or leaves it alone.
LEMMA StepOfAtomics ==
    ASSUME AgentTypeOK, IInv, Shape, [AgentNext]_agentVars
    PROVE  [Next]_vars /\ IInv'
<1> USE ConstantFacts DEF atomics
<1>1. ASSUME NEW t \in Callers, ReadTier(t)
      PROVE  [Next]_vars /\ IInv'
  <2>1. UNCHANGED vars
    BY <1>1 DEF ReadTier
  <2> QED
    BY <2>1, NextIInv
<1>2. ASSUME NEW t \in Callers, PassKillCheck(t)
      PROVE  [Next]_vars /\ IInv'
  <2>1. t \in Threads /\ record[t].cost \in Costs /\ StartCharge(t, record[t].cost)
    BY <1>2 DEF PassKillCheck, Shape
  <2>2. Next
    BY <2>1 DEF Next, Start
  <2> QED
    BY <2>2, NextIInv
<1>3. ASSUME NEW t \in Callers, RefuseKilled(t)
      PROVE  [Next]_vars /\ IInv'
  <2>1. UNCHANGED vars
    BY <1>3 DEF RefuseKilled
  <2> QED
    BY <2>1, NextIInv
<1>4. ASSUME NEW t \in Callers, TryCharge(t)
      PROVE  [Next]_vars /\ IInv'
  <2>1. [Next]_vars
    BY <1>4, TryChargeStep
  <2> QED
    BY <2>1, NextIInv
<1>5. ASSUME NEW t \in Callers, WriteTotal(t)
      PROVE  [Next]_vars /\ IInv'
  <2>1. [Next]_vars
    BY <1>5, WriteTotalStep
  <2> QED
    BY <2>1, NextIInv
<1>6. ASSUME NEW t \in Callers, UndoTotal(t)
      PROVE  [Next]_vars /\ IInv'
  <2>1. [Next]_vars
    BY <1>6, UndoTotalStep
  <2> QED
    BY <2>1, NextIInv
<1>7. ASSUME NEW t \in Callers, Accept(t)
      PROVE  [Next]_vars /\ IInv'
  <2>1. [Next]_vars
    BY <1>7, AcceptStep
  <2> QED
    BY <2>1, NextIInv
<1>8. ASSUME NEW t \in Callers, RefuseExhausted(t)
      PROVE  [Next]_vars /\ IInv'
  <2>1. UNCHANGED vars
    BY <1>8 DEF RefuseExhausted
  <2> QED
    BY <2>1, NextIInv
<1>9. ASSUME NEW t \in Callers, PushRecord(t)
      PROVE  [Next]_vars /\ IInv'
  <2>1. UNCHANGED vars
    BY <1>9 DEF PushRecord
  <2> QED
    BY <2>1, NextIInv
<1>10. ASSUME NEW t \in Callers, ReadSpent(t)
      PROVE  [Next]_vars /\ IInv'
  <2>1. UNCHANGED vars
    BY <1>10 DEF ReadSpent
  <2> QED
    BY <2>1, NextIInv
<1>11. ASSUME NEW t \in Callers, ReadLimit(t)
      PROVE  [Next]_vars /\ IInv'
  <2>1. UNCHANGED vars
    BY <1>11 DEF ReadLimit
  <2> QED
    BY <2>1, NextIInv
<1>12. ASSUME NEW t \in Callers, CountAccepted(t)
      PROVE  [Next]_vars /\ IInv'
  <2>1. UNCHANGED vars
    BY <1>12 DEF CountAccepted
  <2> QED
    BY <2>1, NextIInv
<1>13. ASSUME NEW t \in Callers, SetSpent(t)
      PROVE  [Next]_vars /\ IInv'
  <2>1. UNCHANGED vars
    BY <1>13 DEF SetSpent
  <2> QED
    BY <2>1, NextIInv
<1>14. ASSUME NEW t \in Callers, SetRemaining(t)
      PROVE  [Next]_vars /\ IInv'
  <2>1. UNCHANGED vars
    BY <1>14 DEF SetRemaining
  <2> QED
    BY <2>1, NextIInv
<1>15. ASSUME NEW t \in Callers, JudgePressure(t)
      PROVE  [Next]_vars /\ IInv'
  <2>1. UNCHANGED vars
    BY <1>15 DEF JudgePressure
  <2> QED
    BY <2>1, NextIInv
<1>16. ASSUME NEW t \in Callers, StoreReason(t)
      PROVE  [Next]_vars /\ IInv'
  <2>1. UNCHANGED vars
    BY <1>16 DEF StoreReason
  <2> QED
    BY <2>1, NextIInv
<1>17. ASSUME NEW t \in Callers, StoreKilled(t)
      PROVE  [Next]_vars /\ IInv'
  <2>1. UNCHANGED vars
    BY <1>17 DEF StoreKilled
  <2> QED
    BY <2>1, NextIInv
<1>18. ASSUME NEW t \in Movers, BeginShrink(t)
      PROVE  [Next]_vars /\ IInv'
  <2>1. t \in Threads /\ \E amount \in ShrinkAmounts : StartShrink(t, amount)
    BY <1>18 DEF BeginShrink
  <2>2. Next
    BY <2>1 DEF Next, Start
  <2> QED
    BY <2>2, NextIInv
<1>19. ASSUME NEW t \in Movers, TryShrink(t)
      PROVE  [Next]_vars /\ IInv'
  <2>1. [Next]_vars
    BY <1>19, TryShrinkStep
  <2> QED
    BY <2>1, NextIInv
<1>20. ASSUME NEW t \in Movers, UndoLimit(t)
      PROVE  [Next]_vars /\ IInv'
  <2>1. [Next]_vars
    BY <1>20, UndoLimitStep
  <2> QED
    BY <2>1, NextIInv
<1>21. ASSUME NEW t \in Movers, Shrunk(t)
      PROVE  [Next]_vars /\ IInv'
  <2>1. [Next]_vars
    BY <1>21, ShrunkStep
  <2> QED
    BY <2>1, NextIInv
<1>22. ASSUME NEW t \in Movers, ShrinkRefused(t)
      PROVE  [Next]_vars /\ IInv'
  <2>1. UNCHANGED vars
    BY <1>22 DEF ShrinkRefused
  <2> QED
    BY <2>1, NextIInv
<1>23. ASSUME NEW t \in Movers, GrowLimit(t)
      PROVE  [Next]_vars /\ IInv'
  <2>1. [Next]_vars
    BY <1>23, GrowStep
  <2> QED
    BY <2>1, NextIInv
<1>24. ASSUME NEW t \in Movers, TellCascade(t)
      PROVE  [Next]_vars /\ IInv'
  <2>1. UNCHANGED vars
    BY <1>24 DEF TellCascade
  <2> QED
    BY <2>1, NextIInv
<1>25. ASSUME NEW t \in Tasks, Cancel(t)
      PROVE  [Next]_vars /\ IInv'
  <2>1. UNCHANGED vars
    BY <1>25 DEF Cancel
  <2> QED
    BY <2>1, NextIInv
<1>26. CASE UNCHANGED agentVars
  <2>1. UNCHANGED vars
    BY <1>26 DEF agentVars
  <2> QED
    BY <2>1, NextIInv
<1> QED
  BY <1>1, <1>2, <1>3, <1>4, <1>5, <1>6, <1>7, <1>8, <1>9, <1>10, <1>11, <1>12, <1>13,
     <1>14, <1>15, <1>16, <1>17, <1>18, <1>19, <1>20, <1>21, <1>22, <1>23, <1>24,
     <1>25, <1>26
  DEF AgentNext, ChargeCall, KillCall, MoveCall

\* Every variable keeps its type.
LEMMA TypeNext ==
    ASSUME AgentTypeOK, IInv, Shape, [AgentNext]_agentVars
    PROVE  AgentTypeOK'
<1> USE ConstantFacts
    DEF Step, Done, Count, Unjudged, atomics, vars, switch, metrics, locals, books, doubts, judging
<1>1. ASSUME NEW t \in Callers, ReadTier(t)
      PROVE  AgentTypeOK'
  <2>1. PICK c \in ExactCosts \cup {EstimateCost(cascade.current, r[1], r[2]) : r \in Requests} :
          record' = [record EXCEPT ![t] = [NoRecord EXCEPT !.tier = cascade.current, !.cost = c]]
    BY <1>1 DEF ReadTier
  <2>2. cascade.current \in Tiers
    BY DEF AgentTypeOK, Cascades
  <2>3. c \in Costs /\ c \in Nat
    BY <2>1, <2>2
  <2>4. record' \in [Tasks -> Records]
    BY <2>1, <2>2, <2>3 DEF AgentTypeOK, Records, NoRecord
  <2>5. attempts' \in 0..MaxAttempts
    <3>1. attempts < MaxAttempts /\ attempts' = attempts + 1
      BY <1>1 DEF ReadTier
    <3> QED
      BY <3>1 DEF AgentTypeOK
  <2> QED
    BY <1>1, <2>4, <2>5 DEF AgentTypeOK, ReadTier
<1>2. ASSUME NEW t \in Callers, PassKillCheck(t)
      PROVE  AgentTypeOK'
  BY <1>2 DEF AgentTypeOK, PassKillCheck
<1>3. ASSUME NEW t \in Callers, RefuseKilled(t)
      PROVE  AgentTypeOK'
  <2>1. counted' \in [Outcomes -> Nat]
    BY <1>3 DEF AgentTypeOK, Outcomes, RefuseKilled
  <2>2. record' \in [Tasks -> Records] /\ got' \in [Tasks -> Nat]
    BY <1>3 DEF AgentTypeOK, Records, NoRecord, RefuseKilled
  <2> QED
    BY <1>3, <2>1, <2>2 DEF AgentTypeOK, RefuseKilled
<1>4. ASSUME NEW t \in Callers, TryCharge(t)
      PROVE  AgentTypeOK'
  BY <1>4 DEF AgentTypeOK, TryCharge
<1>5. ASSUME NEW t \in Callers, WriteTotal(t)
      PROVE  AgentTypeOK'
  <2>1. PendingCharges \subseteq Callers
    BY DEF PendingCharges, Shape, ShrinkPCs, Returned
  <2>2. crossed' \subseteq Callers
    BY <1>5, <2>1 DEF AgentTypeOK, WriteTotal
  <2> QED
    BY <1>5, <2>2 DEF AgentTypeOK, WriteTotal
<1>6. ASSUME NEW t \in Callers, UndoTotal(t)
      PROVE  AgentTypeOK'
  BY <1>6 DEF AgentTypeOK, UndoTotal
<1>7. ASSUME NEW t \in Callers, Accept(t)
      PROVE  AgentTypeOK'
  <2>1. NewTotal(t) \in Nat /\ accepted' \in Nat
    BY <1>7, AcceptStep, LedgerFacts
  <2>2. record' \in [Tasks -> Records]
    <3>1. record' = [record EXCEPT ![t] = [record[t] EXCEPT !.total = NewTotal(t), !.sum = accepted']]
      BY <1>7 DEF Accept
    <3>2. ASSUME NEW r \in Records, NEW m \in Nat, NEW n \in Nat
          PROVE  [r EXCEPT !.total = m, !.sum = n] \in Records
      BY DEF Records
    <3>3. record[t] \in Records
      BY DEF AgentTypeOK
    <3>4. [record[t] EXCEPT !.total = NewTotal(t), !.sum = accepted'] \in Records
      BY <2>1, <3>2, <3>3
    <3> QED
      BY <3>1, <3>4 DEF AgentTypeOK
  <2>3. lateCharges' \in [Callers -> Nat]
    BY <1>7 DEF AgentTypeOK, Accept
  <2>4. crowded' \in BOOLEAN /\ behind' \in BOOLEAN /\ crossed' \subseteq Callers
    BY <1>7 DEF AgentTypeOK, Accept
  <2> QED
    BY <1>7, <2>2, <2>3, <2>4 DEF AgentTypeOK, Accept
<1>8. ASSUME NEW t \in Callers, RefuseExhausted(t)
      PROVE  AgentTypeOK'
  <2>1. counted' \in [Outcomes -> Nat]
    BY <1>8 DEF AgentTypeOK, Outcomes, RefuseExhausted
  <2>2. record' \in [Tasks -> Records] /\ got' \in [Tasks -> Nat]
    BY <1>8 DEF AgentTypeOK, Records, NoRecord, RefuseExhausted
  <2> QED
    BY <1>8, <2>1, <2>2 DEF AgentTypeOK, RefuseExhausted
<1>9. ASSUME NEW t \in Callers, PushRecord(t)
      PROVE  AgentTypeOK'
  <2>1. record[t] \in Records
    BY DEF AgentTypeOK
  <2>2. log' \in Seq(Records)
    BY <1>9, <2>1 DEF AgentTypeOK, PushRecord
  <2> QED
    BY <1>9, <2>2 DEF AgentTypeOK, PushRecord
<1>10. ASSUME NEW t \in Callers, ReadSpent(t)
      PROVE  AgentTypeOK'
  <2>1. got' \in [Tasks -> Nat] /\ behind' \in BOOLEAN
    BY <1>10, LedgerFacts DEF AgentTypeOK, ReadSpent
  <2> QED
    BY <1>10, <2>1 DEF AgentTypeOK, ReadSpent
<1>11. ASSUME NEW t \in Callers, ReadLimit(t)
      PROVE  AgentTypeOK'
  <2>1. SaturatingSub(limit, got[t]) \in Nat
    BY LedgerFacts, SubNat DEF AgentTypeOK
  <2>2. got' \in [Tasks -> Nat] /\ behind' \in BOOLEAN
    BY <1>11, <2>1 DEF AgentTypeOK, ReadLimit
  <2> QED
    BY <1>11, <2>2 DEF AgentTypeOK, ReadLimit
<1>12. ASSUME NEW t \in Callers, CountAccepted(t)
      PROVE  AgentTypeOK'
  <2>1. counted' \in [Outcomes -> Nat]
    BY <1>12 DEF AgentTypeOK, Outcomes, CountAccepted
  <2> QED
    BY <1>12, <2>1 DEF AgentTypeOK, CountAccepted
<1>13. ASSUME NEW t \in Callers, SetSpent(t)
      PROVE  AgentTypeOK'
  <2>1. record[t].total \in Nat
    BY DEF AgentTypeOK, Records
  <2>2. gauge' \in [spent : Nat \cup {Unset}, remaining : Nat \cup {Unset}]
    BY <1>13, <2>1 DEF AgentTypeOK, SetSpent
  <2> QED
    BY <1>13, <2>2 DEF AgentTypeOK, SetSpent
<1>14. ASSUME NEW t \in Callers, SetRemaining(t)
      PROVE  AgentTypeOK'
  <2>1. gauge' \in [spent : Nat \cup {Unset}, remaining : Nat \cup {Unset}]
    BY <1>14 DEF AgentTypeOK, SetRemaining
  <2> QED
    BY <1>14, <2>1 DEF AgentTypeOK, SetRemaining
<1>15. ASSUME NEW t \in Callers, JudgePressure(t)
      PROVE  AgentTypeOK'
  <2>1. cascade' \in Cascades
    BY <1>15, EvaluateStep DEF AgentTypeOK, JudgePressure
  <2>2. record' \in [Tasks -> Records] /\ got' \in [Tasks -> Nat]
    BY <1>15 DEF AgentTypeOK, Records, NoRecord, JudgePressure
  <2> QED
    BY <1>15, <2>1, <2>2 DEF AgentTypeOK, JudgePressure
<1>16. ASSUME NEW t \in Callers, StoreReason(t)
      PROVE  AgentTypeOK'
  BY <1>16 DEF AgentTypeOK, StoreReason
<1>17. ASSUME NEW t \in Callers, StoreKilled(t)
      PROVE  AgentTypeOK'
  BY <1>17 DEF AgentTypeOK, StoreKilled
<1>18. ASSUME NEW t \in Movers, BeginShrink(t)
      PROVE  AgentTypeOK'
  BY <1>18 DEF AgentTypeOK, BeginShrink
<1>19. ASSUME NEW t \in Movers, TryShrink(t)
      PROVE  AgentTypeOK'
  BY <1>19 DEF AgentTypeOK, TryShrink
<1>20. ASSUME NEW t \in Movers, UndoLimit(t)
      PROVE  AgentTypeOK'
  BY <1>20 DEF AgentTypeOK, UndoLimit
<1>21. ASSUME NEW t \in Movers, Shrunk(t)
      PROVE  AgentTypeOK'
  <2>1. got' \in [Tasks -> Nat]
    BY <1>21, ShrunkStep DEF AgentTypeOK, Shrunk
  <2> QED
    BY <1>21, <2>1 DEF AgentTypeOK, Shrunk
<1>22. ASSUME NEW t \in Movers, ShrinkRefused(t)
      PROVE  AgentTypeOK'
  <2>1. record' \in [Tasks -> Records] /\ got' \in [Tasks -> Nat]
    BY <1>22 DEF AgentTypeOK, Records, NoRecord, ShrinkRefused
  <2> QED
    BY <1>22, <2>1 DEF AgentTypeOK, ShrinkRefused
<1>23. ASSUME NEW t \in Movers, GrowLimit(t)
      PROVE  AgentTypeOK'
  <2>1. got' \in [Tasks -> Nat]
    <3>1. PICK n \in Nat : got' = [got EXCEPT ![t] = n]
      BY <1>23, GrowStep
    <3> QED
      BY <3>1 DEF AgentTypeOK
  <2> QED
    BY <1>23, <2>1 DEF AgentTypeOK, GrowLimit
<1>24. ASSUME NEW t \in Movers, TellCascade(t)
      PROVE  AgentTypeOK'
  <2>1. cascade' \in Cascades
    BY <1>24, SetTotalStep DEF AgentTypeOK, TellCascade
  <2>2. record' \in [Tasks -> Records] /\ got' \in [Tasks -> Nat]
    BY <1>24 DEF AgentTypeOK, Records, NoRecord, TellCascade
  <2> QED
    BY <1>24, <2>1, <2>2 DEF AgentTypeOK, TellCascade
<1>25. ASSUME NEW t \in Tasks, Cancel(t)
      PROVE  AgentTypeOK'
  <2>1. record[t].cost \in Nat /\ dropped.charges \in Nat /\ dropped.cost \in Nat
    BY DEF AgentTypeOK, Records
  <2>2. dropped' \in [charges : Nat, cost : Nat] /\ behind' \in BOOLEAN
    BY <1>25, <2>1 DEF AgentTypeOK, Cancel
  <2>3. record' \in [Tasks -> Records] /\ got' \in [Tasks -> Nat]
    BY <1>25 DEF AgentTypeOK, Records, NoRecord, Cancel
  <2> QED
    BY <1>25, <2>2, <2>3 DEF AgentTypeOK, Cancel
<1>26. CASE UNCHANGED agentVars
  BY <1>26 DEF agentVars, AgentTypeOK
<1> QED
  BY <1>1, <1>2, <1>3, <1>4, <1>5, <1>6, <1>7, <1>8, <1>9, <1>10, <1>11, <1>12, <1>13,
     <1>14, <1>15, <1>16, <1>17, <1>18, <1>19, <1>20, <1>21, <1>22, <1>23, <1>24,
     <1>25, <1>26
  DEF AgentNext, ChargeCall, KillCall, MoveCall
\* No task leaves its own procedures.
LEMMA ShapeNext ==
    ASSUME AgentTypeOK, IInv, Shape, [AgentNext]_agentVars
    PROVE  Shape'
<1> USE ConstantFacts
    DEF Step, Done, Count, Unjudged, atomics, vars, switch, metrics, locals, books, doubts, judging
<1>1. ASSUME NEW t \in Callers, ReadTier(t)
      PROVE  Shape'
  <2>1. PICK c \in ExactCosts \cup {EstimateCost(cascade.current, r[1], r[2]) : r \in Requests} :
          record' = [record EXCEPT ![t] = [NoRecord EXCEPT !.tier = cascade.current, !.cost = c]]
    BY <1>1 DEF ReadTier
  <2>2. cascade.current \in Tiers
    BY DEF AgentTypeOK, Cascades
  <2>3. c \in Costs
    BY <2>1, <2>2
  <2>4. record'[t].cost \in Costs
    BY <2>1, <2>3 DEF AgentTypeOK, NoRecord
  <2> QED
    BY <1>1, <2>1, <2>4 DEF AgentTypeOK, Shape, Holding, ReadTier
<1>2. ASSUME NEW t \in Callers, PassKillCheck(t)
      PROVE  Shape'
  <2>1. /\ pc' = [pc EXCEPT ![t] = "chargeLoad"] /\ arg' = [arg EXCEPT ![t] = record[t].cost]
        /\ DOMAIN pc = Tasks /\ DOMAIN arg = Tasks
    BY <1>2 DEF PassKillCheck, StartCharge, Return, IInv, TypeOK
  <2> QED
    BY <1>2, <2>1 DEF AgentTypeOK, Shape, Holding, ChargePCs, PassKillCheck
<1>3. ASSUME NEW t \in Callers, RefuseKilled(t)
      PROVE  Shape'
  BY <1>3 DEF AgentTypeOK, Shape, Holding, RefuseKilled
<1>4. ASSUME NEW t \in Callers, TryCharge(t)
      PROVE  Shape'
  <2>1. UNCHANGED <<call, record, cascade>> /\ timely' = timely /\ firm' \subseteq firm
    BY <1>4 DEF TryCharge
  <2>2. call[t] = "charge"
    BY <1>4 DEF TryCharge
  <2>3. /\ pc'[t] \in ChargePCs \cup {"refused"} /\ arg' = arg
        /\ \A u \in Tasks \ {t} : pc'[u] = pc[u]
    BY <1>4, TryChargeStep
  <2> QED
    BY <2>1, <2>2, <2>3 DEF Shape, Holding
<1>5. ASSUME NEW t \in Callers, WriteTotal(t)
      PROVE  Shape'
  <2>1. UNCHANGED <<call, record, cascade>> /\ timely' = timely /\ firm' \subseteq firm
    BY <1>5 DEF WriteTotal
  <2>2. call[t] = "charge"
    BY <1>5 DEF WriteTotal
  <2>3. /\ pc'[t] \in ChargePCs \cup {"refused"} /\ arg' = arg
        /\ \A u \in Tasks \ {t} : pc'[u] = pc[u]
    BY <1>5, WriteTotalStep
  <2> QED
    BY <2>1, <2>2, <2>3 DEF Shape, Holding
<1>6. ASSUME NEW t \in Callers, UndoTotal(t)
      PROVE  Shape'
  <2>1. UNCHANGED <<call, record, cascade>> /\ timely' = timely /\ firm' \subseteq firm
    BY <1>6 DEF UndoTotal
  <2>2. call[t] = "charge"
    BY <1>6 DEF UndoTotal
  <2>3. /\ pc'[t] \in ChargePCs \cup {"refused"} /\ arg' = arg
        /\ \A u \in Tasks \ {t} : pc'[u] = pc[u]
    BY <1>6, UndoTotalStep
  <2> QED
    BY <2>1, <2>2, <2>3 DEF Shape, Holding
<1>7. ASSUME NEW t \in Callers, Accept(t)
      PROVE  Shape'
  <2>1. /\ cascade' = cascade /\ DOMAIN call = Tasks /\ call' = [call EXCEPT ![t] = "log"]
        /\ \A u \in Callers \ {t} : record'[u] = record[u]
        /\ timely' \subseteq timely /\ firm' \subseteq firm
    BY <1>7 DEF AgentTypeOK, Accept
  <2>2. /\ pc'[t] = "idle"
        /\ \A u \in Tasks \ {t} : pc'[u] = pc[u] /\ arg'[u] = arg[u]
    BY <1>7, AcceptStep
  <2>3. call[t] \notin {"readLimit"} \cup Holding
    BY <1>7 DEF Holding, Accept
  <2> QED
    BY <2>1, <2>2, <2>3 DEF Shape, Holding, Returned
<1>8. ASSUME NEW t \in Callers, RefuseExhausted(t)
      PROVE  Shape'
  BY <1>8 DEF AgentTypeOK, Shape, Holding, Returned, RefuseExhausted
<1>9. ASSUME NEW t \in Callers, PushRecord(t)
      PROVE  Shape'
  BY <1>9 DEF AgentTypeOK, Shape, Holding, PushRecord
<1>10. ASSUME NEW t \in Callers, ReadSpent(t)
      PROVE  Shape'
  BY <1>10 DEF AgentTypeOK, Shape, Holding, ReadSpent
<1>11. ASSUME NEW t \in Callers, ReadLimit(t)
      PROVE  Shape'
  BY <1>11 DEF AgentTypeOK, Shape, Holding, ReadLimit
<1>12. ASSUME NEW t \in Callers, CountAccepted(t)
      PROVE  Shape'
  BY <1>12 DEF AgentTypeOK, Shape, Holding, CountAccepted
<1>13. ASSUME NEW t \in Callers, SetSpent(t)
      PROVE  Shape'
  BY <1>13 DEF AgentTypeOK, Shape, Holding, SetSpent
<1>14. ASSUME NEW t \in Callers, SetRemaining(t)
      PROVE  Shape'
  BY <1>14 DEF AgentTypeOK, Shape, Holding, SetRemaining
<1>15. ASSUME NEW t \in Callers, JudgePressure(t)
      PROVE  Shape'
  <2>1. /\ cascade'.current \in Tiers /\ cascade.current \in Tiers
        /\ cascade'.current <= cascade.current /\ cascade'.threshold = cascade.threshold
    BY <1>15, EvaluateStep DEF AgentTypeOK, JudgePressure
  <2>2. cascade'.current \in Nat /\ cascade.current \in Nat /\ InitialTier \in Nat
    BY <2>1
  <2>3. cascade'.current <= InitialTier /\ cascade'.threshold = PressurePct
    BY <2>1, <2>2 DEF Shape
  <2> QED
    BY <1>15, <2>3 DEF AgentTypeOK, Shape, Holding, JudgePressure
<1>16. ASSUME NEW t \in Callers, StoreReason(t)
      PROVE  Shape'
  BY <1>16 DEF AgentTypeOK, Shape, Holding, StoreReason
<1>17. ASSUME NEW t \in Callers, StoreKilled(t)
      PROVE  Shape'
  BY <1>17 DEF AgentTypeOK, Shape, Holding, StoreKilled
<1>18. ASSUME NEW t \in Movers, BeginShrink(t)
      PROVE  Shape'
  <2>1. pc' = [pc EXCEPT ![t] = "shrinkLoad"] /\ DOMAIN pc = Tasks
        /\ \A u \in Callers : arg'[u] = arg[u]
    BY <1>18 DEF BeginShrink, StartShrink, Return, IInv, TypeOK
  <2> QED
    BY <1>18, <2>1 DEF AgentTypeOK, Shape, Holding, ShrinkPCs, BeginShrink
<1>19. ASSUME NEW t \in Movers, TryShrink(t)
      PROVE  Shape'
  <2>1. UNCHANGED <<call, record, cascade>> /\ timely' = timely /\ firm' \subseteq firm
    BY <1>19 DEF TryShrink
  <2>2. call[t] = "shrink"
    BY <1>19 DEF TryShrink
  <2>3. /\ pc'[t] \in ShrinkPCs \cup {"kept"} /\ arg' = arg
        /\ \A u \in Tasks \ {t} : pc'[u] = pc[u]
    BY <1>19, TryShrinkStep
  <2> QED
    BY <2>1, <2>2, <2>3 DEF Shape, Holding
<1>20. ASSUME NEW t \in Movers, UndoLimit(t)
      PROVE  Shape'
  <2>1. UNCHANGED <<call, record, cascade>> /\ timely' = timely /\ firm' \subseteq firm
    BY <1>20 DEF UndoLimit
  <2>2. call[t] = "shrink"
    BY <1>20 DEF UndoLimit
  <2>3. /\ pc'[t] \in ShrinkPCs \cup {"kept"} /\ arg' = arg
        /\ \A u \in Tasks \ {t} : pc'[u] = pc[u]
    BY <1>20, UndoLimitStep
  <2> QED
    BY <2>1, <2>2, <2>3 DEF Shape, Holding
<1>21. ASSUME NEW t \in Movers, Shrunk(t)
      PROVE  Shape'
  <2>1. /\ cascade' = cascade /\ DOMAIN call = Tasks /\ call' = [call EXCEPT ![t] = "setTotal"]
        /\ \A u \in Callers \ {t} : record'[u] = record[u]
        /\ timely' \subseteq timely /\ firm' \subseteq firm
    BY <1>21 DEF AgentTypeOK, Shrunk
  <2>2. /\ pc'[t] = "idle"
        /\ \A u \in Tasks \ {t} : pc'[u] = pc[u] /\ arg'[u] = arg[u]
    BY <1>21, ShrunkStep
  <2>3. call[t] \notin {"readLimit"} \cup Holding
    BY <1>21 DEF Holding, Shrunk
  <2> QED
    BY <2>1, <2>2, <2>3 DEF Shape, Holding, Returned
<1>22. ASSUME NEW t \in Movers, ShrinkRefused(t)
      PROVE  Shape'
  BY <1>22 DEF AgentTypeOK, Shape, Holding, Returned, ShrinkRefused
<1>23. ASSUME NEW t \in Movers, GrowLimit(t)
      PROVE  Shape'
  <2>1. /\ cascade' = cascade /\ DOMAIN call = Tasks /\ call' = [call EXCEPT ![t] = "setTotal"]
        /\ \A u \in Callers \ {t} : record'[u] = record[u]
        /\ timely' \subseteq timely /\ firm' \subseteq firm
    BY <1>23 DEF AgentTypeOK, GrowLimit
  <2>2. /\ pc'[t] = "idle"
        /\ \A u \in Tasks \ {t} : pc'[u] = pc[u] /\ arg'[u] = arg[u]
    BY <1>23, GrowStep
  <2>3. call[t] \notin {"readLimit"} \cup Holding
    BY <1>23 DEF Holding, GrowLimit
  <2> QED
    BY <2>1, <2>2, <2>3 DEF Shape, Holding, Returned
<1>24. ASSUME NEW t \in Movers, TellCascade(t)
      PROVE  Shape'
  <2>1. cascade'.current = cascade.current /\ cascade'.threshold = cascade.threshold
    BY <1>24, SetTotalStep DEF AgentTypeOK, TellCascade
  <2> QED
    BY <1>24, <2>1 DEF AgentTypeOK, Shape, Holding, TellCascade
<1>25. ASSUME NEW t \in Tasks, Cancel(t)
      PROVE  Shape'
  BY <1>25 DEF AgentTypeOK, Shape, Holding, Cancel
<1>26. CASE UNCHANGED agentVars
  BY <1>26 DEF agentVars, AgentTypeOK, Shape, Holding
<1> QED
  BY <1>1, <1>2, <1>3, <1>4, <1>5, <1>6, <1>7, <1>8, <1>9, <1>10, <1>11, <1>12, <1>13,
     <1>14, <1>15, <1>16, <1>17, <1>18, <1>19, <1>20, <1>21, <1>22, <1>23, <1>24,
     <1>25, <1>26
  DEF AgentNext, ChargeCall, KillCall, MoveCall

\* A killed agent stays killed and its reason is known.
LEMMA KillInvNext ==
    ASSUME AgentTypeOK, Shape, KillInv, [AgentNext]_agentVars
    PROVE  KillInv'
<1> USE ConstantFacts
    DEF Step, Done, Count, Unjudged, atomics, vars, switch, metrics, locals, books, doubts, judging
<1>1. ASSUME NEW t \in Callers, ReadTier(t)
      PROVE  KillInv'
  BY <1>1 DEF AgentTypeOK, KillInv, ReadTier
<1>2. ASSUME NEW t \in Callers, PassKillCheck(t)
      PROVE  KillInv'
  BY <1>2 DEF AgentTypeOK, Shape, KillInv, PassKillCheck
<1>3. ASSUME NEW t \in Callers,
             \/ TryCharge(t) \/ WriteTotal(t) \/ UndoTotal(t)
             \/ RefuseExhausted(t) \/ RefuseKilled(t)
      PROVE  KillInv'
  BY <1>3
  DEF AgentTypeOK, Shape, KillInv, TryCharge, WriteTotal, UndoTotal, RefuseExhausted,
      RefuseKilled
<1>4. ASSUME NEW t \in Callers, Accept(t)
      PROVE  KillInv'
  <2>1. \A u \in Callers \ {t} : lateCharges'[u] = lateCharges[u] /\ call'[u] = call[u]
    BY <1>4 DEF AgentTypeOK, Accept
  <2>2. call[t] = "charge" /\ call'[t] = "log" /\ killed' = killed /\ killReason' = killReason
    BY <1>4 DEF AgentTypeOK, Accept
  <2>3. lateCharges[t] = 0
    BY <1>4, <2>2 DEF AgentTypeOK, KillInv
  <2>4. lateCharges'[t] = IF killed THEN 1 ELSE 0
    BY <1>4, <2>3 DEF AgentTypeOK, Accept
  <2> QED
    BY <2>1, <2>2, <2>3, <2>4 DEF KillInv
<1>5. ASSUME NEW t \in Callers,
             \/ PushRecord(t) \/ ReadSpent(t) \/ ReadLimit(t) \/ CountAccepted(t)
             \/ SetSpent(t) \/ SetRemaining(t) \/ JudgePressure(t)
      PROVE  KillInv'
  <2>1. UNCHANGED <<killed, killReason, lateCharges>>
    BY <1>5
    DEF PushRecord, ReadSpent, ReadLimit, CountAccepted, SetSpent, SetRemaining, JudgePressure
  <2>2. /\ \A u \in Callers \ {t} : call'[u] = call[u]
        /\ call'[t] \notin {"charge", "kill"}
    BY <1>5
    DEF AgentTypeOK, PushRecord, ReadSpent, ReadLimit, CountAccepted, SetSpent, SetRemaining,
        JudgePressure
  <2> QED
    BY <2>1, <2>2 DEF KillInv
<1>6. ASSUME NEW t \in Callers, StoreReason(t)
      PROVE  KillInv'
  BY <1>6 DEF AgentTypeOK, Shape, KillInv, StoreReason
<1>7. ASSUME NEW t \in Callers, StoreKilled(t)
      PROVE  KillInv'
  BY <1>7 DEF AgentTypeOK, Shape, KillInv, StoreKilled
<1>8. ASSUME NEW t \in Movers,
             \/ BeginShrink(t) \/ TryShrink(t) \/ UndoLimit(t) \/ Shrunk(t)
             \/ ShrinkRefused(t) \/ GrowLimit(t) \/ TellCascade(t)
      PROVE  KillInv'
  BY <1>8
  DEF AgentTypeOK, Shape, KillInv, BeginShrink, TryShrink, UndoLimit, Shrunk,
      ShrinkRefused, GrowLimit, TellCascade
<1>9. ASSUME NEW t \in Tasks, Cancel(t)
      PROVE  KillInv'
  BY <1>9 DEF AgentTypeOK, Shape, KillInv, Cancel
<1>10. CASE UNCHANGED agentVars
  BY <1>10 DEF agentVars, AgentTypeOK, Shape, KillInv
<1> QED
  BY <1>1, <1>2, <1>3, <1>4, <1>5, <1>6, <1>7, <1>8, <1>9, <1>10
  DEF AgentNext, ChargeCall, KillCall, MoveCall
\* The log stays in order while no two charges wait for it.
LEMMA OrderNext ==
    ASSUME AgentTypeOK, IInv, Shape, OrderInv, [AgentNext]_agentVars
    PROVE  OrderInv'
<1> USE ConstantFacts
    DEF Step, Done, Count, Unjudged, atomics, vars, switch, metrics, locals, books, doubts, judging
<1>0. ASSUME UNCHANGED <<log, accepted, crowded>>,
             \A u \in Callers : call'[u] = "log" => call[u] = "log" /\ record'[u] = record[u]
      PROVE  OrderInv'
  BY <1>0 DEF OrderInv, AuditOrderedApart
<1>1. ASSUME NEW t \in Callers,
             \/ ReadTier(t) \/ RefuseKilled(t) \/ RefuseExhausted(t)
      PROVE  OrderInv'
  <2>1. /\ UNCHANGED <<log, accepted, crowded>>
        /\ \A u \in Callers : call'[u] = "log" => call[u] = "log" /\ record'[u] = record[u]
    BY <1>1
    DEF AgentTypeOK, ReadTier, RefuseKilled, RefuseExhausted
  <2> QED
    BY <1>0, <2>1
<1>2. ASSUME NEW t \in Callers,
             \/ PassKillCheck(t) \/ StoreReason(t) \/ StoreKilled(t)
      PROVE  OrderInv'
  <2>1. /\ UNCHANGED <<log, accepted, crowded>>
        /\ \A u \in Callers : call'[u] = "log" => call[u] = "log" /\ record'[u] = record[u]
    BY <1>2
    DEF AgentTypeOK, StartCharge, PassKillCheck, StoreReason, StoreKilled
  <2> QED
    BY <1>0, <2>1
<1>3. ASSUME NEW t \in Callers,
             \/ TryCharge(t) \/ WriteTotal(t) \/ UndoTotal(t)
      PROVE  OrderInv'
  <2>1. /\ UNCHANGED <<log, accepted, crowded>>
        /\ \A u \in Callers : call'[u] = "log" => call[u] = "log" /\ record'[u] = record[u]
    BY <1>3, TryChargeStep, UndoTotalStep, WriteTotalStep
    DEF AgentTypeOK, TryCharge, WriteTotal, UndoTotal
  <2> QED
    BY <1>0, <2>1
<1>4. ASSUME NEW t \in Callers, Accept(t)
      PROVE  OrderInv'
  <2>1. /\ accepted' = accepted + record[t].cost /\ record[t].cost \in Nat /\ accepted \in Nat
        /\ log' = log /\ record'[t].sum = accepted'
        /\ \A u \in Callers \ {t} : record'[u] = record[u] /\ call'[u] = call[u]
        /\ ~crowded' => ~crowded /\ \A u \in Callers : call[u] # "log"
    <3>1. /\ t \in Tasks /\ record \in [Tasks -> Records] /\ DOMAIN call = Tasks
          /\ crowded \in BOOLEAN
      BY DEF AgentTypeOK
    <3>2. call[t] = "charge" /\ arg[t] = record[t].cost
      BY <1>4 DEF Accept, Shape
    <3>3. accepted' = accepted + record[t].cost /\ record[t].cost \in Nat /\ accepted \in Nat
      BY <1>4, <3>1, <3>2, AcceptStep, LedgerFacts DEF Records
    <3>4. log' = log /\ (crowded' <=> crowded \/ \E u \in Callers : call[u] = "log")
      BY <1>4 DEF Accept
    <3>5. /\ record'[t].sum = accepted'
          /\ \A u \in Callers \ {t} : record'[u] = record[u] /\ call'[u] = call[u]
      BY <1>4, <3>1 DEF Records, Accept
    <3> QED
      BY <3>3, <3>4, <3>5
  <2>2. \A i \in DOMAIN log : log[i].sum \in Nat
    <3>1. \A i \in DOMAIN log : log[i] \in Records
      BY DEF AgentTypeOK
    <3> QED
      BY <3>1 DEF Records
  <2>3. \A u \in Callers : record[u].sum \in Nat
    BY DEF AgentTypeOK, Records
  <2>4. \A i \in DOMAIN log' : log'[i].sum <= accepted'
    BY <2>1, <2>2 DEF OrderInv
  <2>5. \A u \in Callers : call'[u] = "log" => record'[u].sum <= accepted'
    BY <2>1, <2>3 DEF OrderInv
  <2>6. ASSUME ~crowded'
        PROVE  /\ \A u, v \in Callers : call'[u] = "log" /\ call'[v] = "log" => u = v
               /\ \A u \in Callers, i \in DOMAIN log' :
                    call'[u] = "log" => log'[i].sum <= record'[u].sum
    BY <2>1, <2>4, <2>6
  <2>7. ~crowded' => AuditOrderedApart'
    BY <2>1 DEF OrderInv, AuditOrderedApart
  <2> QED
    BY <2>4, <2>5, <2>6, <2>7 DEF OrderInv
<1>5. ASSUME NEW t \in Callers, PushRecord(t)
      PROVE  OrderInv'
  <2>1. /\ DOMAIN log = 1..Len(log) /\ DOMAIN log' = 1..(Len(log) + 1) /\ Len(log) \in Nat
        /\ \A i \in DOMAIN log : log'[i] = log[i]
        /\ log'[Len(log) + 1] = record[t]
    <3>1. log \in Seq(Records) /\ log' = Append(log, record[t])
      BY <1>5 DEF AgentTypeOK, PushRecord
    <3> QED
      BY <3>1
  <2>2. /\ accepted' = accepted /\ crowded' = crowded /\ record' = record
        /\ call[t] = "log" /\ call'[t] = "readSpent" /\ \A u \in Callers \ {t} : call'[u] = call[u]
    BY <1>5 DEF AgentTypeOK, PushRecord
  <2>3. \A i \in DOMAIN log' : i \in DOMAIN log \/ i = Len(log) + 1
    BY <2>1
  <2>4. \A i \in DOMAIN log' : log'[i].sum <= accepted'
    BY <1>5, <2>1, <2>2, <2>3 DEF OrderInv
  <2>5. \A u \in Callers : call'[u] = "log" => record'[u].sum <= accepted'
    BY <2>2 DEF OrderInv
  <2>6. ~crowded' => \A u \in Callers : call'[u] # "log"
    BY <1>5, <2>2 DEF OrderInv
  <2>7. ~crowded' => AuditOrderedApart'
    <3> SUFFICES ASSUME ~crowded, NEW i \in DOMAIN log', NEW j \in DOMAIN log', i < j
                 PROVE  log'[i].sum <= log'[j].sum
      BY <2>2 DEF AuditOrderedApart
    <3>1. i \in DOMAIN log
      BY <2>1
    <3>2. CASE j \in DOMAIN log
      BY <2>1, <3>1, <3>2 DEF OrderInv, AuditOrderedApart
    <3>3. CASE j = Len(log) + 1
      BY <1>5, <2>1, <2>2, <3>1, <3>3 DEF OrderInv
    <3> QED
      BY <2>3, <3>2, <3>3
  <2> QED
    BY <2>4, <2>5, <2>6, <2>7 DEF OrderInv
<1>6. ASSUME NEW t \in Callers,
             \/ ReadSpent(t) \/ ReadLimit(t) \/ CountAccepted(t) \/ SetSpent(t)
             \/ SetRemaining(t) \/ JudgePressure(t)
      PROVE  OrderInv'
  <2>1. /\ UNCHANGED <<log, accepted, crowded>>
        /\ \A u \in Callers : call'[u] = "log" => call[u] = "log" /\ record'[u] = record[u]
    BY <1>6
    DEF AgentTypeOK, ReadSpent, ReadLimit, CountAccepted, SetSpent, SetRemaining,
        JudgePressure
  <2> QED
    BY <1>0, <2>1
<1>7. ASSUME NEW t \in Movers,
             \/ BeginShrink(t) \/ ShrinkRefused(t) \/ TellCascade(t)
      PROVE  OrderInv'
  <2>1. /\ UNCHANGED <<log, accepted, crowded>>
        /\ \A u \in Callers : call'[u] = "log" => call[u] = "log" /\ record'[u] = record[u]
    BY <1>7
    DEF AgentTypeOK, StartShrink, BeginShrink, ShrinkRefused, TellCascade
  <2> QED
    BY <1>0, <2>1
<1>8. ASSUME NEW t \in Movers,
             \/ TryShrink(t) \/ UndoLimit(t) \/ Shrunk(t) \/ GrowLimit(t)
      PROVE  OrderInv'
  <2>1. /\ UNCHANGED <<log, accepted, crowded>>
        /\ \A u \in Callers : call'[u] = "log" => call[u] = "log" /\ record'[u] = record[u]
    <3>1. accepted' = accepted
      BY <1>8, GrowStep, ShrunkStep, TryShrinkStep, UndoLimitStep
    <3>2. UNCHANGED <<log, crowded, record>>
      BY <1>8 DEF TryShrink, UndoLimit, Shrunk, GrowLimit
    <3>3. \A u \in Callers : call'[u] = call[u]
      BY <1>8 DEF AgentTypeOK, TryShrink, UndoLimit, Shrunk, GrowLimit
    <3> QED
      BY <3>1, <3>2, <3>3
  <2> QED
    BY <1>0, <2>1
<1>9. ASSUME NEW t \in Tasks, Cancel(t)
      PROVE  OrderInv'
  <2>1. /\ UNCHANGED <<log, accepted, crowded>>
        /\ \A u \in Callers : call'[u] = "log" => call[u] = "log" /\ record'[u] = record[u]
    BY <1>9
    DEF AgentTypeOK, Cancel
  <2> QED
    BY <1>0, <2>1
<1>10. CASE UNCHANGED agentVars
  BY <1>10, <1>0 DEF agentVars
<1> QED
  BY <1>1, <1>2, <1>3, <1>4, <1>5, <1>6, <1>7, <1>8, <1>9, <1>10
  DEF AgentNext, ChargeCall, KillCall, MoveCall

\* Charges that are half done at the same time know of each other.
LEMMA CrossNext ==
    ASSUME AgentTypeOK, IInv, Shape, CrossInv, [AgentNext]_agentVars
    PROVE  CrossInv'
<1> USE ConstantFacts
    DEF Step, Done, Count, Unjudged, atomics, vars, switch, metrics, locals, books, doubts, judging
<1>0. ASSUME PendingCharges' = PendingCharges, UNCHANGED <<accepted, crossed>>,
             \A u \in PendingCharges : arg'[u] = arg[u] /\ seen'[u] = seen[u]
      PROVE  CrossInv'
  BY <1>0 DEF CrossInv, NewTotal, SaturatingAdd
<1>1. ASSUME NEW t \in Callers,
             \/ ReadTier(t) \/ RefuseKilled(t) \/ RefuseExhausted(t)
             \/ PushRecord(t) \/ ReadSpent(t) \/ ReadLimit(t) \/ CountAccepted(t)
             \/ SetSpent(t) \/ SetRemaining(t) \/ JudgePressure(t)
             \/ StoreReason(t) \/ StoreKilled(t)
      PROVE  CrossInv'
  <2>1. UNCHANGED <<vars, crossed>>
    BY <1>1
    DEF ReadTier, RefuseKilled, RefuseExhausted, PushRecord, ReadSpent, ReadLimit,
        CountAccepted, SetSpent, SetRemaining, JudgePressure, StoreReason,
        StoreKilled
  <2> QED
    BY <1>0, <2>1 DEF PendingCharges
<1>2. ASSUME NEW t \in Callers, PassKillCheck(t)
      PROVE  CrossInv'
  <2>1. /\ PendingCharges' = PendingCharges /\ UNCHANGED <<accepted, crossed>>
        /\ \A u \in PendingCharges : arg'[u] = arg[u] /\ seen'[u] = seen[u]
    BY <1>2 DEF PassKillCheck, StartCharge, Return, Returned, PendingCharges, IInv, TypeOK
  <2> QED
    BY <1>0, <2>1
<1>3. ASSUME NEW t \in Callers, TryCharge(t)
      PROVE  CrossInv'
  <2>1. /\ PendingCharges' = PendingCharges /\ UNCHANGED <<accepted, crossed>>
        /\ \A u \in PendingCharges : arg'[u] = arg[u] /\ seen'[u] = seen[u]
    BY <1>3, TryChargeStep DEF TryCharge
  <2> QED
    BY <1>0, <2>1
<1>4. ASSUME NEW t \in Callers, WriteTotal(t)
      PROVE  CrossInv'
  <2>1. /\ PendingCharges' = PendingCharges \cup {t} /\ UNCHANGED <<accepted, arg, seen>>
        /\ spent' = spent + arg[t] /\ NewTotal(t) = spent'
    BY <1>4, WriteTotalStep
  <2>2. crossed' = IF PendingCharges = {} THEN crossed ELSE crossed \cup PendingCharges \cup {t}
    BY <1>4 DEF WriteTotal
  <2>3. CASE PendingCharges = {}
    <3>1. NewTotal(t)' = accepted + arg[t]
      BY <2>1, <2>3, LedgerFacts DEF NewTotal, SaturatingAdd
    <3> QED
      BY <2>1, <2>3, <3>1 DEF CrossInv
  <2>4. CASE PendingCharges # {}
    BY <2>1, <2>2, <2>4 DEF CrossInv
  <2> QED
    BY <2>3, <2>4
<1>5. ASSUME NEW t \in Callers, UndoTotal(t)
      PROVE  CrossInv'
  <2>1. /\ PendingCharges' = PendingCharges \ {t} /\ UNCHANGED <<accepted, arg>>
        /\ \A u \in Tasks \ {t} : seen'[u] = seen[u]
    BY <1>5, UndoTotalStep
  <2>2. t \in PendingCharges /\ crossed' = crossed \ {t}
    BY <1>5 DEF UndoTotal, ChargeUndo, PendingCharges
  <2> QED
    BY <2>1, <2>2 DEF CrossInv
<1>6. ASSUME NEW t \in Callers, Accept(t)
      PROVE  CrossInv'
  <2>1. t \in PendingCharges /\ PendingCharges' = PendingCharges \ {t}
    BY <1>6, AcceptStep
  <2>2. crossed' = crossed \ {t}
    BY <1>6 DEF Accept
  <2> QED
    BY <2>1, <2>2 DEF CrossInv
<1>7. ASSUME NEW t \in Movers, BeginShrink(t)
      PROVE  CrossInv'
  <2>1. /\ PendingCharges' = PendingCharges /\ UNCHANGED <<accepted, crossed>>
        /\ \A u \in PendingCharges : arg'[u] = arg[u] /\ seen'[u] = seen[u]
    BY <1>7 DEF BeginShrink, StartShrink, Return, Returned, PendingCharges, IInv, TypeOK
  <2> QED
    BY <1>0, <2>1
<1>8. ASSUME NEW t \in Movers,
             \/ TryShrink(t) \/ UndoLimit(t) \/ Shrunk(t) \/ GrowLimit(t)
      PROVE  CrossInv'
  <2>1. t \in Tasks /\ pc[t] \notin {"chargeRecheck", "chargeUndo"} /\ crossed' = crossed
    <3>1. pc[t] \in ShrinkPCs \cup Returned
      BY <1>8, TryShrinkStep, UndoLimitStep, ShrunkStep DEF Grow, GrowLimit
    <3> QED
      BY <1>8, <3>1 DEF TryShrink, UndoLimit, Shrunk, GrowLimit, ShrinkPCs, Returned
  <2>2. /\ PendingCharges' = PendingCharges /\ accepted' = accepted
        /\ \A u \in Tasks \ {t} : arg'[u] = arg[u] /\ seen'[u] = seen[u]
    BY <1>8, TryShrinkStep, UndoLimitStep, ShrunkStep, GrowStep
  <2> QED
    BY <1>0, <2>1, <2>2 DEF PendingCharges
<1>9. ASSUME NEW t \in Movers,
             \/ ShrinkRefused(t) \/ TellCascade(t)
      PROVE  CrossInv'
  <2>1. UNCHANGED <<vars, crossed>>
    BY <1>9
    DEF ShrinkRefused, TellCascade
  <2> QED
    BY <1>0, <2>1 DEF PendingCharges
<1>10. ASSUME NEW t \in Tasks, Cancel(t)
      PROVE  CrossInv'
  <2>1. UNCHANGED <<vars, crossed>>
    BY <1>10
    DEF Cancel
  <2> QED
    BY <1>0, <2>1 DEF PendingCharges
<1>11. CASE UNCHANGED agentVars
  <2>1. UNCHANGED <<vars, crossed>>
    BY <1>11 DEF agentVars
  <2> QED
    BY <1>0, <2>1 DEF PendingCharges
<1> QED
  BY <1>1, <1>2, <1>3, <1>4, <1>5, <1>6, <1>7, <1>8, <1>9, <1>10, <1>11
  DEF AgentNext, ChargeCall, KillCall, MoveCall
\* The gauges are current or marked as behind.
LEMMA GaugeNext ==
    ASSUME AgentTypeOK, IInv, Shape, CrossInv, GaugeInv, [AgentNext]_agentVars
    PROVE  GaugeInv'
<1> USE ConstantFacts
    DEF Step, Done, Count, Unjudged, atomics, vars, switch, metrics, locals, books, doubts, judging
<1>0. ASSUME UNCHANGED <<behind, accepted, settled, gauge>>, Unpublished' = Unpublished,
             \A u \in Unpublished : call'[u] = call[u] /\ record'[u] = record[u] /\ got'[u] = got[u]
      PROVE  GaugeInv'
  BY <1>0 DEF GaugeInv, GaugeCurrent
<1>1. ASSUME NEW t \in Callers,
             \/ ReadTier(t) \/ RefuseKilled(t) \/ RefuseExhausted(t)
      PROVE  GaugeInv'
  <2>1. /\ UNCHANGED <<behind, accepted, settled, gauge>>
        /\ \A u \in Tasks \ {t} : /\ call'[u] = call[u] /\ record'[u] = record[u]
                                  /\ got'[u] = got[u]
    BY <1>1
    DEF AgentTypeOK, ReadTier, RefuseKilled, RefuseExhausted
  <2>2. t \notin Unpublished /\ t \notin Unpublished'
    BY <1>1 DEF AgentTypeOK, Unpublished, Shape, ReadTier, RefuseKilled, RefuseExhausted
  <2>3. Unpublished' = Unpublished /\ \A u \in Unpublished : u \in Tasks \ {t}
    BY <2>1, <2>2 DEF Unpublished
  <2> QED
    BY <1>0, <2>1, <2>3
<1>2. ASSUME NEW t \in Callers,
             \/ PassKillCheck(t) \/ StoreReason(t) \/ StoreKilled(t)
      PROVE  GaugeInv'
  <2>1. /\ UNCHANGED <<behind, accepted, settled, gauge>>
        /\ \A u \in Tasks \ {t} : /\ call'[u] = call[u] /\ record'[u] = record[u]
                                  /\ got'[u] = got[u]
    BY <1>2
    DEF AgentTypeOK, PassKillCheck, StoreReason, StoreKilled, StartCharge
  <2>2. t \notin Unpublished /\ t \notin Unpublished'
    BY <1>2 DEF AgentTypeOK, Unpublished, Shape, PassKillCheck, StoreReason, StoreKilled
  <2>3. Unpublished' = Unpublished /\ \A u \in Unpublished : u \in Tasks \ {t}
    BY <2>1, <2>2 DEF Unpublished
  <2> QED
    BY <1>0, <2>1, <2>3
<1>3. ASSUME NEW t \in Callers,
             \/ TryCharge(t) \/ WriteTotal(t) \/ UndoTotal(t)
      PROVE  GaugeInv'
  <2>1. UNCHANGED <<behind, accepted, settled, gauge, call, record, got>>
    BY <1>3, TryChargeStep, WriteTotalStep, UndoTotalStep
    DEF TryCharge, WriteTotal, UndoTotal
  <2> QED
    BY <1>0, <2>1 DEF Unpublished
<1>4. ASSUME NEW t \in Callers, Accept(t)
      PROVE  GaugeInv'
  <2>1. SUFFICES ASSUME ~behind'
                 PROVE  /\ Unpublished' = {t}
                        /\ record'[t].total = accepted' /\ call'[t] = "log"
    BY DEF GaugeInv, GaugeCurrent, Holding
  <2>2. Unpublished = {} /\ t \notin crossed
    BY <1>4, <2>1 DEF Accept
  <2>3. call' = [call EXCEPT ![t] = "log"] /\ t \in Callers
    BY <1>4 DEF Accept
  <2>4. Unpublished' = {t}
    BY <2>2, <2>3 DEF AgentTypeOK, Unpublished
  <2>5. NewTotal(t) = accepted + arg[t] /\ accepted' = accepted + arg[t]
    BY <1>4, <2>2, AcceptStep DEF CrossInv
  <2>6. record'[t].total = NewTotal(t)
    BY <1>4 DEF AgentTypeOK, Records, Accept
  <2> QED
    BY <2>3, <2>4, <2>5, <2>6 DEF AgentTypeOK
<1>5. ASSUME NEW t \in Callers, PushRecord(t)
      PROVE  GaugeInv'
  <2>1. /\ call[t] = "log" /\ call' = [call EXCEPT ![t] = "readSpent"] /\ t \in Unpublished
        /\ UNCHANGED <<accepted, settled, record>>
    BY <1>5 DEF PushRecord, Unpublished
  <2>2. UNCHANGED <<behind, gauge, got>> /\ Unpublished' = Unpublished
    BY <1>5, <2>1 DEF AgentTypeOK, Unpublished, PushRecord
  <2> QED
    BY <2>1, <2>2 DEF AgentTypeOK, GaugeInv, GaugeCurrent, Unpublished, Holding
<1>6. ASSUME NEW t \in Callers, ReadSpent(t)
      PROVE  GaugeInv'
  <2>1. /\ call[t] = "readSpent" /\ call' = [call EXCEPT ![t] = "readLimit"] /\ t \in Unpublished
        /\ UNCHANGED <<accepted, settled, record>>
    BY <1>6 DEF ReadSpent, Unpublished
  <2>2. SUFFICES ASSUME ~behind, ~HalfDone
                 PROVE  GaugeInv'
    BY <1>6 DEF GaugeInv, ReadSpent
  <2>3. spent = accepted
    BY <2>2, LedgerFacts DEF HalfDone
  <2>4. gauge' = gauge /\ got'[t] = accepted /\ Unpublished' = Unpublished /\ Unpublished = {t}
    BY <1>6, <2>1, <2>2, <2>3 DEF AgentTypeOK, GaugeInv, Unpublished, ReadSpent
  <2>5. record[t].total = accepted /\ call'[t] = "readLimit"
    BY <2>1, <2>2 DEF AgentTypeOK, GaugeInv
  <2> QED
    BY <2>1, <2>4, <2>5 DEF GaugeInv, GaugeCurrent, Holding
<1>7. ASSUME NEW t \in Callers, ReadLimit(t)
      PROVE  GaugeInv'
  <2>1. /\ call[t] = "readLimit" /\ call' = [call EXCEPT ![t] = "count"] /\ t \in Unpublished
        /\ UNCHANGED <<accepted, settled, record>>
    BY <1>7 DEF ReadLimit, Unpublished
  <2>2. SUFFICES ASSUME ~behind, ~HalfDone
                 PROVE  GaugeInv'
    BY <1>7 DEF GaugeInv, ReadLimit
  <2>3. limit = settled /\ got[t] = accepted /\ accepted <= settled
    BY <2>1, <2>2, LedgerFacts DEF HalfDone, GaugeInv
  <2>4. SaturatingSub(limit, got[t]) = settled - accepted
    BY <2>3 DEF SaturatingSub
  <2>5. /\ gauge' = gauge /\ got'[t] = settled - accepted
        /\ Unpublished' = Unpublished /\ Unpublished = {t}
    BY <1>7, <2>1, <2>2, <2>4 DEF AgentTypeOK, GaugeInv, Unpublished, ReadLimit
  <2>6. record[t].total = accepted /\ call'[t] = "count"
    BY <2>1, <2>2 DEF AgentTypeOK, GaugeInv
  <2> QED
    BY <2>1, <2>5, <2>6 DEF GaugeInv, GaugeCurrent, Holding
<1>8. ASSUME NEW t \in Callers, CountAccepted(t)
      PROVE  GaugeInv'
  <2>1. /\ call[t] = "count" /\ call' = [call EXCEPT ![t] = "gaugeSpent"] /\ t \in Unpublished
        /\ UNCHANGED <<accepted, settled, record>>
    BY <1>8 DEF CountAccepted, Unpublished
  <2>2. UNCHANGED <<behind, gauge, got>> /\ Unpublished' = Unpublished
    BY <1>8, <2>1 DEF AgentTypeOK, Unpublished, CountAccepted
  <2> QED
    BY <2>1, <2>2 DEF AgentTypeOK, GaugeInv, GaugeCurrent, Unpublished, Holding
<1>9. ASSUME NEW t \in Callers, SetSpent(t)
      PROVE  GaugeInv'
  <2>1. /\ call[t] = "gaugeSpent" /\ call' = [call EXCEPT ![t] = "gaugeRemaining"] /\ t \in Unpublished
        /\ UNCHANGED <<accepted, settled, record>>
    BY <1>9 DEF SetSpent, Unpublished
  <2>2. SUFFICES ASSUME ~behind
                 PROVE  GaugeInv'
    BY <1>9 DEF GaugeInv, SetSpent
  <2>3. /\ Unpublished' = Unpublished /\ Unpublished = {t} /\ got' = got
        /\ record[t].total = accepted /\ got[t] = settled - accepted
    BY <1>9, <2>1, <2>2 DEF AgentTypeOK, GaugeInv, Unpublished, Holding, SetSpent
  <2>4. gauge'.spent = accepted /\ call'[t] = "gaugeRemaining"
    BY <1>9, <2>1, <2>3 DEF AgentTypeOK, SetSpent
  <2> QED
    BY <2>1, <2>3, <2>4 DEF GaugeInv, GaugeCurrent, Holding
<1>10. ASSUME NEW t \in Callers, SetRemaining(t)
      PROVE  GaugeInv'
  <2>1. /\ call[t] = "gaugeRemaining" /\ call' = [call EXCEPT ![t] = "evaluate"] /\ t \in Unpublished
        /\ UNCHANGED <<accepted, settled, record>>
    BY <1>10 DEF SetRemaining, Unpublished
  <2>2. SUFFICES ASSUME ~behind
                 PROVE  GaugeInv'
    BY <1>10 DEF GaugeInv, SetRemaining
  <2>3. Unpublished = {t} /\ got[t] = settled - accepted /\ gauge.spent = accepted
    BY <2>1, <2>2 DEF GaugeInv, Holding
  <2>4. Unpublished' = {}
    BY <2>1, <2>3 DEF AgentTypeOK, Unpublished
  <2>5. gauge' = [spent |-> accepted, remaining |-> settled - accepted]
    BY <1>10, <2>3 DEF AgentTypeOK, SetRemaining
  <2> QED
    BY <2>1, <2>4, <2>5 DEF GaugeInv, GaugeCurrent
<1>11. ASSUME NEW t \in Callers, JudgePressure(t)
      PROVE  GaugeInv'
  <2>1. /\ UNCHANGED <<behind, accepted, settled, gauge>>
        /\ \A u \in Tasks \ {t} : /\ call'[u] = call[u] /\ record'[u] = record[u]
                                  /\ got'[u] = got[u]
    BY <1>11
    DEF AgentTypeOK, JudgePressure
  <2>2. t \notin Unpublished /\ t \notin Unpublished'
    BY <1>11 DEF AgentTypeOK, Unpublished, Shape, JudgePressure
  <2>3. Unpublished' = Unpublished /\ \A u \in Unpublished : u \in Tasks \ {t}
    BY <2>1, <2>2 DEF Unpublished
  <2> QED
    BY <1>0, <2>1, <2>3
<1>12. ASSUME NEW t \in Movers,
             \/ BeginShrink(t) \/ ShrinkRefused(t) \/ TellCascade(t)
      PROVE  GaugeInv'
  <2>1. /\ UNCHANGED <<behind, accepted, settled, gauge>>
        /\ \A u \in Tasks \ {t} : /\ call'[u] = call[u] /\ record'[u] = record[u]
                                  /\ got'[u] = got[u]
    BY <1>12
    DEF AgentTypeOK, BeginShrink, ShrinkRefused, TellCascade, StartShrink
  <2>2. t \notin Unpublished /\ t \notin Unpublished'
    BY <1>12 DEF AgentTypeOK, Unpublished, Shape, BeginShrink, ShrinkRefused, TellCascade
  <2>3. Unpublished' = Unpublished /\ \A u \in Unpublished : u \in Tasks \ {t}
    BY <2>1, <2>2 DEF Unpublished
  <2> QED
    BY <1>0, <2>1, <2>3
<1>13. ASSUME NEW t \in Movers,
             \/ TryShrink(t) \/ UndoLimit(t)
      PROVE  GaugeInv'
  <2>1. UNCHANGED <<behind, accepted, settled, gauge, call, record, got>>
    BY <1>13, TryShrinkStep, UndoLimitStep
    DEF TryShrink, UndoLimit
  <2> QED
    BY <1>0, <2>1 DEF Unpublished
<1>14. ASSUME NEW t \in Movers,
             \/ Shrunk(t) \/ GrowLimit(t)
      PROVE  GaugeInv'
  <2>1. behind'
    BY <1>14 DEF Shrunk, GrowLimit
  <2> QED
    BY <2>1 DEF GaugeInv
<1>15. ASSUME NEW t \in Tasks, Cancel(t)
      PROVE  GaugeInv'
  <2>1. CASE call[t] = "log"
    BY <1>15, <2>1 DEF GaugeInv, Cancel
  <2>2. CASE call[t] # "log"
    <3>1. /\ UNCHANGED <<behind, accepted, settled, gauge>>
          /\ \A u \in Tasks \ {t} : /\ call'[u] = call[u] /\ record'[u] = record[u]
                                    /\ got'[u] = got[u]
      BY <1>15, <2>2 DEF AgentTypeOK, Cancel
    <3>2. t \notin Unpublished /\ t \notin Unpublished'
      BY <1>15, <2>2 DEF AgentTypeOK, Unpublished, Cancel
    <3>3. Unpublished' = Unpublished /\ \A u \in Unpublished : u \in Tasks \ {t}
      BY <3>1, <3>2 DEF Unpublished
    <3> QED
      BY <1>0, <3>1, <3>3
  <2> QED
    BY <2>1, <2>2
<1>16. CASE UNCHANGED agentVars
  BY <1>16, <1>0 DEF agentVars, Unpublished
<1> QED
  BY <1>1, <1>2, <1>3, <1>4, <1>5, <1>6, <1>7, <1>8, <1>9, <1>10, <1>11, <1>12, <1>13,
     <1>14, <1>15, <1>16
  DEF AgentNext, ChargeCall, KillCall, MoveCall

\* What the firm charges have read is not too small.
LEMMA ReadNext ==
    ASSUME AgentTypeOK, IInv, Shape, ReadInv, [AgentNext]_agentVars
    PROVE  ReadInv'
<1> USE ConstantFacts
    DEF Step, Done, Count, Unjudged, atomics, vars, switch, metrics, locals, books, doubts, judging
<1>0. ASSUME spent <= spent', limit' <= limit, spent' \in Nat, limit' \in Nat, firm' \subseteq firm,
             \A u \in firm' : /\ got'[u] = got[u]
                              /\ call'[u] = call[u] \/ (call'[u] \in Holding /\ call[u] \in Holding)
      PROVE  ReadInv'
  <2>1. spent \in Nat /\ limit \in Nat /\ \A u \in firm : got[u] \in Nat
    BY LedgerFacts DEF AgentTypeOK
  <2>2. SaturatingSub(limit', spent') <= SaturatingSub(limit, spent)
    BY <1>0, <2>1 DEF SaturatingSub
  <2>3. RoomLeft' \in Nat /\ RoomLeft \in Nat /\ RoomLeft' <= RoomLeft
    BY <1>0, <2>1, <2>2, SubNat DEF RoomLeft
  <2> QED
    BY <1>0, <2>1, <2>3 DEF ReadInv, Holding
<1>a. spent \in Nat /\ limit \in Nat /\ spent <= spent /\ limit <= limit
  BY LedgerFacts
<1>b. ASSUME UNCHANGED <<spent, limit>>, firm' \subseteq firm,
             \A u \in firm' : /\ got'[u] = got[u]
                              /\ call'[u] = call[u] \/ (call'[u] \in Holding /\ call[u] \in Holding)
      PROVE  ReadInv'
  <2> HIDE
      DEF Step, Done, Count, Unjudged, atomics, vars, switch, metrics, locals, books, doubts,
          judging
  <2>1. spent <= spent' /\ limit' <= limit /\ spent' \in Nat /\ limit' \in Nat
    BY <1>a, <1>b
  <2> QED
    BY <1>b, <1>0, <2>1
<1>1. ASSUME NEW t \in Callers,
             \/ ReadTier(t) \/ RefuseKilled(t) \/ RefuseExhausted(t)
      PROVE  ReadInv'
  <2>1. /\ UNCHANGED <<spent, limit>> /\ firm' \subseteq firm /\ t \notin firm'
        /\ \A u \in Tasks \ {t} : got'[u] = got[u] /\ call'[u] = call[u]
    <3>1. UNCHANGED <<spent, limit, firm>>
      BY <1>1 DEF ReadTier, RefuseKilled, RefuseExhausted
    <3>2. t \notin firm
      BY <1>1 DEF Shape, Holding, ReadTier, RefuseKilled, RefuseExhausted
    <3>3. \A u \in Tasks \ {t} : got'[u] = got[u] /\ call'[u] = call[u]
      BY <1>1 DEF AgentTypeOK, ReadTier, RefuseKilled, RefuseExhausted
    <3> QED
      BY <3>1, <3>2, <3>3
  <2>2. \A u \in firm' : u \in Tasks \ {t}
    BY <2>1 DEF AgentTypeOK
  <2> QED
    BY <1>b, <2>1, <2>2
<1>2. ASSUME NEW t \in Callers,
             \/ PassKillCheck(t) \/ StoreReason(t) \/ StoreKilled(t)
             \/ PushRecord(t)
      PROVE  ReadInv'
  <2>1. /\ UNCHANGED <<spent, limit>> /\ firm' \subseteq firm /\ t \notin firm'
        /\ \A u \in Tasks \ {t} : got'[u] = got[u] /\ call'[u] = call[u]
    <3>1. UNCHANGED <<spent, limit, firm, got>>
      BY <1>2 DEF PassKillCheck, StoreReason, StoreKilled, PushRecord, StartCharge
    <3>2. t \notin firm
      BY <1>2 DEF Shape, Holding, PassKillCheck, StoreReason, StoreKilled, PushRecord
    <3>3. \A u \in Tasks \ {t} : call'[u] = call[u]
      BY <1>2 DEF AgentTypeOK, PassKillCheck, StoreReason, StoreKilled, PushRecord
    <3> QED
      BY <3>1, <3>2, <3>3
  <2>2. \A u \in firm' : u \in Tasks \ {t}
    BY <2>1 DEF AgentTypeOK
  <2> QED
    BY <1>b, <2>1, <2>2
<1>3. ASSUME NEW t \in Callers,
             \/ TryCharge(t) \/ WriteTotal(t) \/ Accept(t)
      PROVE  ReadInv'
  <2>1. /\ spent <= spent' /\ limit' <= limit /\ spent' \in Nat /\ limit' \in Nat
    BY <1>3, TryChargeStep, WriteTotalStep, AcceptStep, LedgerFacts
  <2>2. firm' = firm /\ got' = got /\ \A u \in firm : call'[u] = call[u]
    BY <1>3 DEF AgentTypeOK, Shape, Holding, TryCharge, WriteTotal, Accept
  <2> QED
    BY <1>0, <2>1, <2>2
<1>4. ASSUME NEW t \in Callers, UndoTotal(t)
      PROVE  ReadInv'
  <2>1. firm' = {}
    BY <1>4 DEF UndoTotal
  <2> QED
    BY <2>1 DEF ReadInv
<1>5. ASSUME NEW t \in Callers, ReadSpent(t)
      PROVE  ReadInv'
  <2>1. /\ call'[t] = "readLimit" /\ got'[t] = spent /\ UNCHANGED <<spent, limit>>
        /\ firm' = firm \cup {t}
        /\ \A u \in Tasks \ {t} : got'[u] = got[u] /\ call'[u] = call[u]
    BY <1>5 DEF AgentTypeOK, ReadSpent
  <2>2. \A u \in firm \ {t} : u \in Tasks \ {t}
    BY DEF AgentTypeOK
  <2> QED
    BY <2>1, <2>2, LedgerFacts DEF ReadInv, RoomLeft, Holding
<1>6. ASSUME NEW t \in Callers, ReadLimit(t)
      PROVE  ReadInv'
  <2>1. /\ call[t] = "readLimit" /\ call'[t] = "count" /\ got'[t] = SaturatingSub(limit, got[t])
        /\ UNCHANGED <<spent, limit, firm>>
        /\ \A u \in Tasks \ {t} : got'[u] = got[u] /\ call'[u] = call[u]
    BY <1>6 DEF AgentTypeOK, ReadLimit
  <2>2. \A u \in firm \ {t} : u \in Tasks \ {t}
    BY DEF AgentTypeOK
  <2>3. RoomLeft' = RoomLeft
    BY <2>1 DEF RoomLeft
  <2>4. t \in firm => RoomLeft <= SaturatingSub(limit, got[t])
    <3>1. t \in firm => got[t] <= spent
      BY <2>1 DEF ReadInv
    <3> QED
      BY <3>1, LedgerFacts, SubAntitone DEF AgentTypeOK, RoomLeft
  <2> QED
    BY <2>1, <2>2, <2>3, <2>4 DEF ReadInv, Holding
<1>7. ASSUME NEW t \in Callers,
             \/ CountAccepted(t) \/ SetSpent(t) \/ SetRemaining(t)
      PROVE  ReadInv'
  <2>1. UNCHANGED <<spent, limit, firm, got>>
    BY <1>7 DEF CountAccepted, SetSpent, SetRemaining
  <2>2. \A u \in firm : call'[u] = call[u] \/ (call'[u] \in Holding /\ call[u] \in Holding)
    BY <1>7 DEF AgentTypeOK, Holding, CountAccepted, SetSpent, SetRemaining
  <2> QED
    BY <1>b, <2>1, <2>2
<1>8. ASSUME NEW t \in Callers, JudgePressure(t)
      PROVE  ReadInv'
  <2>1. /\ UNCHANGED <<spent, limit>> /\ firm' \subseteq firm /\ t \notin firm'
        /\ \A u \in Tasks \ {t} : got'[u] = got[u] /\ call'[u] = call[u]
    BY <1>8
    DEF AgentTypeOK, Shape, Holding, JudgePressure
  <2>2. \A u \in firm' : u \in Tasks \ {t}
    BY <2>1 DEF AgentTypeOK
  <2> QED
    BY <1>b, <2>1, <2>2
<1>9. ASSUME NEW t \in Movers,
             \/ BeginShrink(t) \/ ShrinkRefused(t) \/ TellCascade(t)
      PROVE  ReadInv'
  <2>1. /\ UNCHANGED <<spent, limit>> /\ firm' \subseteq firm /\ t \notin firm'
        /\ \A u \in Tasks \ {t} : got'[u] = got[u] /\ call'[u] = call[u]
    BY <1>9
    DEF AgentTypeOK, Shape, Holding, BeginShrink, ShrinkRefused, TellCascade,
        StartShrink
  <2>2. \A u \in firm' : u \in Tasks \ {t}
    BY <2>1 DEF AgentTypeOK
  <2> QED
    BY <1>b, <2>1, <2>2
<1>10. ASSUME NEW t \in Movers,
             \/ TryShrink(t) \/ Shrunk(t)
      PROVE  ReadInv'
  <2>1. /\ spent <= spent' /\ limit' <= limit /\ spent' \in Nat /\ limit' \in Nat
    BY <1>10, TryShrinkStep, ShrunkStep, LedgerFacts
  <2>2. firm' = firm /\ \A u \in firm : got'[u] = got[u] /\ call'[u] = call[u]
    BY <1>10 DEF AgentTypeOK, TryShrink, Shrunk
  <2> QED
    BY <1>0, <2>1, <2>2
<1>11. ASSUME NEW t \in Movers,
             \/ UndoLimit(t) \/ GrowLimit(t)
      PROVE  ReadInv'
  <2>1. firm' = {}
    BY <1>11 DEF UndoLimit, GrowLimit
  <2> QED
    BY <2>1 DEF ReadInv
<1>12. ASSUME NEW t \in Tasks, Cancel(t)
      PROVE  ReadInv'
  <2>1. /\ UNCHANGED <<spent, limit>> /\ firm' \subseteq firm /\ t \notin firm'
        /\ \A u \in Tasks \ {t} : got'[u] = got[u] /\ call'[u] = call[u]
    BY <1>12
    DEF AgentTypeOK, Shape, Holding, Cancel
  <2>2. \A u \in firm' : u \in Tasks \ {t}
    BY <2>1 DEF AgentTypeOK
  <2> QED
    BY <1>b, <2>1, <2>2
<1>13. CASE UNCHANGED agentVars
  BY <1>13, <1>b DEF agentVars
<1> QED
  BY <1>1, <1>2, <1>3, <1>4, <1>5, <1>6, <1>7, <1>8, <1>9, <1>10, <1>11, <1>12, <1>13
  DEF AgentNext, ChargeCall, KillCall, MoveCall
\* Pressure that has been judged is noticed, or a fresh charge will notice it.
LEMMA NoticeNext ==
    ASSUME AgentTypeOK, IInv, Shape, NoticeInv, [AgentNext]_agentVars
    PROVE  NoticeInv'
<1> USE ConstantFacts
    DEF Step, Done, Count, Unjudged, atomics, vars, switch, metrics, locals, books, doubts, judging
<1>0. ASSUME UNCHANGED <<accepted, settled, cascade>>, Judging' => Judging,
             \A u \in Callers : Fresh(u) => Fresh(u)'
      PROVE  NoticeInv'
  BY <1>0 DEF NoticeInv, Noticed
<1>a. ASSUME NEW t \in Tasks, UNCHANGED <<accepted, settled>>, ~Fresh(t),
             \A u \in Tasks \ {t} : /\ call'[u] = call[u] /\ got'[u] = got[u]
                                    /\ u \in timely => u \in timely'
      PROVE  \A u \in Callers : Fresh(u) => Fresh(u)'
  BY <1>a DEF Fresh
<1>b. ASSUME NEW t \in Tasks, Fresh(t)', t \in Callers
      PROVE  NoticeInv'
  BY <1>b DEF NoticeInv
<1>c. ASSUME judged' = FALSE, timely' = {}
      PROVE  NoticeInv'
  BY <1>c DEF NoticeInv, Judging
<1>1. ASSUME NEW t \in Callers,
             \/ ReadTier(t) \/ RefuseKilled(t) \/ RefuseExhausted(t)
      PROVE  NoticeInv'
  <2>1. /\ UNCHANGED <<accepted, settled, cascade, timely, judged>>
        /\ \A u \in Tasks \ {t} : call'[u] = call[u] /\ got'[u] = got[u]
    BY <1>1
    DEF AgentTypeOK, ReadTier, RefuseKilled, RefuseExhausted
  <2>2. ~Fresh(t)
    BY <1>1 DEF Shape, Fresh, Holding, ReadTier, RefuseKilled, RefuseExhausted
  <2> QED
    BY <1>0, <1>a, <2>1, <2>2 DEF Judging
<1>2. ASSUME NEW t \in Callers,
             \/ PassKillCheck(t) \/ StoreReason(t) \/ StoreKilled(t)
      PROVE  NoticeInv'
  <2>1. /\ UNCHANGED <<accepted, settled, cascade, timely, judged>>
        /\ \A u \in Tasks \ {t} : call'[u] = call[u] /\ got'[u] = got[u]
    BY <1>2
    DEF AgentTypeOK, PassKillCheck, StoreReason, StoreKilled, StartCharge
  <2>2. ~Fresh(t)
    BY <1>2 DEF Shape, Fresh, Holding, PassKillCheck, StoreReason, StoreKilled
  <2> QED
    BY <1>0, <1>a, <2>1, <2>2 DEF Judging
<1>3. ASSUME NEW t \in Callers,
             \/ TryCharge(t) \/ WriteTotal(t) \/ UndoTotal(t)
      PROVE  NoticeInv'
  <2>1. UNCHANGED <<accepted, settled, cascade, timely, judged, call, got>>
    BY <1>3, TryChargeStep, WriteTotalStep, UndoTotalStep
    DEF TryCharge, WriteTotal, UndoTotal
  <2> QED
    BY <1>0, <2>1 DEF Fresh, Judging
<1>4. ASSUME NEW t \in Callers, Accept(t)
      PROVE  NoticeInv'
  <2>1. call'[t] = "log"
    BY <1>4 DEF AgentTypeOK, Accept
  <2> QED
    BY <1>b, <2>1 DEF Fresh
<1>5. ASSUME NEW t \in Callers, PushRecord(t)
      PROVE  NoticeInv'
  <2>1. call'[t] = "readSpent"
    BY <1>5 DEF AgentTypeOK, PushRecord
  <2> QED
    BY <1>b, <2>1 DEF Fresh
<1>6. ASSUME NEW t \in Callers, ReadSpent(t)
      PROVE  NoticeInv'
  <2>1. call'[t] = "readLimit" /\ got'[t] = spent /\ t \in timely' /\ accepted' = accepted
    BY <1>6 DEF AgentTypeOK, ReadSpent
  <2>2. Fresh(t)'
    BY <2>1, LedgerFacts DEF Fresh
  <2> QED
    BY <1>b, <2>2
<1>7. ASSUME NEW t \in Callers, ReadLimit(t)
      PROVE  NoticeInv'
  <2>1. /\ UNCHANGED <<accepted, settled, cascade, timely, judged>>
        /\ call[t] = "readLimit" /\ call'[t] = "count" /\ got'[t] = SaturatingSub(limit, got[t])
        /\ got[t] \in Nat
        /\ \A u \in Tasks \ {t} : call'[u] = call[u] /\ got'[u] = got[u]
    BY <1>7 DEF AgentTypeOK, ReadLimit
  <2>2. Fresh(t) => Fresh(t)'
    <3>1. SUFFICES ASSUME t \in timely, accepted <= got[t]
                   PROVE  SaturatingSub(limit, got[t]) <= settled - accepted
      BY <2>1 DEF Fresh, Holding
    <3> QED
      BY <2>1, <3>1, LedgerFacts DEF SaturatingSub
  <2>3. \A u \in Callers \ {t} : Fresh(u) => Fresh(u)'
    BY <2>1 DEF Fresh
  <2> QED
    BY <1>0, <2>1, <2>2, <2>3 DEF Judging
<1>8. ASSUME NEW t \in Callers,
             \/ CountAccepted(t) \/ SetSpent(t) \/ SetRemaining(t)
      PROVE  NoticeInv'
  <2>1. /\ UNCHANGED <<accepted, settled, cascade, timely, judged, got>>
        /\ call[t] \in Holding /\ call'[t] \in Holding
        /\ \A u \in Tasks \ {t} : call'[u] = call[u]
    BY <1>8 DEF AgentTypeOK, Holding, CountAccepted, SetSpent, SetRemaining
  <2>2. Fresh(t) => Fresh(t)'
    BY <2>1 DEF Fresh, Holding
  <2>3. \A u \in Callers \ {t} : Fresh(u) => Fresh(u)'
    BY <2>1 DEF Fresh
  <2> QED
    BY <1>0, <2>1, <2>2, <2>3 DEF Judging
<1>9. ASSUME NEW t \in Callers, JudgePressure(t)
      PROVE  NoticeInv'
  <2>1. /\ UNCHANGED <<accepted, settled>> /\ call[t] = "evaluate" /\ got[t] \in Nat
        /\ cascade \in Cascades /\ cascade' = Evaluate(cascade, got[t])
        /\ \A u \in Tasks \ {t} : /\ call'[u] = call[u] /\ got'[u] = got[u]
                                  /\ u \in timely => u \in timely'
    BY <1>9 DEF AgentTypeOK, JudgePressure
  <2>2. Judging' => Judging
    BY <1>9 DEF Judging, JudgePressure
  <2>3. /\ cascade'.total = cascade.total /\ cascade'.threshold = cascade.threshold
        /\ cascade'.current <= cascade.current /\ cascade.current \in Nat
        /\ cascade'.current \in Nat /\ InitialTier \in Nat /\ Local \in Nat
        /\ UnderPressure(cascade, got[t])
             => cascade'.current < cascade.current \/ cascade.current = Local
    BY <2>1, EvaluateStep
  <2>4. cascade.current <= InitialTier /\ Local <= InitialTier
    BY DEF Shape
  <2>0. UnderPressure(cascade', settled' - accepted') => UnderPressure(cascade, settled - accepted)
    BY <2>1, <2>3 DEF UnderPressure
  <2>5. SUFFICES ASSUME Judging', UnderPressure(cascade, settled - accepted)
                 PROVE  Noticed' \/ \E u \in Callers : Fresh(u)'
    BY <2>0 DEF NoticeInv
  <2>6. Noticed => Noticed'
    BY <2>3 DEF Noticed
  <2>7. \A u \in Callers \ {t} : Fresh(u) => Fresh(u)'
    BY <2>1 DEF Fresh
  <2>8. Fresh(t) => Noticed'
    <3>1. SUFFICES ASSUME got[t] <= settled - accepted
                   PROVE  Noticed'
      BY <2>1 DEF Fresh, Holding
    <3>2. UnderPressure(cascade, got[t])
      BY <2>1, <2>5, <3>1, LedgerFacts, PressureMonotone
    <3> QED
      BY <2>3, <2>4, <3>2 DEF Noticed
  <2> QED
    BY <2>2, <2>5, <2>6, <2>7, <2>8 DEF NoticeInv
<1>10. ASSUME NEW t \in Movers,
             \/ BeginShrink(t) \/ ShrinkRefused(t)
      PROVE  NoticeInv'
  <2>1. /\ UNCHANGED <<accepted, settled, cascade, timely, judged>>
        /\ \A u \in Tasks \ {t} : call'[u] = call[u] /\ got'[u] = got[u]
    BY <1>10
    DEF AgentTypeOK, BeginShrink, ShrinkRefused, StartShrink
  <2>2. ~Fresh(t)
    BY <1>10 DEF Shape, Fresh, Holding, BeginShrink, ShrinkRefused
  <2> QED
    BY <1>0, <1>a, <2>1, <2>2 DEF Judging
<1>11. ASSUME NEW t \in Movers,
             \/ TryShrink(t) \/ UndoLimit(t)
      PROVE  NoticeInv'
  <2>1. UNCHANGED <<accepted, settled, cascade, timely, judged, call, got>>
    BY <1>11, TryShrinkStep, UndoLimitStep
    DEF TryShrink, UndoLimit
  <2> QED
    BY <1>0, <2>1 DEF Fresh, Judging
<1>12. ASSUME NEW t \in Movers,
             \/ Shrunk(t) \/ GrowLimit(t) \/ TellCascade(t)
      PROVE  NoticeInv'
  BY <1>12, <1>c DEF Shrunk, GrowLimit, TellCascade
<1>13. ASSUME NEW t \in Tasks, Cancel(t)
      PROVE  NoticeInv'
  BY <1>13, <1>c DEF Cancel
<1>14. CASE UNCHANGED agentVars
  <2>1. UNCHANGED <<accepted, settled, cascade, timely, judged, call, got>>
    BY <1>14 DEF agentVars
  <2> QED
    BY <1>0, <2>1 DEF Fresh, Judging
<1> QED
  BY <1>1, <1>2, <1>3, <1>4, <1>5, <1>6, <1>7, <1>8, <1>9, <1>10, <1>11, <1>12, <1>13,
     <1>14
  DEF AgentNext, ChargeCall, KillCall, MoveCall
-------------------------------------------------------------------------------
\* The charges under way and uncounted, and how many they are after a step of t.
Before == {"killCheck", "charge", "log", "readSpent", "readLimit", "count"}
Uncounted == {t \in Callers : call[t] \in Before}

LEMMA StageStep ==
    ASSUME NEW t, \A u \in Callers \ {t} : call'[u] = call[u]
    PROVE  /\ Cardinality(Uncounted) \in Nat
           /\ Cardinality(Uncounted)' = Cardinality(Uncounted)
                - (IF t \in Callers /\ call[t] \in Before THEN 1 ELSE 0)
                + (IF t \in Callers /\ call'[t] \in Before THEN 1 ELSE 0)
<1> DEFINE A == Uncounted  B == Uncounted'
<1>1. IsFiniteSet(A) /\ IsFiniteSet(B)
  BY ConstantFacts, FS_Subset DEF Uncounted
<1>2. A \ {t} = B \ {t}
  BY DEF Uncounted
<1>3. Cardinality(Uncounted)' = Cardinality(B)
  OBVIOUS
<1>4. /\ t \in A <=> t \in Callers /\ call[t] \in Before
      /\ t \in B <=> t \in Callers /\ call'[t] \in Before
  BY DEF Uncounted
<1> HIDE DEF A, B
<1>5. Cardinality(A) \in Nat
  BY <1>1, FS_CardinalityType
<1>6. Cardinality(B) = Cardinality(A) - (IF t \in A THEN 1 ELSE 0) + (IF t \in B THEN 1 ELSE 0)
  BY <1>1, <1>2, SizeStep
<1> QED
  BY <1>3, <1>4, <1>5, <1>6 DEF A, B

\* Every attempt stays counted or under way.
LEMMA AttemptsNext ==
    ASSUME AgentTypeOK, IInv, Shape, AttemptsCounted, [AgentNext]_agentVars
    PROVE  AttemptsCounted'
<1> DEFINE Waiting == Cardinality(Uncounted)
           A == counted["accepted"]
           R == counted["refused"]
           K == counted["killed"]
           D == dropped.charges
           Balance == A + R + K + D + Waiting = attempts
           Same == A' = A /\ R' = R /\ K' = K /\ D' = D /\ attempts' = attempts
           Still(t) == \A u \in Callers \ {t} : call'[u] = call[u]
<1> USE ConstantFacts
    DEF Step, Done, Count, Unjudged, atomics, vars, switch, metrics, locals, books, doubts, judging
<1>1. Balance /\ (Balance' <=> AttemptsCounted')
  BY DEF AttemptsCounted, Uncounted, Before
<1>2. A \in Nat /\ R \in Nat /\ K \in Nat /\ D \in Nat /\ attempts \in Nat
  BY DEF AgentTypeOK, Outcomes
<1>3. ASSUME NEW t \in Tasks, Still(t)
      PROVE  /\ Waiting \in Nat
             /\ Waiting' = Waiting - (IF t \in Callers /\ call[t] \in Before THEN 1 ELSE 0)
                                   + (IF t \in Callers /\ call'[t] \in Before THEN 1 ELSE 0)
  BY <1>3, StageStep
<1> HIDE DEF Waiting, A, R, K, D
<1>4. ASSUME Same, Waiting' = Waiting
      PROVE  Balance'
  BY <1>1, <1>4
<1>5. ASSUME NEW t \in Callers, ReadTier(t)
      PROVE  Balance'
  <2>1. /\ Still(t) /\ call'[t] = "killCheck" /\ call[t] = "idle"
        /\ A' = A /\ R' = R /\ K' = K /\ D' = D /\ attempts' = attempts + 1
    BY <1>5 DEF AgentTypeOK, ReadTier, A, R, K, D
  <2>2. Waiting' = Waiting + 1 /\ Waiting \in Nat
    BY <1>3, <2>1 DEF Before
  <2> QED
    BY <1>1, <1>2, <2>1, <2>2
<1>6. ASSUME NEW t \in Callers, RefuseKilled(t)
      PROVE  Balance'
  <2>1. /\ Still(t) /\ call'[t] = "idle" /\ call[t] = "killCheck"
        /\ A' = A /\ R' = R /\ K' = K + 1 /\ D' = D /\ attempts' = attempts
    BY <1>6 DEF AgentTypeOK, Outcomes, RefuseKilled, A, R, K, D
  <2>2. Waiting' = Waiting - 1 /\ Waiting \in Nat
    BY <1>3, <2>1 DEF Before
  <2> QED
    BY <1>1, <1>2, <2>1, <2>2
<1>7. ASSUME NEW t \in Callers, RefuseExhausted(t)
      PROVE  Balance'
  <2>1. /\ Still(t) /\ call'[t] = "idle" /\ call[t] = "charge"
        /\ A' = A /\ R' = R + 1 /\ K' = K /\ D' = D /\ attempts' = attempts
    BY <1>7 DEF AgentTypeOK, Outcomes, RefuseExhausted, A, R, K, D
  <2>2. Waiting' = Waiting - 1 /\ Waiting \in Nat
    BY <1>3, <2>1 DEF Before
  <2> QED
    BY <1>1, <1>2, <2>1, <2>2
<1>8. ASSUME NEW t \in Callers, CountAccepted(t)
      PROVE  Balance'
  <2>1. /\ Still(t) /\ call'[t] = "gaugeSpent" /\ call[t] = "count"
        /\ A' = A + 1 /\ R' = R /\ K' = K /\ D' = D /\ attempts' = attempts
    BY <1>8 DEF AgentTypeOK, Outcomes, CountAccepted, A, R, K, D
  <2>2. Waiting' = Waiting - 1 /\ Waiting \in Nat
    BY <1>3, <2>1 DEF Before
  <2> QED
    BY <1>1, <1>2, <2>1, <2>2
<1>9. ASSUME NEW t \in Callers,
             \/ PassKillCheck(t) \/ TryCharge(t) \/ WriteTotal(t) \/ UndoTotal(t) \/ Accept(t)
             \/ PushRecord(t) \/ ReadSpent(t) \/ ReadLimit(t) \/ SetSpent(t) \/ SetRemaining(t)
             \/ JudgePressure(t) \/ StoreReason(t) \/ StoreKilled(t)
      PROVE  Balance'
  <2>1. Same
    BY <1>9
    DEF PassKillCheck, TryCharge, WriteTotal, UndoTotal, Accept, PushRecord, ReadSpent, ReadLimit,
        SetSpent, SetRemaining, JudgePressure, StoreReason, StoreKilled, A, R, K, D
  <2>2. Still(t) /\ (call[t] \in Before <=> call'[t] \in Before)
    <3>1. CASE \/ PassKillCheck(t) \/ TryCharge(t) \/ WriteTotal(t) \/ UndoTotal(t) \/ Accept(t)
               \/ PushRecord(t)
      BY <3>1
      DEF AgentTypeOK, Before, PassKillCheck, TryCharge, WriteTotal, UndoTotal, Accept, PushRecord
    <3>2. CASE \/ ReadSpent(t) \/ ReadLimit(t) \/ SetSpent(t) \/ SetRemaining(t)
               \/ JudgePressure(t) \/ StoreReason(t) \/ StoreKilled(t)
      BY <3>2
      DEF AgentTypeOK, Before, ReadSpent, ReadLimit, SetSpent, SetRemaining, JudgePressure,
          StoreReason, StoreKilled
    <3> QED
      BY <1>9, <3>1, <3>2
  <2>3. Waiting' = Waiting
    BY <1>3, <2>2
  <2> QED
    BY <1>4, <2>1, <2>3
<1>10. ASSUME NEW t \in Movers, MoveCall(t)
       PROVE  Balance'
  <2>1. Same
    BY <1>10
    DEF MoveCall, BeginShrink, TryShrink, UndoLimit, Shrunk, ShrinkRefused, GrowLimit,
        TellCascade, A, R, K, D
  <2>2. Still(t) /\ t \notin Callers
    BY <1>10
    DEF AgentTypeOK, MoveCall, BeginShrink, TryShrink, UndoLimit, Shrunk, ShrinkRefused, GrowLimit,
        TellCascade
  <2>3. Waiting' = Waiting
    BY <1>3, <2>2
  <2> QED
    BY <1>4, <2>1, <2>3
<1>11. ASSUME NEW t \in Tasks, Cancel(t)
       PROVE  Balance'
  <2>1. /\ Still(t) /\ call'[t] = "idle" /\ call[t] \in {"log", "evaluate", "setTotal"}
        /\ A' = A /\ R' = R /\ K' = K /\ attempts' = attempts
        /\ D' = IF call[t] = "log" THEN D + 1 ELSE D
    BY <1>11 DEF AgentTypeOK, Cancel, A, R, K, D
  <2>2. CASE call[t] = "log"
    <3>1. t \in Callers
      BY <2>2 DEF Shape
    <3>2. Waiting' = Waiting - 1 /\ Waiting \in Nat
      BY <1>3, <2>1, <2>2, <3>1 DEF Before
    <3> QED
      BY <1>1, <1>2, <2>1, <2>2, <3>2
  <2>3. CASE call[t] # "log"
    <3>1. Waiting' = Waiting
      BY <1>3, <2>1, <2>3 DEF Before
    <3> QED
      BY <1>4, <2>1, <2>3, <3>1
  <2> QED
    BY <2>2, <2>3
<1>12. CASE UNCHANGED agentVars
  <2>1. Same
    BY <1>12 DEF agentVars, A, R, K, D
  <2>2. Waiting' = Waiting
    BY <1>12 DEF agentVars, Waiting, Uncounted
  <2> QED
    BY <1>1, <1>4, <2>1, <2>2
<1> QED
  BY <1>1, <1>5, <1>6, <1>7, <1>8, <1>9, <1>10, <1>11, <1>12
  DEF AgentNext, ChargeCall, KillCall

-------------------------------------------------------------------------------
\* The log sums up: a push adds the record's cost.
LEMMA RecordedType ==
    ASSUME AgentTypeOK
    PROVE  Recorded \in Nat
<1> DEFINE f == [i \in DOMAIN log |-> log[i].cost]
           S == DOMAIN log
<1>1. DOMAIN log = 1..Len(log) /\ Len(log) \in Nat /\ \A i \in DOMAIN log : log[i] \in Records
  BY DEF AgentTypeOK
<1>2. IsFiniteSet(S) /\ \A i \in S : f[i] \in Nat
  BY <1>1, FS_Interval DEF Records
<1> HIDE DEF f, S
<1>3. SumOf(f, S) \in Nat
  BY <1>2, SumNat
<1> QED
  BY <1>3 DEF Recorded, f, S

LEMMA PushSum ==
    ASSUME AgentTypeOK, NEW r \in Records, log' = Append(log, r)
    PROVE  Recorded' = Recorded + r.cost
<1> DEFINE f == [i \in DOMAIN log |-> log[i].cost]
           g == [i \in DOMAIN log' |-> log'[i].cost]
           S == DOMAIN log
           T == DOMAIN log'
           n == Len(log) + 1
<1>1. DOMAIN log = 1..Len(log) /\ Len(log) \in Nat /\ \A i \in DOMAIN log : log[i] \in Records
  BY DEF AgentTypeOK
<1>2. DOMAIN log' = 1..n /\ log'[n] = r /\ \A i \in DOMAIN log : log'[i] = log[i]
  BY <1>1 DEF AgentTypeOK
<1>3. IsFiniteSet(S) /\ IsFiniteSet(T)
  BY <1>1, <1>2, FS_Interval
<1>4. S \ {n} = T \ {n} /\ n \notin S /\ n \in T
  BY <1>1, <1>2
<1>5. \A i \in S : f[i] \in Nat
  BY <1>1 DEF Records
<1>6. \A i \in S \ {n} : f[i] = g[i]
  BY <1>2, <1>4
<1>7. g[n] = r.cost /\ r.cost \in Nat
  BY <1>2, <1>4 DEF Records
<1>8. \A i \in T : g[i] \in Nat
  BY <1>4, <1>5, <1>6, <1>7
<1>9. Recorded = SumOf(f, S) /\ Recorded' = SumOf(g, T)
  BY DEF Recorded
<1> HIDE DEF f, g, S, T, n
<1>10. SumOf(f, S) \in Nat
  BY <1>3, <1>5, SumNat
<1>11. SumOf(g, T) = SumOf(f, S) - (IF n \in S THEN f[n] ELSE 0) + (IF n \in T THEN g[n] ELSE 0)
  BY <1>3, <1>4, <1>5, <1>6, <1>8, SumStep
<1> QED
  BY <1>4, <1>7, <1>9, <1>10, <1>11

\* What a step of task t does to the cost that waits for the log.
LEMMA UnrecordedStep ==
    ASSUME AgentTypeOK, AgentTypeOK', NEW t,
           \A u \in Callers \ {t} : call'[u] = call[u] /\ record'[u] = record[u]
    PROVE  /\ Unrecorded \in Nat
           /\ Unrecorded' = Unrecorded
                - (IF t \in Callers /\ call[t] = "log" THEN record[t].cost ELSE 0)
                + (IF t \in Callers /\ call'[t] = "log" THEN record'[t].cost ELSE 0)
<1> DEFINE f == [u \in Callers |-> record[u].cost]
           g == [u \in Callers |-> record'[u].cost]
           S == {u \in Callers : call[u] = "log"}
           T == {u \in Callers : call'[u] = "log"}
<1>1. IsFiniteSet(S) /\ IsFiniteSet(T) /\ S \ {t} = T \ {t}
  BY ConstantFacts, FS_Subset
<1>2. \A u \in Callers : record[u] \in Records /\ record'[u] \in Records
  BY DEF AgentTypeOK, Tasks
<1>3. \A u \in Callers : f[u] \in Nat /\ g[u] \in Nat /\ f[u] = record[u].cost /\ g[u] = record'[u].cost
  BY <1>2 DEF Records
<1>4. /\ \A u \in S : f[u] \in Nat
      /\ \A u \in T : g[u] \in Nat
      /\ \A u \in S \ {t} : f[u] = g[u]
  BY <1>3
<1>5. /\ t \in S <=> t \in Callers /\ call[t] = "log"
      /\ t \in T <=> t \in Callers /\ call'[t] = "log"
  OBVIOUS
<1>6. Unrecorded = SumOf(f, S) /\ Unrecorded' = SumOf(g, T)
  BY DEF Unrecorded
<1> HIDE DEF f, g, S, T
<1>7. SumOf(f, S) \in Nat
  BY <1>1, <1>4, SumNat
<1>8. SumOf(g, T) = SumOf(f, S) - (IF t \in S THEN f[t] ELSE 0) + (IF t \in T THEN g[t] ELSE 0)
  BY <1>1, <1>4, SumStep
<1> QED
  BY <1>3, <1>5, <1>6, <1>7, <1>8

\* The log, the charges that wait for it and those dropped make up what was accepted.
LEMMA BooksNext ==
    ASSUME AgentTypeOK, AgentTypeOK', IInv, Shape, Books, [AgentNext]_agentVars
    PROVE  Books'
<1> DEFINE Still(t) == \A u \in Callers \ {t} : call'[u] = call[u] /\ record'[u] = record[u]
           Same == accepted' = accepted /\ log' = log /\ dropped' = dropped
<1> USE ConstantFacts
    DEF Step, Done, Count, Unjudged, atomics, vars, switch, metrics, locals, books, doubts, judging
<1>1. accepted \in Nat /\ Recorded \in Nat /\ dropped.cost \in Nat
  BY RecordedType, LedgerFacts DEF AgentTypeOK
<1>2. ASSUME NEW t \in Tasks, Still(t)
      PROVE  /\ Unrecorded \in Nat
             /\ Unrecorded' = Unrecorded
                  - (IF t \in Callers /\ call[t] = "log" THEN record[t].cost ELSE 0)
                  + (IF t \in Callers /\ call'[t] = "log" THEN record'[t].cost ELSE 0)
  BY <1>2, UnrecordedStep
<1>3. log' = log => Recorded' = Recorded
  BY DEF Recorded
<1>4. ASSUME Same, Unrecorded' = Unrecorded
      PROVE  Books'
  BY <1>3, <1>4 DEF Books
<1>5. ASSUME NEW t \in Callers, Accept(t)
      PROVE  Books'
  <2>1. /\ Still(t) /\ call[t] = "charge" /\ call'[t] = "log"
        /\ record'[t].cost = record[t].cost
        /\ log' = log /\ dropped' = dropped
    BY <1>5 DEF AgentTypeOK, Records, Accept
  <2>2. accepted' = accepted + record[t].cost /\ record[t].cost \in Nat
    <3>1. arg[t] = record[t].cost
      BY <2>1 DEF Shape
    <3>2. record[t] \in Records
      BY DEF AgentTypeOK
    <3> QED
      BY <1>5, <3>1, <3>2, AcceptStep DEF Records
  <2>3. Unrecorded' = Unrecorded + record[t].cost /\ Unrecorded \in Nat
    BY <1>2, <2>1, <2>2
  <2> QED
    BY <1>1, <1>3, <2>1, <2>2, <2>3 DEF Books
<1>6. ASSUME NEW t \in Callers, PushRecord(t)
      PROVE  Books'
  <2>1. /\ Still(t) /\ call[t] = "log" /\ call'[t] = "readSpent"
        /\ log' = Append(log, record[t]) /\ accepted' = accepted /\ dropped' = dropped
    BY <1>6 DEF AgentTypeOK, PushRecord
  <2>2. record[t] \in Records /\ record[t].cost \in Nat
    BY DEF AgentTypeOK, Records
  <2>3. Unrecorded' = Unrecorded - record[t].cost /\ Unrecorded \in Nat
    BY <1>2, <2>1, <2>2
  <2>4. Recorded' = Recorded + record[t].cost
    BY <2>1, <2>2, PushSum
  <2> QED
    BY <1>1, <2>1, <2>2, <2>3, <2>4 DEF Books
<1>7. ASSUME NEW t \in Callers,
             \/ ReadTier(t) \/ PassKillCheck(t) \/ RefuseKilled(t) \/ RefuseExhausted(t)
             \/ StoreReason(t) \/ StoreKilled(t)
      PROVE  Books'
  <2>1. Same
    BY <1>7
    DEF ReadTier, PassKillCheck, RefuseKilled, RefuseExhausted, StoreReason, StoreKilled,
        StartCharge
  <2>2. call[t] # "log" /\ call'[t] # "log" /\ \A u \in Callers \ {t} : call'[u] = call[u]
    <3>1. /\ call[t] \in {"idle", "killCheck", "charge", "kill"}
          /\ \E next \in {"idle", "killCheck", "charge", "kill"} : Step(t, next)
      BY <1>7
      DEF ReadTier, PassKillCheck, RefuseKilled, RefuseExhausted, StoreReason, StoreKilled
    <3> QED
      BY <3>1 DEF AgentTypeOK
  <2>3. \A u \in Callers \ {t} : record'[u] = record[u]
    <3>1. record' = record \/ \E r : record' = [record EXCEPT ![t] = r]
      BY <1>7
      DEF ReadTier, PassKillCheck, RefuseKilled, RefuseExhausted, StoreReason, StoreKilled
    <3> QED
      BY <3>1 DEF AgentTypeOK
  <2>4. Unrecorded' = Unrecorded
    BY <1>2, <2>2, <2>3
  <2> QED
    BY <1>4, <2>1, <2>4
<1>8. ASSUME NEW t \in Callers,
             \/ ReadSpent(t) \/ ReadLimit(t) \/ CountAccepted(t) \/ SetSpent(t)
             \/ SetRemaining(t) \/ JudgePressure(t)
      PROVE  Books'
  <2>1. Same
    BY <1>8 DEF ReadSpent, ReadLimit, CountAccepted, SetSpent, SetRemaining, JudgePressure
  <2>2. call[t] # "log" /\ call'[t] # "log" /\ \A u \in Callers \ {t} : call'[u] = call[u]
    BY <1>8
    DEF AgentTypeOK, ReadSpent, ReadLimit, CountAccepted, SetSpent, SetRemaining, JudgePressure
  <2>3. \A u \in Callers \ {t} : record'[u] = record[u]
    BY <1>8
    DEF AgentTypeOK, ReadSpent, ReadLimit, CountAccepted, SetSpent, SetRemaining, JudgePressure
  <2>4. Unrecorded' = Unrecorded
    BY <1>2, <2>2, <2>3
  <2> QED
    BY <1>4, <2>1, <2>4
<1>9. ASSUME NEW t \in Callers, TryCharge(t) \/ WriteTotal(t) \/ UndoTotal(t)
      PROVE  Books'
  <2>1. Same /\ UNCHANGED <<call, record>>
    BY <1>9, TryChargeStep, WriteTotalStep, UndoTotalStep DEF TryCharge, WriteTotal, UndoTotal
  <2>2. Unrecorded' = Unrecorded
    BY <2>1 DEF Unrecorded
  <2> QED
    BY <1>4, <2>1, <2>2
<1>10. ASSUME NEW t \in Movers, MoveCall(t)
       PROVE  Books'
  <2>1. Same
    <3>1. accepted' = accepted
      BY <1>10, TryShrinkStep, UndoLimitStep, ShrunkStep, GrowStep
      DEF MoveCall, BeginShrink, StartShrink, ShrinkRefused, TellCascade
    <3>2. log' = log /\ dropped' = dropped
      BY <1>10
      DEF MoveCall, BeginShrink, TryShrink, UndoLimit, Shrunk, ShrinkRefused, GrowLimit,
          TellCascade
    <3> QED
      BY <3>1, <3>2
  <2>2. Still(t) /\ t \notin Callers
    BY <1>10
    DEF AgentTypeOK, MoveCall, BeginShrink, TryShrink, UndoLimit, Shrunk, ShrinkRefused, GrowLimit,
        TellCascade
  <2>3. Unrecorded' = Unrecorded
    BY <1>2, <2>2
  <2> QED
    BY <1>4, <2>1, <2>3
<1>11. ASSUME NEW t \in Tasks, Cancel(t)
       PROVE  Books'
  <2>1. Still(t) /\ call'[t] = "idle" /\ accepted' = accepted /\ log' = log
    BY <1>11 DEF AgentTypeOK, Cancel
  <2>2. CASE call[t] = "log"
    <3>1. t \in Callers
      BY <2>2 DEF Shape
    <3>2. record[t].cost \in Nat
      BY DEF AgentTypeOK, Records
    <3>3. Unrecorded' = Unrecorded - record[t].cost /\ Unrecorded \in Nat
      BY <1>2, <2>1, <2>2, <3>1, <3>2
    <3>4. dropped'.cost = dropped.cost + record[t].cost
      BY <1>11, <2>2 DEF Cancel
    <3> QED
      BY <1>1, <1>3, <2>1, <3>2, <3>3, <3>4 DEF Books
  <2>3. CASE call[t] # "log"
    <3>1. Unrecorded' = Unrecorded
      BY <1>2, <2>1, <2>3
    <3>2. dropped' = dropped
      BY <1>11, <2>3 DEF Cancel
    <3> QED
      BY <1>4, <2>1, <3>1, <3>2
  <2> QED
    BY <2>2, <2>3
<1>12. CASE UNCHANGED agentVars
  <2>1. Unrecorded' = Unrecorded
    BY <1>12 DEF agentVars, Unrecorded
  <2> QED
    BY <1>4, <1>12, <2>1 DEF agentVars
<1> QED
  BY <1>5, <1>6, <1>7, <1>8, <1>9, <1>10, <1>11, <1>12 DEF AgentNext, ChargeCall, KillCall

-------------------------------------------------------------------------------
LEMMA InitInv ==
    ASSUME AgentInit
    PROVE  /\ AgentTypeOK /\ IInv /\ Shape /\ KillInv /\ OrderInv /\ CrossInv
           /\ GaugeInv /\ ReadInv /\ NoticeInv
<1> USE ConstantFacts
<1>1. cascade = [current |-> InitialTier, threshold |-> PressurePct, total |-> InitialLimit]
  BY DEF AgentInit, NewCascades
<1>2. cascade \in Cascades
  BY <1>1 DEF Cascades
<1>3. Init
  BY DEF AgentInit
<1>4. IInv
  BY <1>3, InitIInv
<1>5. \A t \in Tasks : call[t] = "idle" /\ pc[t] = "idle"
  BY DEF AgentInit, Init
<1>6. /\ killed = FALSE /\ log = <<>> /\ behind /\ judged = FALSE
      /\ crossed = {} /\ timely = {} /\ firm = {} /\ lateCharges = [t \in Callers |-> 0]
  BY DEF AgentInit
<1>7. AgentTypeOK
  <2>1. NoRecord \in Records
    BY DEF Records, NoRecord
  <2>2. record \in [Tasks -> Records] /\ log \in Seq(Records)
    BY <2>1 DEF AgentInit
  <2>3. /\ gauge \in [spent : Nat \cup {Unset}, remaining : Nat \cup {Unset}]
        /\ dropped \in [charges : Nat, cost : Nat]
    BY DEF AgentInit
  <2>4. counted \in [Outcomes -> Nat] /\ attempts \in 0..MaxAttempts
    BY DEF AgentInit
  <2>5. lateCharges \in [Callers -> Nat] /\ got \in [Tasks -> Nat]
    BY DEF AgentInit
  <2>6. call \in [Tasks -> {"idle"}]
    BY DEF AgentInit
  <2>7. killed \in BOOLEAN /\ killReason \in BOOLEAN /\ crowded \in BOOLEAN
    BY DEF AgentInit
  <2> QED
    BY <1>2, <1>6, <2>2, <2>3, <2>4, <2>5, <2>6, <2>7 DEF AgentTypeOK
<1>8. Shape
  <2>1. cascade.current <= InitialTier /\ cascade.threshold = PressurePct
    BY <1>1
  <2> QED
    BY <1>5, <1>6, <2>1 DEF Shape, Returned
<1>9. KillInv /\ ReadInv
  BY <1>5, <1>6 DEF KillInv, ReadInv
<1>10. OrderInv
  BY <1>5, <1>6 DEF OrderInv, AuditOrderedApart
<1>11. CrossInv
  BY <1>5 DEF CrossInv, PendingCharges
<1>12. GaugeInv
  BY <1>6 DEF GaugeInv
<1>13. NoticeInv
  BY <1>6 DEF NoticeInv, Judging
<1> QED
  BY <1>4, <1>7, <1>8, <1>9, <1>10, <1>11, <1>12, <1>13

LEMMA InitSums ==
    ASSUME AgentInit
    PROVE  Books /\ AttemptsCounted
<1> USE ConstantFacts
<1>1. Recorded = 0
  BY SumEmpty DEF AgentInit, Recorded
<1>2. {t \in Callers : call[t] = "log"} = {} /\ Uncounted = {}
  BY DEF AgentInit, Uncounted, Before
<1>3. Unrecorded = 0
  BY <1>2, SumEmpty DEF Unrecorded
<1>4. Cardinality(Uncounted) = 0
  BY <1>2, FS_EmptySet
<1>5. Books
  BY <1>1, <1>3 DEF AgentInit, Init, Books
<1>6. AttemptsCounted
  BY <1>4 DEF AgentInit, AttemptsCounted, Uncounted, Before, Outcomes
<1> QED
  BY <1>5, <1>6

\* Every variable keeps its type, the atomics keep their invariant, and no step
\* breaks the shape of the calls.
THEOREM ShapeAlways == AgentSpec => [](AgentTypeOK /\ IInv /\ Shape)
<1>1. AgentInit => AgentTypeOK /\ IInv /\ Shape
  BY InitInv
<1>2. AgentTypeOK /\ IInv /\ Shape /\ [AgentNext]_agentVars => AgentTypeOK' /\ IInv' /\ Shape'
  BY StepOfAtomics, TypeNext, ShapeNext
<1> QED
  BY <1>1, <1>2, PTL DEF AgentSpec

\* Every variable keeps its type.
THEOREM AgentTypeCorrect == AgentSpec => []AgentTypeOK
  BY ShapeAlways, PTL

\* What the tasks of an agent do to the two atomics is what AtomicBudget lets
\* threads do: all that is proved of its steps holds under an agent.
THEOREM AgentUsesAtomics == AgentSpec => Init /\ [][Next]_vars
<1>1. AgentInit => Init
  BY DEF AgentInit
<1>2. AgentTypeOK /\ IInv /\ Shape /\ [AgentNext]_agentVars => [Next]_vars
  BY StepOfAtomics
<1> QED
  BY <1>1, <1>2, ShapeAlways, PTL DEF AgentSpec

\* kill stops an agent that any number of tasks charge, after one late charge
\* of each at most.
THEOREM KillStops == AgentSpec => []OneLateChargeEach
<1>1. AgentInit => KillInv
  BY InitInv
<1>2. AgentTypeOK /\ IInv /\ Shape /\ KillInv /\ [AgentNext]_agentVars => KillInv'
  BY KillInvNext
<1>3. KillInv => OneLateChargeEach
  BY DEF KillInv, OneLateChargeEach
<1> QED
  BY <1>1, <1>2, <1>3, ShapeAlways, PTL DEF AgentSpec

\* A charge refused by the kill switch always finds the reason.
THEOREM ReasonKnown == AgentSpec => []RefusalHasReason
<1>1. AgentInit => KillInv
  BY InitInv
<1>2. AgentTypeOK /\ IInv /\ Shape /\ KillInv /\ [AgentNext]_agentVars => KillInv'
  BY KillInvNext
<1>3. KillInv => RefusalHasReason
  BY DEF KillInv, RefusalHasReason
<1> QED
  BY <1>1, <1>2, <1>3, ShapeAlways, PTL DEF AgentSpec

\* Whenever no charge is half done, the audit log, the charges that wait for its
\* lock and those dropped while they waited are the whole spend, however many
\* tasks charge.
THEOREM AuditAlways == AgentSpec => []AuditComplete
<1>1. AgentInit => Books
  BY InitSums
<1>2. AgentTypeOK /\ AgentTypeOK' /\ IInv /\ Shape /\ Books /\ [AgentNext]_agentVars => Books'
  BY BooksNext
<1>3. IInv /\ Books => AuditComplete
  BY LedgerFacts DEF Books, AuditComplete
<1> QED
  BY <1>1, <1>2, <1>3, AgentTypeCorrect, ShapeAlways, PTL DEF AgentSpec

\* The log is in the order the charges were accepted while no two wait for it.
THEOREM AuditOrdered == AgentSpec => []AuditOrderedApart
<1>1. AgentInit => OrderInv
  BY InitInv
<1>2. AgentTypeOK /\ IInv /\ Shape /\ OrderInv /\ [AgentNext]_agentVars => OrderInv'
  BY OrderNext
<1>3. OrderInv => AuditOrderedApart
  BY DEF OrderInv, AuditOrderedApart
<1> QED
  BY <1>1, <1>2, <1>3, ShapeAlways, PTL DEF AgentSpec

\* Every attempt to charge is counted once or still under way.
THEOREM AttemptsAlways == AgentSpec => []AttemptsCounted
<1>1. AgentInit => AttemptsCounted
  BY InitSums
<1>2. AgentTypeOK /\ IInv /\ Shape /\ AttemptsCounted /\ [AgentNext]_agentVars => AttemptsCounted'
  BY AttemptsNext
<1> QED
  BY <1>1, <1>2, ShapeAlways, PTL DEF AgentSpec

\* The gauges catch up with the spend, but for the races the markers name,
\* although they are fed from raw reads of the atomics.
THEOREM GaugesAlways == AgentSpec => []GaugeCurrent
<1>1. AgentInit => CrossInv /\ GaugeInv
  BY InitInv
<1>2. AgentTypeOK /\ IInv /\ Shape /\ CrossInv /\ [AgentNext]_agentVars => CrossInv'
  BY CrossNext
<1>3. AgentTypeOK /\ IInv /\ Shape /\ CrossInv /\ GaugeInv /\ [AgentNext]_agentVars => GaugeInv'
  BY GaugeNext
<1>4. GaugeInv => GaugeCurrent
  BY DEF GaugeInv, GaugeCurrent
<1> QED
  BY <1>1, <1>2, <1>3, <1>4, ShapeAlways, PTL DEF AgentSpec

\* Only the judgement of a charge changes the tier.
LEMMA TierStep ==
    ASSUME AgentTypeOK, IInv, Shape, [AgentNext]_agentVars, cascade'.current # cascade.current
    PROVE  \E t \in Callers : JudgePressure(t)
<1>1. ASSUME NEW t \in Movers, TellCascade(t)
      PROVE  FALSE
  BY <1>1, ConstantFacts, SetTotalStep DEF AgentTypeOK, TellCascade
<1> QED
  BY <1>1
  DEF AgentNext, ChargeCall, KillCall, MoveCall, agentVars, ReadTier, PassKillCheck,
      RefuseKilled, TryCharge, WriteTotal, UndoTotal, Accept, RefuseExhausted, PushRecord,
      ReadSpent, ReadLimit, CountAccepted, SetSpent, SetRemaining, StoreReason, StoreKilled,
      BeginShrink, TryShrink, UndoLimit, Shrunk, ShrinkRefused, GrowLimit, Cancel

LEMMA JudgedOnTime ==
    ASSUME AgentTypeOK, IInv, Shape, ReadInv, [AgentNext]_agentVars, NEW t \in firm,
           cascade'.current < cascade.current, call[t] = "evaluate", call'[t] = "idle"
    PROVE  UnderPressure(cascade, RoomLeft)
<1> USE ConstantFacts
<1>1. cascade \in Cascades /\ cascade.current \in Nat /\ t \in Tasks /\ got[t] \in Nat
  BY DEF AgentTypeOK, Cascades
<1>2. cascade'.current # cascade.current
  BY <1>1
<1>3. PICK u \in Callers : JudgePressure(u)
  BY <1>2, TierStep
<1>4. u = t
  BY <1>1, <1>3 DEF AgentTypeOK, JudgePressure, Done, Step
<1>5. cascade' = Evaluate(cascade, got[t])
  BY <1>3, <1>4 DEF JudgePressure
<1>6. UnderPressure(cascade, got[t])
  BY <1>1, <1>2, <1>5, EvaluateStep
<1>7. RoomLeft <= got[t] /\ RoomLeft \in Int
  <2>1. RoomLeft \in Nat
    BY LedgerFacts, SubNat DEF RoomLeft
  <2> QED
    BY <2>1 DEF ReadInv, Holding
<1> QED
  BY <1>1, <1>6, <1>7, PressureMonotone

\* A downgrade is never the effect of an old or a half-undone remainder: unless
\* room was made since the charge loaded the spend, as little is left now.
THEOREM DowngradesJustified == AgentSpec => DowngradeJustified
<1> DEFINE Justified ==
              \A t \in firm :
                cascade'.current < cascade.current /\ call[t] = "evaluate" /\ call'[t] = "idle"
                    => UnderPressure(cascade, RoomLeft)
<1>1. AgentInit => ReadInv
  BY InitInv
<1>2. AgentTypeOK /\ IInv /\ Shape /\ ReadInv /\ [AgentNext]_agentVars => ReadInv'
  BY ReadNext
<1>3. AgentTypeOK /\ IInv /\ Shape /\ ReadInv /\ [AgentNext]_agentVars => Justified
  BY JudgedOnTime
<1>4. DowngradeJustified <=> [][Justified]_agentVars
  BY DEF DowngradeJustified
<1> HIDE DEF Justified
<1> QED
  BY <1>1, <1>2, <1>3, <1>4, ShapeAlways, PTL DEF AgentSpec

\* Pressure is noticed, however many tasks charge the agent and move its limit:
\* once all calls have returned, whichever of the racing charges read the
\* remainder last has seen all that was spent.
THEOREM PressureAlways == AgentSpec => []PressureNoticed
<1>1. AgentInit => NoticeInv
  BY InitInv
<1>2. AgentTypeOK /\ IInv /\ Shape /\ NoticeInv /\ [AgentNext]_agentVars => NoticeInv'
  BY NoticeNext
<1>3. NoticeInv => PressureNoticed
  BY ConstantFacts DEF NoticeInv, PressureNoticed, Judging, Fresh, Noticed, Holding, Idle
<1> QED
  BY <1>1, <1>2, <1>3, ShapeAlways, PTL DEF AgentSpec
===============================================================================
