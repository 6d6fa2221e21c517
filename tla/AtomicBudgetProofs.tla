-------------------------- MODULE AtomicBudgetProofs --------------------------
(***************************************************************************)
(* Proofs about AtomicBudget and the readers next to it (BudgetReaders),   *)
(* for any number of threads and readers, any amounts and any limit: the   *)
(* invariant IInv of AtomicBudgetInv is inductive, AtomicBudget implements *)
(* HardCap, and what readers and refused callers are told is true.         *)
(***************************************************************************)
EXTENDS AtomicBudgetInv, BudgetReaders, TLAPS

-------------------------------------------------------------------------------
(***************************************************************************)
(* Layouts of pending charges                                              *)
(***************************************************************************)

\* A step that leaves spent_nanos, the accepted total and what the pending
\* charges work from alone leaves their layout alone.
LEMMA ChargeLayoutFrame ==
    ASSUME NEW lo, NEW cov, ChargeLayout(lo, cov),
           UNCHANGED <<spent, accepted>>,
           PendingCharges' = PendingCharges,
           \A c \in PendingCharges :
               /\ arg'[c] = arg[c]
               /\ seen'[c] = seen[c]
               /\ pc'[c] = "chargeRecheck" => pc[c] = "chargeRecheck"
    PROVE  ChargeLayout(lo, cov)'
BY DEF ChargeLayout, NewTotal, SaturatingAdd

\* The swap of a charge puts its interval on top of the others.
LEMMA ChargeSwapLayout ==
    ASSUME IInv, NEW t \in Threads, ChargeSwap(t),
           NEW lo, NEW cov, ChargeLayout(lo, cov)
    PROVE  \E lo2 : ChargeLayout(lo2, cov)'
<1>0. PICK lo2 : lo2 = [c \in PendingCharges' |-> IF c = t THEN spent ELSE lo[c]]
  OBVIOUS
<1>1. /\ PendingCharges' = PendingCharges \cup {t}
      /\ t \notin PendingCharges
      /\ \A c \in PendingCharges : pc'[c] = pc[c] /\ c # t /\ c \in Threads
  BY DEF ChargeSwap, Goto, PendingCharges, IInv, TypeOK
<1>2. /\ spent \in Nat /\ arg[t] \in Nat /\ GrowBound \in Nat /\ accepted \in Nat
      /\ \A c \in Threads : arg[c] \in Nat
      /\ spent' = spent + arg[t]
      /\ spent' = NewTotal(t)
      /\ spent' <= GrowBound
      /\ UNCHANGED <<arg, seen, accepted>>
  BY NoWrapAssumption, ConstantsAssumption DEF ChargeSwap, IInv, TypeOK, CallsFit, NewTotal, SaturatingAdd
<1>3. lo2 \in [PendingCharges' -> 0..spent']
  BY <1>0, <1>1, <1>2 DEF ChargeLayout
<1>4. \A c \in PendingCharges' : NewTotal(c)' = NewTotal(c)
  BY <1>2 DEF NewTotal, SaturatingAdd
<1>5. ASSUME NEW c \in PendingCharges'
      PROVE  /\ accepted <= lo2[c]
             /\ lo2[c] + arg[c] <= spent'
             /\ lo2[c] + arg[c] <= cov \/ cov <= lo2[c]
             /\ pc'[c] = "chargeRecheck" /\ cov < lo2[c] + arg[c]
                  => lo2[c] + arg[c] <= NewTotal(c)
  BY <1>0, <1>1, <1>2 DEF ChargeLayout
<1>6. ASSUME NEW c \in PendingCharges', NEW d \in PendingCharges'
      PROVE  c = d \/ lo2[c] + arg[c] <= lo2[d] \/ lo2[d] + arg[d] <= lo2[c]
  BY <1>0, <1>1, <1>2 DEF ChargeLayout
<1>7. ASSUME NEW x \in accepted..(spent' - 1)
      PROVE  \E c \in PendingCharges' : lo2[c] <= x /\ x < lo2[c] + arg[c]
  <2>1. CASE x < spent
    BY SMTT(30), <2>1, <1>0, <1>1, <1>2 DEF ChargeLayout
  <2>2. CASE spent <= x
    BY <2>2, <1>0, <1>1, <1>2
  <2> QED BY <2>1, <2>2, <1>2 DEF ChargeLayout
<1>8. cov \in accepted..spent'
  BY <1>2 DEF ChargeLayout
<1> QED
  <2>1. ChargeLayout(lo2, cov)'
    BY <1>2, <1>3, <1>4, <1>5, <1>6, <1>7, <1>8 DEF ChargeLayout
  <2> QED BY <2>1

\* An accepted charge becomes part of [0, accepted): the intervals in front of
\* its own slide up by its size.  If it lay above cov its recheck has shown
\* that its top is within limit_nanos, and cov moves up to that top.
LEMMA ChargeAcceptLayout ==
    ASSUME IInv, NEW t \in Threads, ChargeAccept(t),
           NEW lo, NEW cov, ChargeLayout(lo, cov)
    PROVE  \E lo2, cov2 : /\ ChargeLayout(lo2, cov2)'
                          /\ cov2 <= cov \/ cov2 <= limit
<1>0. PICK lo2, cov2 :
        /\ lo2 = [c \in PendingCharges' |->
                    IF lo[c] + arg[c] <= lo[t] THEN lo[c] + arg[t] ELSE lo[c]]
        /\ cov2 = IF lo[t] + arg[t] <= cov THEN cov ELSE lo[t] + arg[t]
  OBVIOUS
<1>1. /\ PendingCharges' = PendingCharges \ {t}
      /\ t \in PendingCharges
      /\ \A c \in PendingCharges' : /\ pc'[c] = pc[c] /\ arg'[c] = arg[c]
                                     /\ seen'[c] = seen[c] /\ c \in Threads
                                     /\ c # t /\ c \in PendingCharges
  BY DEF ChargeAccept, Return, PendingCharges, IInv, TypeOK
<1>2. /\ spent \in Nat /\ limit \in Nat /\ GrowBound \in Nat /\ accepted \in Nat
      /\ \A c \in Threads : arg[c] \in Nat
      /\ arg[t] \in Nat
      /\ pc[t] = "chargeRecheck"
      /\ NewTotal(t) <= limit
      /\ NewTotal(t) \in Nat
      /\ spent' = spent
      /\ accepted' = accepted + arg[t]
  BY ConstantsAssumption DEF ChargeAccept, IInv, TypeOK, NewTotal, SaturatingAdd
<1>3. /\ lo \in [PendingCharges -> 0..spent]
      /\ \A c \in PendingCharges : lo[c] \in 0..spent
      /\ cov \in accepted..spent
      /\ accepted <= lo[t] /\ lo[t] + arg[t] <= spent
      /\ lo[t] + arg[t] <= cov \/ cov <= lo[t]
      /\ cov < lo[t] + arg[t] => lo[t] + arg[t] <= limit
  BY <1>1, <1>2 DEF ChargeLayout
<1>4. \A c \in PendingCharges' : NewTotal(c)' = NewTotal(c)
  BY <1>1 DEF NewTotal, SaturatingAdd
<1>5. ASSUME NEW c \in PendingCharges'
      PROVE  /\ lo2[c] \in 0..spent
             /\ accepted' <= lo2[c]
             /\ lo2[c] + arg[c] <= spent
             /\ lo2[c] + arg[c] <= cov2 \/ cov2 <= lo2[c]
             /\ pc[c] = "chargeRecheck" /\ cov2 < lo2[c] + arg[c]
                  => lo2[c] + arg[c] <= NewTotal(c)
  BY <1>0, <1>1, <1>2, <1>3 DEF ChargeLayout
<1>6. ASSUME NEW c \in PendingCharges', NEW d \in PendingCharges'
      PROVE  c = d \/ lo2[c] + arg[c] <= lo2[d] \/ lo2[d] + arg[d] <= lo2[c]
  BY <1>0, <1>1, <1>2, <1>3 DEF ChargeLayout
<1>7. ASSUME NEW x \in accepted'..(spent - 1)
      PROVE  \E c \in PendingCharges' : lo2[c] <= x /\ x < lo2[c] + arg[c]
  <2>1. CASE x < lo[t] + arg[t]
    <3>1. /\ x \in Nat
          /\ x - arg[t] \in accepted..(spent - 1)
          /\ x - arg[t] < lo[t]
      BY <2>1, <1>1, <1>2, <1>3
    <3>2. PICK c \in PendingCharges : lo[c] <= x - arg[t] /\ x - arg[t] < lo[c] + arg[c]
      BY <3>1 DEF ChargeLayout
    <3>3. c \in PendingCharges'
      BY <3>1, <3>2, <1>1, <1>2, <1>3
    <3>4. lo[c] + arg[c] <= lo[t]
      BY <3>1, <3>2, <3>3, <1>1, <1>2, <1>3 DEF ChargeLayout
    <3> QED BY <3>1, <3>2, <3>3, <3>4, <1>0, <1>1, <1>2, <1>3
  <2>2. CASE lo[t] + arg[t] <= x
    <3>1. x \in accepted..(spent - 1)
      BY <2>2, <1>1, <1>2, <1>3
    <3>2. PICK c \in PendingCharges : lo[c] <= x /\ x < lo[c] + arg[c]
      BY <3>1 DEF ChargeLayout
    <3>3. c \in PendingCharges' /\ ~(lo[c] + arg[c] <= lo[t])
      BY <2>2, <3>1, <3>2, <1>1, <1>2, <1>3
    <3> QED BY <3>2, <3>3, <1>0
  <2> QED BY <2>1, <2>2, <1>1, <1>2, <1>3
<1>8. /\ cov2 \in accepted'..spent
      /\ cov2 <= cov \/ cov2 <= limit
  BY <1>0, <1>1, <1>2, <1>3
<1>9. lo2 \in [PendingCharges' -> 0..spent]
  BY <1>0, <1>5
<1> QED
  <2>1. ChargeLayout(lo2, cov2)'
    BY <1>1, <1>2, <1>4, <1>5, <1>6, <1>7, <1>8, <1>9 DEF ChargeLayout
  <2> QED BY <2>1, <1>8

\* An undone charge takes its interval away: the intervals behind it slide
\* down, and so does cov when the interval lay below it.
LEMMA ChargeUndoLayout ==
    ASSUME IInv, NEW t \in Threads, ChargeUndo(t),
           NEW lo, NEW cov, ChargeLayout(lo, cov)
    PROVE  \E lo2, cov2 : ChargeLayout(lo2, cov2)' /\ cov2 <= cov
<1>0. PICK lo2, cov2 :
        /\ lo2 = [c \in PendingCharges' |->
                    IF lo[t] + arg[t] <= lo[c] THEN lo[c] - arg[t] ELSE lo[c]]
        /\ cov2 = IF lo[t] + arg[t] <= cov THEN cov - arg[t] ELSE cov
  OBVIOUS
<1>1. /\ PendingCharges' = PendingCharges \ {t}
      /\ t \in PendingCharges
      /\ \A c \in PendingCharges' : /\ pc'[c] = pc[c] /\ arg'[c] = arg[c]
                                     /\ seen'[c] = seen[c] /\ c \in Threads
                                     /\ c # t /\ c \in PendingCharges
  BY DEF ChargeUndo, Return, PendingCharges, IInv, TypeOK
<1>2. /\ spent \in Nat /\ GrowBound \in Nat /\ accepted \in Nat
      /\ \A c \in Threads : arg[c] \in Nat
      /\ arg[t] \in Nat
      /\ accepted' = accepted
  BY ConstantsAssumption DEF ChargeUndo, IInv, TypeOK
<1>3. /\ lo \in [PendingCharges -> 0..spent]
      /\ \A c \in PendingCharges : lo[c] \in 0..spent
      /\ cov \in accepted..spent
      /\ accepted <= lo[t] /\ lo[t] + arg[t] <= spent
      /\ lo[t] + arg[t] <= cov \/ cov <= lo[t]
  BY <1>1, <1>2 DEF ChargeLayout
<1>4. spent' = spent - arg[t]
  BY <1>1, <1>2, <1>3 DEF ChargeUndo, FetchSub
<1>5. \A c \in PendingCharges' : NewTotal(c)' = NewTotal(c) /\ NewTotal(c) \in Nat
  BY <1>1, ConstantsAssumption DEF NewTotal, SaturatingAdd, IInv, TypeOK
<1>6. ASSUME NEW c \in PendingCharges'
      PROVE  /\ lo2[c] \in 0..(spent - arg[t])
             /\ accepted <= lo2[c]
             /\ lo2[c] + arg[c] <= spent - arg[t]
             /\ lo2[c] + arg[c] <= cov2 \/ cov2 <= lo2[c]
             /\ pc[c] = "chargeRecheck" /\ cov2 < lo2[c] + arg[c]
                  => lo2[c] + arg[c] <= NewTotal(c)
  BY <1>0, <1>1, <1>2, <1>3, <1>5 DEF ChargeLayout
<1>7. ASSUME NEW c \in PendingCharges', NEW d \in PendingCharges'
      PROVE  c = d \/ lo2[c] + arg[c] <= lo2[d] \/ lo2[d] + arg[d] <= lo2[c]
  BY <1>0, <1>1, <1>2, <1>3 DEF ChargeLayout
<1>8. ASSUME NEW x \in accepted..(spent - arg[t] - 1)
      PROVE  \E c \in PendingCharges' : lo2[c] <= x /\ x < lo2[c] + arg[c]
  <2>1. CASE x < lo[t]
    <3>1. x \in accepted..(spent - 1)
      BY <2>1, <1>1, <1>2, <1>3
    <3>2. PICK c \in PendingCharges : lo[c] <= x /\ x < lo[c] + arg[c]
      BY <3>1 DEF ChargeLayout
    <3>3. c \in PendingCharges' /\ ~(lo[t] + arg[t] <= lo[c])
      BY <2>1, <3>1, <3>2, <1>1, <1>2, <1>3
    <3> QED BY <3>2, <3>3, <1>0
  <2>2. CASE lo[t] <= x
    <3>1. /\ x + arg[t] \in accepted..(spent - 1)
          /\ x \in Nat
      BY <2>2, <1>1, <1>2, <1>3
    <3>2. PICK c \in PendingCharges : lo[c] <= x + arg[t] /\ x + arg[t] < lo[c] + arg[c]
      BY <3>1 DEF ChargeLayout
    <3>3. c \in PendingCharges'
      BY <2>2, <3>1, <3>2, <1>1, <1>2, <1>3
    <3>4. lo[t] + arg[t] <= lo[c]
      BY <2>2, <3>1, <3>2, <3>3, <1>1, <1>2, <1>3 DEF ChargeLayout
    <3> QED BY <3>1, <3>2, <3>3, <3>4, <1>0, <1>1, <1>2, <1>3
  <2> QED BY <2>1, <2>2, <1>1, <1>2, <1>3
<1>9. /\ cov2 \in accepted..(spent - arg[t])
      /\ cov2 <= cov
  BY <1>0, <1>1, <1>2, <1>3
<1>10. lo2 \in [PendingCharges' -> 0..(spent - arg[t])]
  BY <1>0, <1>6
<1> QED
  <2>1. ChargeLayout(lo2, cov2)'
    BY <1>1, <1>2, <1>4, <1>5, <1>6, <1>7, <1>8, <1>9, <1>10 DEF ChargeLayout
  <2> QED BY <2>1, <1>9

-------------------------------------------------------------------------------
(***************************************************************************)
(* Layouts of pending shrinks.  They mirror those of the charges: the      *)
(* intervals grow downwards from settled.                                  *)
(***************************************************************************)

\* A step that leaves limit_nanos, the settled limit and what the pending
\* shrinks work from alone leaves their layout alone.
LEMMA ShrinkLayoutFrame ==
    ASSUME NEW hi, NEW clim, ShrinkLayout(hi, clim),
           UNCHANGED <<limit, settled>>,
           PendingShrinks' = PendingShrinks,
           \A s \in PendingShrinks :
               /\ arg'[s] = arg[s]
               /\ seen'[s] = seen[s]
               /\ pc'[s] = "shrinkRecheck" => pc[s] = "shrinkRecheck"
    PROVE  ShrinkLayout(hi, clim)'
BY DEF ShrinkLayout, NewLimit

\* The swap of a shrink puts its interval below the others.
LEMMA ShrinkSwapLayout ==
    ASSUME IInv, NEW t \in Threads, ShrinkSwap(t),
           NEW hi, NEW clim, ShrinkLayout(hi, clim)
    PROVE  \E hi2 : ShrinkLayout(hi2, clim)'
<1>0. PICK hi2 : hi2 = [s \in PendingShrinks' |-> IF s = t THEN limit - arg[t] ELSE hi[s]]
  OBVIOUS
<1>1. /\ PendingShrinks' = PendingShrinks \cup {t}
      /\ t \notin PendingShrinks
      /\ \A s \in PendingShrinks : pc'[s] = pc[s] /\ s # t /\ s \in Threads
  BY DEF ShrinkSwap, Goto, PendingShrinks, IInv, TypeOK
<1>2. /\ limit \in Nat /\ settled \in Nat /\ limit <= settled
      /\ \A s \in Threads : arg[s] \in Nat
      /\ arg[t] \in Nat /\ arg[t] <= limit
      /\ limit' = limit - arg[t]
      /\ limit' = NewLimit(t)
      /\ UNCHANGED <<arg, seen, settled>>
  BY ConstantsAssumption DEF ShrinkSwap, IInv, TypeOK, CallsFit, NewLimit
<1>3. \A s \in PendingShrinks' : NewLimit(s)' = NewLimit(s)
  BY <1>2 DEF NewLimit
<1>4. ASSUME NEW s \in PendingShrinks'
      PROVE  /\ hi2[s] \in 0..settled
             /\ limit' <= hi2[s]
             /\ hi2[s] + arg[s] <= settled
             /\ hi2[s] + arg[s] <= clim \/ clim <= hi2[s]
             /\ pc'[s] = "shrinkRecheck" /\ hi2[s] < clim => NewLimit(s) <= hi2[s]
  BY <1>0, <1>1, <1>2 DEF ShrinkLayout
<1>5. ASSUME NEW s \in PendingShrinks', NEW u \in PendingShrinks'
      PROVE  s = u \/ hi2[s] + arg[s] <= hi2[u] \/ hi2[u] + arg[u] <= hi2[s]
  BY <1>0, <1>1, <1>2 DEF ShrinkLayout
<1>6. ASSUME NEW x \in limit'..(settled - 1)
      PROVE  \E s \in PendingShrinks' : hi2[s] <= x /\ x < hi2[s] + arg[s]
  <2>1. CASE x < limit
    BY <2>1, <1>0, <1>1, <1>2
  <2>2. CASE limit <= x
    <3>1. x \in limit..(settled - 1)
      BY <2>2, <1>2
    <3> QED BY <3>1, <1>0, <1>1, <1>2 DEF ShrinkLayout
  <2> QED BY <2>1, <2>2, <1>2
<1>7. clim \in limit'..settled
  BY <1>2 DEF ShrinkLayout
<1>8. hi2 \in [PendingShrinks' -> 0..settled]
  BY <1>0, <1>4
<1> QED
  <2>1. ShrinkLayout(hi2, clim)'
    BY <1>2, <1>3, <1>4, <1>5, <1>6, <1>7, <1>8 DEF ShrinkLayout
  <2> QED BY <2>1

\* An accepted shrink leaves [0, settled): the intervals above its own slide
\* down by its size.  If it lay below clim its recheck has shown that
\* spent_nanos is within its bottom, and clim moves down to that bottom.
LEMMA ShrinkAcceptLayout ==
    ASSUME IInv, NEW t \in Threads, ShrinkAccept(t),
           NEW hi, NEW clim, ShrinkLayout(hi, clim)
    PROVE  \E hi2, clim2 : /\ ShrinkLayout(hi2, clim2)'
                           /\ clim <= clim2 \/ spent <= clim2
<1>0. PICK hi2, clim2 :
        /\ hi2 = [s \in PendingShrinks' |->
                    IF hi[t] + arg[t] <= hi[s] THEN hi[s] - arg[t] ELSE hi[s]]
        /\ clim2 = IF clim <= hi[t] THEN clim ELSE hi[t]
  OBVIOUS
<1>1. /\ PendingShrinks' = PendingShrinks \ {t}
      /\ t \in PendingShrinks
      /\ \A s \in PendingShrinks' : /\ pc'[s] = pc[s] /\ arg'[s] = arg[s]
                                     /\ seen'[s] = seen[s] /\ s \in Threads
                                     /\ s # t /\ s \in PendingShrinks
  BY DEF ShrinkAccept, Return, PendingShrinks, IInv, TypeOK
<1>2. /\ limit \in Nat /\ settled \in Nat /\ limit <= settled /\ spent \in Nat
      /\ \A s \in Threads : arg[s] \in Nat /\ seen[s] \in Nat
      /\ arg[t] \in Nat /\ seen[t] \in Nat
      /\ pc[t] = "shrinkRecheck"
      /\ spent <= NewLimit(t)
      /\ NewLimit(t) \in Int
      /\ limit' = limit
      /\ settled' = settled - arg[t]
  BY ConstantsAssumption DEF ShrinkAccept, IInv, TypeOK, NewLimit
<1>3. /\ \A s \in PendingShrinks : hi[s] \in 0..settled
      /\ hi[t] \in 0..settled
      /\ clim \in limit..settled
      /\ limit <= hi[t] /\ hi[t] + arg[t] <= settled
      /\ hi[t] + arg[t] <= clim \/ clim <= hi[t]
      /\ hi[t] < clim => NewLimit(t) <= hi[t]
  BY <1>1, <1>2 DEF ShrinkLayout
<1>4. \A s \in PendingShrinks' : NewLimit(s)' = NewLimit(s) /\ NewLimit(s) \in Int
  BY <1>1, <1>2 DEF NewLimit
<1>5. ASSUME NEW s \in PendingShrinks'
      PROVE  /\ hi2[s] \in 0..(settled - arg[t])
             /\ limit <= hi2[s]
             /\ hi2[s] + arg[s] <= settled - arg[t]
             /\ hi2[s] + arg[s] <= clim2 \/ clim2 <= hi2[s]
             /\ pc[s] = "shrinkRecheck" /\ hi2[s] < clim2 => NewLimit(s) <= hi2[s]
  BY <1>0, <1>1, <1>2, <1>3, <1>4 DEF ShrinkLayout
<1>6. ASSUME NEW s \in PendingShrinks', NEW u \in PendingShrinks'
      PROVE  s = u \/ hi2[s] + arg[s] <= hi2[u] \/ hi2[u] + arg[u] <= hi2[s]
  BY <1>0, <1>1, <1>2, <1>3 DEF ShrinkLayout
<1>7. ASSUME NEW x \in limit..(settled - arg[t] - 1)
      PROVE  \E s \in PendingShrinks' : hi2[s] <= x /\ x < hi2[s] + arg[s]
  <2>1. CASE x < hi[t]
    <3>1. x \in limit..(settled - 1)
      BY <2>1, <1>1, <1>2, <1>3
    <3>2. PICK s \in PendingShrinks : hi[s] <= x /\ x < hi[s] + arg[s]
      BY <3>1 DEF ShrinkLayout
    <3>3. s \in PendingShrinks' /\ ~(hi[t] + arg[t] <= hi[s])
      BY <2>1, <3>1, <3>2, <1>1, <1>2, <1>3
    <3> QED BY <3>2, <3>3, <1>0
  <2>2. CASE hi[t] <= x
    <3>1. /\ x + arg[t] \in limit..(settled - 1)
          /\ x \in Nat
      BY <2>2, <1>1, <1>2, <1>3
    <3>2. PICK s \in PendingShrinks : hi[s] <= x + arg[t] /\ x + arg[t] < hi[s] + arg[s]
      BY <3>1 DEF ShrinkLayout
    <3>3. s \in PendingShrinks'
      BY <2>2, <3>1, <3>2, <1>1, <1>2, <1>3
    <3>4. hi[t] + arg[t] <= hi[s]
      BY <2>2, <3>1, <3>2, <3>3, <1>1, <1>2, <1>3 DEF ShrinkLayout
    <3> QED BY <3>1, <3>2, <3>3, <3>4, <1>0, <1>1, <1>2, <1>3
  <2> QED BY <2>1, <2>2, <1>1, <1>2, <1>3
<1>8. /\ clim2 \in limit..(settled - arg[t])
      /\ clim <= clim2 \/ spent <= clim2
  BY <1>0, <1>1, <1>2, <1>3
<1>9. hi2 \in [PendingShrinks' -> 0..(settled - arg[t])]
  BY <1>0, <1>5
<1> QED
  <2>1. ShrinkLayout(hi2, clim2)'
    BY <1>1, <1>2, <1>4, <1>5, <1>6, <1>7, <1>8, <1>9 DEF ShrinkLayout
  <2> QED BY <2>1, <1>8

\* An undone shrink gives its interval back: the intervals below it slide up,
\* and so does clim when the interval lay above it.
LEMMA ShrinkUndoLayout ==
    ASSUME IInv, NEW t \in Threads, ShrinkUndo(t),
           NEW hi, NEW clim, ShrinkLayout(hi, clim)
    PROVE  /\ limit' = limit + arg[t]
           /\ limit + arg[t] <= settled
           /\ \E hi2, clim2 : ShrinkLayout(hi2, clim2)' /\ clim <= clim2
<1>0. PICK hi2, clim2 :
        /\ hi2 = [s \in PendingShrinks' |->
                    IF hi[s] + arg[s] <= hi[t] THEN hi[s] + arg[t] ELSE hi[s]]
        /\ clim2 = IF clim <= hi[t] THEN clim + arg[t] ELSE clim
  OBVIOUS
<1>1. /\ PendingShrinks' = PendingShrinks \ {t}
      /\ t \in PendingShrinks
      /\ \A s \in PendingShrinks' : /\ pc'[s] = pc[s] /\ arg'[s] = arg[s]
                                     /\ seen'[s] = seen[s] /\ s \in Threads
                                     /\ s # t /\ s \in PendingShrinks
  BY DEF ShrinkUndo, Return, PendingShrinks, IInv, TypeOK
<1>2. /\ limit \in Nat /\ settled \in Nat /\ limit <= settled
      /\ settled <= GrowBound /\ GrowBound \in Nat /\ MaxNanos \in Nat
      /\ \A s \in Threads : arg[s] \in Nat /\ seen[s] \in Nat
      /\ arg[t] \in Nat
      /\ settled' = settled
  BY ConstantsAssumption DEF ShrinkUndo, IInv, TypeOK
<1>3. /\ \A s \in PendingShrinks : hi[s] \in 0..settled
      /\ hi[t] \in 0..settled
      /\ clim \in limit..settled
      /\ limit <= hi[t] /\ hi[t] + arg[t] <= settled
      /\ hi[t] + arg[t] <= clim \/ clim <= hi[t]
  BY <1>1, <1>2 DEF ShrinkLayout
<1>4. limit' = limit + arg[t] /\ limit + arg[t] <= settled
  BY <1>1, <1>2, <1>3, NoWrapAssumption DEF ShrinkUndo, FetchAdd
<1>5. \A s \in PendingShrinks' : NewLimit(s)' = NewLimit(s) /\ NewLimit(s) \in Int
  BY <1>1, <1>2 DEF NewLimit
<1>6. ASSUME NEW s \in PendingShrinks'
      PROVE  /\ hi2[s] \in 0..settled
             /\ limit + arg[t] <= hi2[s]
             /\ hi2[s] + arg[s] <= settled
             /\ hi2[s] + arg[s] <= clim2 \/ clim2 <= hi2[s]
             /\ pc[s] = "shrinkRecheck" /\ hi2[s] < clim2 => NewLimit(s) <= hi2[s]
  BY <1>0, <1>1, <1>2, <1>3, <1>5 DEF ShrinkLayout
<1>7. ASSUME NEW s \in PendingShrinks', NEW u \in PendingShrinks'
      PROVE  s = u \/ hi2[s] + arg[s] <= hi2[u] \/ hi2[u] + arg[u] <= hi2[s]
  BY <1>0, <1>1, <1>2, <1>3 DEF ShrinkLayout
<1>8. ASSUME NEW x \in (limit + arg[t])..(settled - 1)
      PROVE  \E s \in PendingShrinks' : hi2[s] <= x /\ x < hi2[s] + arg[s]
  <2>1. CASE x < hi[t] + arg[t]
    <3>1. /\ x \in Nat
          /\ x - arg[t] \in limit..(settled - 1)
          /\ x - arg[t] < hi[t]
      BY <2>1, <1>1, <1>2, <1>3
    <3>2. PICK s \in PendingShrinks : hi[s] <= x - arg[t] /\ x - arg[t] < hi[s] + arg[s]
      BY <3>1 DEF ShrinkLayout
    <3>3. s \in PendingShrinks'
      BY <3>1, <3>2, <1>1, <1>2, <1>3
    <3>4. hi[s] + arg[s] <= hi[t]
      BY <3>1, <3>2, <3>3, <1>1, <1>2, <1>3 DEF ShrinkLayout
    <3> QED BY <3>1, <3>2, <3>3, <3>4, <1>0, <1>1, <1>2, <1>3
  <2>2. CASE hi[t] + arg[t] <= x
    <3>1. x \in limit..(settled - 1)
      BY <2>2, <1>1, <1>2, <1>3
    <3>2. PICK s \in PendingShrinks : hi[s] <= x /\ x < hi[s] + arg[s]
      BY <3>1 DEF ShrinkLayout
    <3>3. s \in PendingShrinks' /\ ~(hi[s] + arg[s] <= hi[t])
      BY <2>2, <3>1, <3>2, <1>1, <1>2, <1>3
    <3> QED BY <3>2, <3>3, <1>0
  <2> QED BY <2>1, <2>2, <1>1, <1>2, <1>3
<1>9. /\ clim2 \in (limit + arg[t])..settled
      /\ clim <= clim2
  BY <1>0, <1>1, <1>2, <1>3
<1>10. hi2 \in [PendingShrinks' -> 0..settled]
  BY <1>0, <1>6
<1> QED
  <2>1. ShrinkLayout(hi2, clim2)'
    BY <1>1, <1>2, <1>4, <1>5, <1>6, <1>7, <1>8, <1>9, <1>10 DEF ShrinkLayout
  <2> QED BY <2>1, <1>4, <1>9

\* A grow lifts limit_nanos, every pending shrink and clim by the same amount.
LEMMA GrowLayout ==
    ASSUME IInv, NEW t \in Threads, NEW amount \in GrowAmounts, Grow(t, amount),
           NEW hi, NEW clim, ShrinkLayout(hi, clim)
    PROVE  /\ limit' = limit + amount
           /\ \E hi2, clim2 : ShrinkLayout(hi2, clim2)' /\ clim <= clim2
<1>0. PICK hi2, clim2 :
        /\ hi2 = [s \in PendingShrinks' |-> hi[s] + amount]
        /\ clim2 = clim + amount
  OBVIOUS
<1>1. /\ PendingShrinks' = PendingShrinks
      /\ \A s \in PendingShrinks' : /\ pc'[s] = pc[s] /\ arg'[s] = arg[s]
                                     /\ seen'[s] = seen[s] /\ s \in Threads
  BY DEF Grow, Return, Returned, PendingShrinks, IInv, TypeOK
<1>2. /\ limit \in Nat /\ settled \in Nat /\ limit <= settled /\ amount \in Nat
      /\ \A s \in Threads : arg[s] \in Nat /\ seen[s] \in Nat
      /\ settled' = settled + amount
      /\ limit' = limit + amount
  BY ConstantsAssumption, NoWrapAssumption DEF Grow, FetchAdd, IInv, TypeOK
<1>3. /\ \A s \in PendingShrinks : hi[s] \in 0..settled
      /\ clim \in limit..settled
  BY DEF ShrinkLayout
<1>4. \A s \in PendingShrinks' : NewLimit(s)' = NewLimit(s) /\ NewLimit(s) \in Int
  BY <1>1, <1>2 DEF NewLimit
<1>5. ASSUME NEW s \in PendingShrinks'
      PROVE  /\ hi2[s] \in 0..(settled + amount)
             /\ limit + amount <= hi2[s]
             /\ hi2[s] + arg[s] <= settled + amount
             /\ hi2[s] + arg[s] <= clim2 \/ clim2 <= hi2[s]
             /\ pc[s] = "shrinkRecheck" /\ hi2[s] < clim2 => NewLimit(s) <= hi2[s]
  BY <1>0, <1>1, <1>2, <1>3, <1>4 DEF ShrinkLayout
<1>6. ASSUME NEW s \in PendingShrinks', NEW u \in PendingShrinks'
      PROVE  s = u \/ hi2[s] + arg[s] <= hi2[u] \/ hi2[u] + arg[u] <= hi2[s]
  BY <1>0, <1>1, <1>2, <1>3 DEF ShrinkLayout
<1>7. ASSUME NEW x \in (limit + amount)..(settled + amount - 1)
      PROVE  \E s \in PendingShrinks' : hi2[s] <= x /\ x < hi2[s] + arg[s]
  <2>1. x - amount \in limit..(settled - 1) /\ x \in Nat
    BY <1>2
  <2>2. PICK s \in PendingShrinks : hi[s] <= x - amount /\ x - amount < hi[s] + arg[s]
    BY <2>1 DEF ShrinkLayout
  <2> QED BY <2>1, <2>2, <1>0, <1>1, <1>2, <1>3
<1>8. clim2 \in (limit + amount)..(settled + amount) /\ clim <= clim2
  BY <1>0, <1>2, <1>3
<1>9. hi2 \in [PendingShrinks' -> 0..(settled + amount)]
  BY <1>0, <1>5
<1> QED
  <2>1. ShrinkLayout(hi2, clim2)'
    BY <1>1, <1>2, <1>4, <1>5, <1>6, <1>7, <1>8, <1>9 DEF ShrinkLayout
  <2> QED BY <2>1, <1>2, <1>8

-------------------------------------------------------------------------------
(***************************************************************************)
(* The inductive invariant                                                 *)
(***************************************************************************)

\* Two layouts with cov <= clim make the next state's LayoutExists.
LEMMA LayoutIntro ==
    ASSUME TypeOK',
           NEW cov, NEW clim, cov <= clim,
           \E lo : ChargeLayout(lo, cov)',
           \E hi : ShrinkLayout(hi, clim)'
    PROVE  LayoutExists' /\ limit' <= settled'
<1>1. PICK lo : ChargeLayout(lo, cov)'
  OBVIOUS
<1>2. PICK hi : ShrinkLayout(hi, clim)'
  OBVIOUS
<1>3. /\ cov \in 0..GrowBound /\ clim \in 0..GrowBound
      /\ limit' <= settled'
      /\ lo \in [PendingCharges' -> 0..spent']
      /\ hi \in [PendingShrinks' -> 0..settled']
  BY <1>1, <1>2, ConstantsAssumption DEF ChargeLayout, ShrinkLayout, TypeOK
<1> QED BY <1>1, <1>2, <1>3 DEF LayoutExists

\* What every action but the swaps, the undos, the second checks that pass and
\* the grows leaves to the layouts.
QuietStep ==
    /\ UNCHANGED <<spent, limit, accepted, settled>>
    /\ PendingCharges' = PendingCharges
    /\ PendingShrinks' = PendingShrinks
    /\ \A t \in PendingCharges \cup PendingShrinks :
         /\ arg'[t] = arg[t]
         /\ seen'[t] = seen[t]
         /\ pc'[t] = "chargeRecheck" => pc[t] = "chargeRecheck"
         /\ pc'[t] = "shrinkRecheck" => pc[t] = "shrinkRecheck"

\* A quiet step carries the whole layout over, cov and clim included.
LEMMA QuietLayout ==
    ASSUME IInv, TypeOK', QuietStep
    PROVE  LayoutExists' /\ limit' <= settled'
<1>1. PICK cov, clim :
        /\ cov <= clim
        /\ \E lo : ChargeLayout(lo, cov)
        /\ \E hi : ShrinkLayout(hi, clim)
  BY DEF IInv, LayoutExists
<1>2. \E lo : ChargeLayout(lo, cov)'
  BY <1>1, ChargeLayoutFrame DEF QuietStep
<1>3. \E hi : ShrinkLayout(hi, clim)'
  BY <1>1, ShrinkLayoutFrame DEF QuietStep
<1> QED BY <1>1, <1>2, <1>3, LayoutIntro

\* The accesses of a call that write neither atomic are quiet.
LEMMA QuietActions ==
    ASSUME IInv, NEW t \in Threads,
           \/ \E cost \in Costs : StartCharge(t, cost)
           \/ ChargeLoad(t) \/ ChargeRefuse(t) \/ ChargeFits(t)
           \/ ChargeRetry(t) \/ ChargeOverrun(t)
           \/ \E amount \in ShrinkAmounts : StartShrink(t, amount)
           \/ ShrinkLoad(t) \/ ShrinkRefuse(t) \/ ShrinkFits(t)
           \/ ShrinkRetry(t) \/ ShrinkOverrun(t)
           \/ ShrinkReport(t) \/ ShrinkReturn(t)
    PROVE  IInv'
<1>1. TypeOK' /\ CallsFit'
  <2> USE ConstantsAssumption DEF TypeOK, CallsFit, IInv, Return, Goto, PCs, Returned
  <2>1. ASSUME NEW cost \in Costs, StartCharge(t, cost) PROVE TypeOK' /\ CallsFit'
    BY <2>1 DEF StartCharge
  <2>2. CASE ChargeLoad(t)
    BY <2>2 DEF ChargeLoad
  <2>3. CASE ChargeRefuse(t)
    BY <2>3 DEF ChargeRefuse
  <2>4. CASE ChargeFits(t)
    BY <2>4, NoWrapAssumption DEF ChargeFits, NewTotal, SaturatingAdd
  <2>5. CASE ChargeRetry(t)
    BY <2>5 DEF ChargeRetry
  <2>6. CASE ChargeOverrun(t)
    BY <2>6 DEF ChargeOverrun
  <2>7. ASSUME NEW amount \in ShrinkAmounts, StartShrink(t, amount) PROVE TypeOK' /\ CallsFit'
    BY <2>7 DEF StartShrink
  <2>8. CASE ShrinkLoad(t)
    BY <2>8 DEF ShrinkLoad
  <2>9. CASE ShrinkRefuse(t)
    BY <2>9 DEF ShrinkRefuse, SaturatingSub
  <2>10. CASE ShrinkFits(t)
    BY <2>10 DEF ShrinkFits, SaturatingSub
  <2>11. CASE ShrinkRetry(t)
    BY <2>11 DEF ShrinkRetry
  <2>12. CASE ShrinkOverrun(t)
    BY <2>12 DEF ShrinkOverrun
  <2>13. CASE ShrinkReport(t)
    BY <2>13 DEF ShrinkReport
  <2>14. CASE ShrinkReturn(t)
    BY <2>14 DEF ShrinkReturn, SaturatingSub
  <2> QED BY <2>1, <2>2, <2>3, <2>4, <2>5, <2>6, <2>7, <2>8, <2>9, <2>10,
             <2>11, <2>12, <2>13, <2>14
<1>2. QuietStep
  BY DEF QuietStep, PendingCharges, PendingShrinks, IInv, TypeOK, Return, Goto, Returned,
         StartCharge, ChargeLoad, ChargeRefuse, ChargeFits, ChargeRetry, ChargeOverrun,
         StartShrink, ShrinkLoad, ShrinkRefuse, ShrinkFits, ShrinkRetry,
         ShrinkOverrun, ShrinkReport, ShrinkReturn
<1> QED BY <1>1, <1>2, QuietLayout DEF IInv

\* What every use of LayoutExists needs: the two marks with cov <= clim and a
\* layout on each side of them.
LEMMA LayoutMarks ==
    ASSUME IInv
    PROVE  \E cov, clim : /\ cov <= clim
                          /\ \E lo : ChargeLayout(lo, cov)
                          /\ \E hi : ShrinkLayout(hi, clim)
                          /\ cov \in Nat /\ clim \in Nat
<1>1. PICK cov \in 0..GrowBound, clim \in 0..GrowBound :
        /\ cov <= clim
        /\ \E lo : ChargeLayout(lo, cov)
        /\ \E hi : ShrinkLayout(hi, clim)
  BY DEF IInv, LayoutExists
<1>2. cov \in Nat /\ clim \in Nat
  BY ConstantsAssumption
<1> QED BY <1>1, <1>2

\* Each of the seven actions that move an interval preserves the invariant.
\* ChargeSwap writes an interval that fitted under a limit the charge has seen.
LEMMA ChargeSwapPreserves ==
    ASSUME IInv, NEW t \in Threads, ChargeSwap(t) PROVE IInv'
<1>1. PICK cov, clim :
        /\ cov <= clim
        /\ \E lo : ChargeLayout(lo, cov)
        /\ \E hi : ShrinkLayout(hi, clim)
  BY DEF IInv, LayoutExists
<1>2. \E lo : ChargeLayout(lo, cov)'
  BY <1>1, ChargeSwapLayout
<1>3. \E hi : ShrinkLayout(hi, clim)'
  BY <1>1, ShrinkLayoutFrame DEF ChargeSwap, Goto, PendingShrinks, IInv, TypeOK
<1>4. TypeOK' /\ CallsFit'
  BY ConstantsAssumption DEF ChargeSwap, Goto, TypeOK, CallsFit, IInv, PCs, NewTotal, SaturatingAdd
<1> QED BY <1>1, <1>2, <1>3, <1>4, LayoutIntro DEF IInv

\* ChargeAccept: the recheck of limit_nanos keeps cov <= clim.
LEMMA ChargeAcceptPreserves ==
    ASSUME IInv, NEW t \in Threads, ChargeAccept(t) PROVE IInv'
<1>1. PICK cov, clim :
        /\ cov <= clim
        /\ \E lo : ChargeLayout(lo, cov)
        /\ \E hi : ShrinkLayout(hi, clim)
        /\ cov \in Nat /\ clim \in Nat
  BY LayoutMarks
<1>2. \E hi : ShrinkLayout(hi, clim)'
  BY <1>1, ShrinkLayoutFrame DEF ChargeAccept, Return, PendingShrinks, IInv, TypeOK
<1>3. PICK lo2, cov2 : ChargeLayout(lo2, cov2)' /\ (cov2 <= cov \/ cov2 <= limit)
  BY <1>1, ChargeAcceptLayout
<1>4. TypeOK' /\ CallsFit'
  BY ConstantsAssumption DEF ChargeAccept, Return, TypeOK, CallsFit, IInv, PCs, Returned
<1>5. limit <= clim /\ limit \in Nat
  BY <1>1 DEF ShrinkLayout, IInv, TypeOK
<1>6. cov2 <= clim
  <2>1. cov2 \in Int
    BY <1>3, <1>4 DEF ChargeLayout, TypeOK
  <2> QED BY <2>1, <1>1, <1>3, <1>5
<1> QED BY <1>2, <1>3, <1>4, <1>6, LayoutIntro DEF IInv

\* ChargeUndo: fetch_sub takes back exactly the charge's own interval.
LEMMA ChargeUndoPreserves ==
    ASSUME IInv, NEW t \in Threads, ChargeUndo(t) PROVE IInv'
<1>1. PICK cov, clim :
        /\ cov <= clim
        /\ \E lo : ChargeLayout(lo, cov)
        /\ \E hi : ShrinkLayout(hi, clim)
        /\ cov \in Nat /\ clim \in Nat
  BY LayoutMarks
<1>2. \E hi : ShrinkLayout(hi, clim)'
  BY <1>1, ShrinkLayoutFrame DEF ChargeUndo, Return, PendingShrinks, IInv, TypeOK
<1>3. PICK lo2, cov2 : ChargeLayout(lo2, cov2)' /\ cov2 <= cov
  BY <1>1, ChargeUndoLayout
<1>4. TypeOK' /\ CallsFit'
  BY ConstantsAssumption DEF ChargeUndo, Return, FetchSub, TypeOK, CallsFit, IInv, PCs, Returned
<1>5. cov2 <= clim
  <2>1. cov2 \in Int
    BY <1>3, <1>4 DEF ChargeLayout, TypeOK
  <2> QED BY <2>1, <1>1, <1>3
<1> QED BY <1>2, <1>3, <1>4, <1>5, LayoutIntro DEF IInv

\* ShrinkSwap takes an interval off the top of limit_nanos.
LEMMA ShrinkSwapPreserves ==
    ASSUME IInv, NEW t \in Threads, ShrinkSwap(t) PROVE IInv'
<1>1. PICK cov, clim :
        /\ cov <= clim
        /\ \E lo : ChargeLayout(lo, cov)
        /\ \E hi : ShrinkLayout(hi, clim)
  BY DEF IInv, LayoutExists
<1>2. \E lo : ChargeLayout(lo, cov)'
  BY <1>1, ChargeLayoutFrame DEF ShrinkSwap, Goto, PendingCharges, IInv, TypeOK
<1>3. \E hi : ShrinkLayout(hi, clim)'
  BY <1>1, ShrinkSwapLayout
<1>4. TypeOK' /\ CallsFit'
  BY ConstantsAssumption DEF ShrinkSwap, Goto, TypeOK, CallsFit, IInv, PCs, NewLimit
<1> QED BY <1>1, <1>2, <1>3, <1>4, LayoutIntro DEF IInv

\* ShrinkAccept: the recheck of spent_nanos keeps cov <= clim.
LEMMA ShrinkAcceptPreserves ==
    ASSUME IInv, NEW t \in Threads, ShrinkAccept(t) PROVE IInv'
<1>1. PICK cov, clim :
        /\ cov <= clim
        /\ \E lo : ChargeLayout(lo, cov)
        /\ \E hi : ShrinkLayout(hi, clim)
        /\ cov \in Nat /\ clim \in Nat
  BY LayoutMarks
<1>2. \E lo : ChargeLayout(lo, cov)'
  BY <1>1, ChargeLayoutFrame DEF ShrinkAccept, Return, PendingCharges, IInv, TypeOK
<1>3. PICK hi2, clim2 : ShrinkLayout(hi2, clim2)' /\ (clim <= clim2 \/ spent <= clim2)
  BY <1>1, ShrinkAcceptLayout
<1>4. /\ limit' = limit /\ settled' = settled - arg[t]
      /\ limit \in Nat /\ settled \in Nat /\ settled <= GrowBound /\ arg[t] \in Nat
      /\ GrowBound \in Nat
  BY ConstantsAssumption DEF ShrinkAccept, IInv, TypeOK
<1>5. clim2 \in limit..(settled - arg[t])
  BY <1>3, <1>4 DEF ShrinkLayout
<1>6. settled' \in 0..GrowBound
  BY <1>4, <1>5
<1>7. TypeOK' /\ CallsFit'
  BY <1>6, ConstantsAssumption DEF ShrinkAccept, Return, TypeOK, CallsFit, IInv, PCs, Returned
<1>8. cov <= clim2
  <2>1. cov <= spent /\ spent \in Nat
    BY <1>1 DEF ChargeLayout, IInv, TypeOK
  <2> QED BY <2>1, <1>1, <1>3, <1>4, <1>5
<1> QED BY <1>2, <1>3, <1>7, <1>8, LayoutIntro DEF IInv

\* ShrinkUndo: fetch_add gives back exactly the shrink's own interval and does
\* not wrap.
LEMMA ShrinkUndoPreserves ==
    ASSUME IInv, NEW t \in Threads, ShrinkUndo(t) PROVE IInv'
<1>1. PICK cov, clim :
        /\ cov <= clim
        /\ \E lo : ChargeLayout(lo, cov)
        /\ \E hi : ShrinkLayout(hi, clim)
        /\ cov \in Nat /\ clim \in Nat
  BY LayoutMarks
<1>2. \E lo : ChargeLayout(lo, cov)'
  BY <1>1, ChargeLayoutFrame DEF ShrinkUndo, Return, PendingCharges, IInv, TypeOK
<1>3. /\ limit' = limit + arg[t] /\ limit + arg[t] <= settled
      /\ \E hi2, clim2 : ShrinkLayout(hi2, clim2)' /\ clim <= clim2
  BY <1>1, ShrinkUndoLayout
<1>4. PICK hi2, clim2 : ShrinkLayout(hi2, clim2)' /\ clim <= clim2
  BY <1>3
<1>5. limit' \in 0..MaxNanos
  BY <1>3, ConstantsAssumption, NoWrapAssumption DEF IInv, TypeOK
<1>6. TypeOK' /\ CallsFit'
  BY <1>5, ConstantsAssumption DEF ShrinkUndo, Return, TypeOK, CallsFit, IInv, PCs, Returned
<1>7. cov <= clim2
  <2>1. clim2 \in Int
    BY <1>4, <1>6 DEF ShrinkLayout, TypeOK
  <2> QED BY <2>1, <1>1, <1>4
<1> QED BY <1>2, <1>4, <1>6, <1>7, LayoutIntro DEF IInv

\* Grow lifts limit_nanos and settled alike; it does not wrap below GrowBound.
LEMMA GrowPreserves ==
    ASSUME IInv, NEW t \in Threads, NEW amount \in GrowAmounts, Grow(t, amount)
    PROVE  IInv'
<1>1. PICK cov, clim :
        /\ cov <= clim
        /\ \E lo : ChargeLayout(lo, cov)
        /\ \E hi : ShrinkLayout(hi, clim)
        /\ cov \in Nat /\ clim \in Nat
  BY LayoutMarks
<1>2. \E lo : ChargeLayout(lo, cov)'
  BY <1>1, ChargeLayoutFrame DEF Grow, Return, Returned, PendingCharges, IInv, TypeOK
<1>3. /\ limit' = limit + amount
      /\ \E hi2, clim2 : ShrinkLayout(hi2, clim2)' /\ clim <= clim2
  BY <1>1, GrowLayout
<1>4. PICK hi2, clim2 : ShrinkLayout(hi2, clim2)' /\ clim <= clim2
  BY <1>3
<1>5. limit' \in 0..MaxNanos /\ settled' \in 0..GrowBound
  BY <1>3, ConstantsAssumption, NoWrapAssumption DEF Grow, IInv, TypeOK
<1>6. TypeOK' /\ CallsFit'
  BY <1>5, ConstantsAssumption DEF Grow, Return, TypeOK, CallsFit, IInv, PCs, Returned
<1>7. cov <= clim2
  <2>1. clim2 \in Int
    BY <1>4, <1>6 DEF ShrinkLayout, TypeOK
  <2> QED BY <2>1, <1>1, <1>4
<1> QED BY <1>2, <1>4, <1>6, <1>7, LayoutIntro DEF IInv

\* A new budget has no call in progress and the empty layout.
LEMMA InitIInv == Init => IInv
<1> SUFFICES ASSUME Init PROVE IInv
  OBVIOUS
<1>1. TypeOK /\ CallsFit /\ limit <= settled
  BY ConstantsAssumption DEF Init, TypeOK, CallsFit, PCs, Returned
<1>2. PendingCharges = {} /\ PendingShrinks = {}
  BY DEF Init, PendingCharges, PendingShrinks
<1>3. \E lo \in [PendingCharges -> 0..spent] : ChargeLayout(lo, 0)
  <2>1. PICK lo : lo = [c \in PendingCharges |-> 0]
    OBVIOUS
  <2>2. ChargeLayout(lo, 0)
    BY <2>1, <1>2 DEF ChargeLayout, Init
  <2> QED BY <2>2 DEF ChargeLayout
<1>4. \E hi \in [PendingShrinks -> 0..settled] : ShrinkLayout(hi, settled)
  <2>1. PICK hi : hi = [s \in PendingShrinks |-> 0]
    OBVIOUS
  <2>2. ShrinkLayout(hi, settled)
    BY <2>1, <1>1, <1>2, ConstantsAssumption DEF ShrinkLayout, Init, TypeOK
  <2> QED BY <2>2 DEF ShrinkLayout
<1>5. 0 <= settled /\ settled \in 0..GrowBound /\ 0 \in 0..GrowBound
  BY <1>1, ConstantsAssumption DEF TypeOK
<1>6. LayoutExists
  BY <1>3, <1>4, <1>5 DEF LayoutExists
<1> QED BY <1>1, <1>6 DEF IInv

\* A step of the environment changes nothing the invariant is about.
LEMMA StutterIInv == IInv /\ UNCHANGED vars => IInv'
<1> SUFFICES ASSUME IInv, UNCHANGED vars PROVE IInv'
  OBVIOUS
<1>1. TypeOK' /\ CallsFit'
  BY DEF vars, IInv, TypeOK, CallsFit
<1>2. QuietStep
  BY DEF QuietStep, vars, PendingCharges, PendingShrinks
<1> QED BY <1>1, <1>2, QuietLayout DEF IInv

\* The invariant is inductive: one case per action.
LEMMA NextIInv == IInv /\ [Next]_vars => IInv'
<1> SUFFICES ASSUME IInv, [Next]_vars PROVE IInv'
  OBVIOUS
<1>1. CASE UNCHANGED vars
  BY <1>1, StutterIInv
<1>2. ASSUME NEW t \in Threads, Start(t) \/ Charging(t) \/ Shrinking(t)
      PROVE  IInv'
  <2>1. CASE Start(t)
    BY <2>1, QuietActions, GrowPreserves DEF Start
  <2>2. CASE Charging(t)
    BY <2>2, QuietActions, ChargeSwapPreserves, ChargeAcceptPreserves,
       ChargeUndoPreserves DEF Charging
  <2>3. CASE Shrinking(t)
    BY <2>3, QuietActions, ShrinkSwapPreserves, ShrinkAcceptPreserves,
       ShrinkUndoPreserves DEF Shrinking
  <2> QED BY <1>2, <2>1, <2>2, <2>3
<1> QED BY <1>1, <1>2 DEF Next

-------------------------------------------------------------------------------
(***************************************************************************)
(* What the invariant gives                                                *)
(***************************************************************************)

\* The invariant holds in every reachable state of every instance.
THEOREM InvariantHolds == Spec => []IInv
<1>1. Init => IInv
  BY InitIInv
<1>2. IInv /\ [Next]_vars => IInv'
  BY NextIInv
<1> QED BY <1>1, <1>2, PTL DEF Spec

\* Type correctness: both atomics and every snapshot stay within u64.
THEOREM TypeCorrect == Spec => []TypeOK
<1>1. IInv => TypeOK
  BY DEF IInv
<1> QED BY <1>1, InvariantHolds, PTL

\* accepted <= cov <= clim <= settled.
LEMMA IInvNeverOverspent == IInv => NeverOverspent
BY ConstantsAssumption DEF IInv, LayoutExists, ChargeLayout, ShrinkLayout, TypeOK, NeverOverspent

\* The hard cap: the accepted charges never add up to more than the limit that
\* the finished shrinks and grows left.
THEOREM HardCapHolds == Spec => []NeverOverspent
BY IInvNeverOverspent, InvariantHolds, PTL

\* With no pending call there is no interval left to tile [accepted, spent) or
\* [limit, settled), so both are empty.
LEMMA IInvLedger == IInv => Ledger
<1> SUFFICES ASSUME IInv, PendingCharges = {}, PendingShrinks = {}
             PROVE  spent = accepted /\ limit = settled
  BY DEF Ledger
<1>1. PICK lo, cov : ChargeLayout(lo, cov)
  BY DEF IInv, LayoutExists
<1>2. PICK hi, clim : ShrinkLayout(hi, clim)
  BY DEF IInv, LayoutExists
<1>3. /\ spent \in Nat /\ accepted \in Nat /\ limit \in Nat /\ settled \in Nat
      /\ accepted <= spent /\ limit <= settled
  BY <1>1, <1>2 DEF ChargeLayout, ShrinkLayout, IInv, TypeOK
<1>4. accepted \in accepted..(spent - 1) => FALSE
  BY <1>1 DEF ChargeLayout
<1>5. limit \in limit..(settled - 1) => FALSE
  BY <1>2 DEF ShrinkLayout
<1> QED BY <1>3, <1>4, <1>5

\* The counters are exact whenever no call is between its swap and its return.
THEOREM LedgerHolds == Spec => []Ledger
BY IInvLedger, InvariantHolds, PTL

\* A pending call's interval lies within spent_nanos, or between limit_nanos and
\* settled, so taking it back cannot wrap.
LEMMA IInvUndoNeverWraps == IInv => UndoNeverWraps
<1> SUFFICES ASSUME IInv, NEW t \in Threads
             PROVE  /\ pc[t] = "chargeUndo" => arg[t] <= spent
                    /\ pc[t] = "shrinkUndo" => limit + arg[t] <= MaxNanos
  BY DEF UndoNeverWraps
<1>1. ASSUME pc[t] = "chargeUndo" PROVE arg[t] <= spent
  <2>1. PICK lo, cov : ChargeLayout(lo, cov)
    BY DEF IInv, LayoutExists
  <2>2. t \in PendingCharges
    BY <1>1 DEF PendingCharges
  <2> QED BY <2>1, <2>2 DEF ChargeLayout, IInv, TypeOK
<1>2. ASSUME pc[t] = "shrinkUndo" PROVE limit + arg[t] <= MaxNanos
  <2>1. PICK hi, clim : ShrinkLayout(hi, clim)
    BY DEF IInv, LayoutExists
  <2>2. t \in PendingShrinks
    BY <1>2 DEF PendingShrinks
  <2>3. hi[t] \in Nat /\ limit <= hi[t] /\ hi[t] + arg[t] <= settled
    BY <2>1, <2>2 DEF ShrinkLayout, IInv, TypeOK
  <2> QED BY <2>3, ConstantsAssumption, NoWrapAssumption DEF IInv, TypeOK
<1> QED BY <1>1, <1>2

\* No undo wraps, for any number of threads.
THEOREM UndoSafe == Spec => []UndoNeverWraps
BY IInvUndoNeverWraps, InvariantHolds, PTL

\* Every step of AtomicBudget is a step of HardCap or leaves accepted and
\* settled alone: a charge or shrink takes effect at the second check that
\* passes, a grow at its fetch_add, everything else is invisible.
LEMMA StepRefines ==
    ASSUME IInv, IInv', [Next]_vars
    PROVE  [HC!Next]_(HC!vars)
<1> USE DEF HC!vars, HC!Next
<1>0. /\ NeverOverspent'
      /\ accepted \in Nat /\ settled \in Nat
      /\ \A t \in Threads : arg[t] \in Nat
  <2>1. NeverOverspent'
    BY ConstantsAssumption DEF IInv, LayoutExists, ChargeLayout, ShrinkLayout, TypeOK,
       NeverOverspent
  <2> QED BY <2>1 DEF IInv, TypeOK
<1>1. CASE UNCHANGED <<accepted, settled>>
  BY <1>1
<1>2. ASSUME NEW t \in Threads, ChargeAccept(t) PROVE [HC!Next]_(HC!vars)
  BY <1>0, <1>2 DEF ChargeAccept, HC!Accept, IInv, CallsFit, NeverOverspent
<1>3. ASSUME NEW t \in Threads, ShrinkAccept(t) PROVE [HC!Next]_(HC!vars)
  BY <1>0, <1>3 DEF ShrinkAccept, HC!Lower, IInv, CallsFit, NeverOverspent
<1>4. ASSUME NEW t \in Threads, NEW amount \in GrowAmounts, Grow(t, amount)
      PROVE  [HC!Next]_(HC!vars)
  BY <1>4 DEF Grow, HC!Raise
<1>5. ASSUME NEW t \in Threads, Start(t) \/ Charging(t) \/ Shrinking(t)
      PROVE  [HC!Next]_(HC!vars)
  <2>1. CASE Start(t)
    BY <2>1, <1>1, <1>4 DEF Start, StartCharge, StartShrink
  <2>2. CASE Charging(t)
    BY <2>2, <1>1, <1>2 DEF Charging, ChargeLoad, ChargeRefuse, ChargeFits, ChargeSwap,
       ChargeRetry, ChargeOverrun, ChargeUndo
  <2>3. CASE Shrinking(t)
    BY <2>3, <1>1, <1>3 DEF Shrinking, ShrinkLoad, ShrinkRefuse, ShrinkFits, ShrinkSwap,
       ShrinkRetry, ShrinkOverrun, ShrinkUndo, ShrinkReport, ShrinkReturn
  <2> QED BY <1>5, <2>1, <2>2, <2>3
<1> QED BY <1>1, <1>5 DEF Next, vars

\* AtomicBudget implements HardCap: under every interleaving its callers see one
\* number under one cap.
THEOREM Refinement == Spec => ImplementsHardCap
<1>1. Init => HC!Init
  BY DEF Init, HC!Init
<1>2. IInv /\ IInv' /\ [Next]_vars => [HC!Next]_(HC!vars)
  BY StepRefines
<1> QED BY <1>1, <1>2, InvariantHolds, PTL DEF Spec, HC!Spec, ImplementsHardCap
-------------------------------------------------------------------------------
(***************************************************************************)
(* BudgetReaders.  Its threads take the steps of AtomicBudget, so that     *)
(* IInv holds of it as well.  What a caller or reader is told rests on the *)
(* first value it saw and on which way the other value can have moved      *)
(* since.                                                                  *)
(***************************************************************************)
Readings == [next : {"spent", "limit", "cap", "used"}, spent : Nat, limit : Nat, torn : BOOLEAN]
Reports == [due : BOOLEAN, spent : Nat, limit : Nat]

ReadersTypeOK ==
    /\ reading \in [Readers -> Readings]
    /\ report \in [Threads -> Reports]
    /\ most \in [Readers -> Nat]
    /\ raised \in [Readers -> BOOLEAN]
    /\ eased \in [Threads -> BOOLEAN]

\* Until the limit is raised, what a reader loaded bounds what is there: the
\* remainder, and the limit.
ReadingInv ==
    \A r \in Readers : ~raised[r] =>
        /\ reading[r].next = "limit" => SaturatingSub(limit, reading[r].spent) <= most[r]
        /\ reading[r].next = "used" => limit <= reading[r].limit

\* Until the limit is raised, what turned a charge down still does.
RefusalInv ==
    \A t \in Threads :
        /\ report[t].due => pc[t] = "refused"
        /\ pc[t] = "chargeUndo" /\ ~eased[t] => NewTotal(t) > limit
        /\ report[t].due /\ ~eased[t] => SaturatingAdd(report[t].spent, arg[t]) > limit

\* Until the limit is raised or spend is taken back, what turned a shrink down
\* still does: there is no spend to spare at its new limit, nor the amount once
\* the limit has been put back.
ShortfallInv ==
    \A t \in Threads : ~eased[t] =>
        /\ pc[t] = "shrinkRecheck" => limit <= NewLimit(t)
        /\ pc[t] = "shrinkUndo" => limit < spent
        /\ pc[t] = "shrinkReport" => \/ SaturatingSub(limit, spent) < arg[t]
                                     \/ SaturatingSub(limit, spent) = 0
        /\ pc[t] = "shrinkReturn" => \/ SaturatingSub(seen[t], spent) < arg[t]
                                     \/ SaturatingSub(seen[t], spent) = 0

ReadersInv ==
    /\ IInv
    /\ ReadersTypeOK
    /\ ReadingInv /\ RefusalInv /\ ShortfallInv
    /\ RemainingNotOverstated /\ UtilizationAtMostOne
    /\ RefusalExplained /\ ShortfallReported

\* What a step of AtomicBudget leaves to be told.
LEMMA NumberFacts ==
    ASSUME IInv
    PROVE  /\ spent \in Nat /\ limit \in Nat /\ MaxNanos \in Nat
           /\ spent <= MaxNanos /\ limit <= MaxNanos
           /\ \A t \in Threads : arg[t] \in Nat /\ seen[t] \in Nat
           /\ \A t \in Threads : arg[t] <= MaxNanos /\ seen[t] <= MaxNanos
           /\ \A x, y \in Nat : SaturatingSub(x, y) \in Nat /\ SaturatingAdd(x, y) \in Nat
  BY ConstantsAssumption DEF IInv, TypeOK, SaturatingSub, SaturatingAdd

\* A smaller minuend leaves less.
LEMMA SubMonotone ==
    ASSUME NEW x \in Nat, NEW y \in Nat, NEW z \in Nat, x <= y
    PROVE  SaturatingSub(x, z) <= SaturatingSub(y, z)
  BY DEF SaturatingSub

\* ... and so is a smaller spend.
LEMMA SubAntitone ==
    ASSUME NEW x \in Nat, NEW y \in Nat, NEW z \in Nat, y <= z
    PROVE  SaturatingSub(x, z) <= SaturatingSub(x, y)
  BY DEF SaturatingSub

\* The remainder is a natural number.
LEMMA SubNat == \A x, y \in Nat : SaturatingSub(x, y) \in Nat
  BY DEF SaturatingSub

\* A limit below the spend that goes up by an amount leaves less than the amount,
\* or nothing.
LEMMA SubShort ==
    ASSUME NEW x \in Nat, NEW y \in Nat, NEW a \in Nat, NEW l \in Nat, l < y, x <= l + a
    PROVE  SaturatingSub(x, y) < a \/ SaturatingSub(x, y) = 0
  BY DEF SaturatingSub

\* BudgetStep takes a step of AtomicBudget, every other step leaves it alone.
LEMMA StepOfBudget ==
    ASSUME ReadersInv, [ReadersNext]_allVars
    PROVE  [Next]_vars /\ IInv'
<1>1. CASE ReadersNext
  <2>1. ASSUME NEW t \in Threads, BudgetStep(t)
        PROVE  Next
    BY <2>1 DEF BudgetStep, Next
  <2>2. ASSUME NEW t \in Threads, ReportLimit(t)
        PROVE  UNCHANGED vars
    BY <2>2 DEF ReportLimit
  <2>3. ASSUME NEW r \in Readers, Snapshot(r)
        PROVE  UNCHANGED vars
    BY <2>3 DEF Snapshot, ReadRemaining, ReadUtilization, FirstLoad, SecondLoad
  <2>4. [Next]_vars
    BY <1>1, <2>1, <2>2, <2>3 DEF ReadersNext
  <2> QED
    BY <2>4, NextIInv DEF ReadersInv
<1>2. CASE UNCHANGED allVars
  <2>1. UNCHANGED vars
    BY <1>2 DEF allVars
  <2> QED
    BY <2>1, NextIInv DEF ReadersInv
<1> QED
  BY <1>1, <1>2

\* What a step of thread t of AtomicBudget does to the other threads' calls.
LEMMA OthersKeep ==
    ASSUME IInv, NEW t \in Threads, Start(t) \/ Charging(t) \/ Shrinking(t),
           NEW u \in Threads, u # t
    PROVE  pc'[u] = pc[u] /\ arg'[u] = arg[u] /\ seen'[u] = seen[u]
<1> USE DEF IInv, TypeOK, Return, Goto
<1>1. CASE Start(t)
  BY <1>1 DEF Start, StartCharge, StartShrink, Grow
<1>2. CASE Charging(t)
  BY <1>2 DEF Charging, ChargeLoad, ChargeRefuse, ChargeFits, ChargeSwap, ChargeRetry,
     ChargeAccept, ChargeOverrun, ChargeUndo
<1>3. CASE Shrinking(t)
  BY <1>3 DEF Shrinking, ShrinkLoad, ShrinkRefuse, ShrinkFits, ShrinkSwap, ShrinkRetry,
     ShrinkAccept, ShrinkOverrun, ShrinkUndo, ShrinkReport, ShrinkReturn
<1> QED
  BY <1>1, <1>2, <1>3

\* The steps that bring a charge to its undo or its refusal.
LEMMA RefusingSteps ==
    ASSUME IInv, NEW t \in Threads, Start(t) \/ Charging(t) \/ Shrinking(t)
    PROVE  /\ pc'[t] = "chargeUndo" =>
                NewTotal(t) > limit /\ UNCHANGED <<limit, arg, seen>>
           /\ pc'[t] = "refused" =>
                /\ arg'[t] = arg[t] /\ limit' = limit
                /\ NewTotal(t) > limit \/ pc[t] = "chargeUndo"
<1> USE DEF IInv, TypeOK, Return, Goto
<1>1. CASE Start(t)
  BY <1>1 DEF Start, StartCharge, StartShrink, Grow
<1>2. CASE Charging(t)
  BY <1>2 DEF Charging, ChargeLoad, ChargeRefuse, ChargeFits, ChargeSwap, ChargeRetry,
     ChargeAccept, ChargeOverrun, ChargeUndo
<1>3. CASE Shrinking(t)
  BY <1>3 DEF Shrinking, ShrinkLoad, ShrinkRefuse, ShrinkFits, ShrinkSwap, ShrinkRetry,
     ShrinkAccept, ShrinkOverrun, ShrinkUndo, ShrinkReport, ShrinkReturn
<1> QED
  BY <1>1, <1>2, <1>3

\* The steps of a shrink from its swap to what it returns.
LEMMA ShrinkingSteps ==
    ASSUME IInv, NEW t \in Threads, Start(t) \/ Charging(t) \/ Shrinking(t)
    PROVE  /\ pc'[t] = "shrinkRecheck" => limit' = NewLimit(t) /\ UNCHANGED <<arg, seen>>
           /\ pc'[t] = "shrinkUndo" =>
                /\ pc[t] = "shrinkRecheck" /\ spent > NewLimit(t)
                /\ UNCHANGED <<limit, spent>>
           /\ pc'[t] = "shrinkReport" =>
                /\ pc[t] = "shrinkUndo" /\ arg'[t] = arg[t]
                /\ limit' <= limit + arg[t] /\ UNCHANGED spent
           /\ pc'[t] = "shrinkReturn" =>
                /\ pc[t] = "shrinkReport" /\ arg'[t] = arg[t]
                /\ seen'[t] = limit /\ UNCHANGED spent
           /\ pc'[t] = "kept" =>
                /\ arg'[t] = arg[t]
                /\ \/ seen'[t] < arg[t]
                   \/ pc[t] = "shrinkReturn" /\ seen'[t] = SaturatingSub(seen[t], spent)
<1> USE DEF IInv, TypeOK, Return, Goto
<1>1. CASE Start(t)
  BY <1>1 DEF Start, StartCharge, StartShrink, Grow
<1>2. CASE Charging(t)
  BY <1>2 DEF Charging, ChargeLoad, ChargeRefuse, ChargeFits, ChargeSwap, ChargeRetry,
     ChargeAccept, ChargeOverrun, ChargeUndo
<1>3. CASE Shrinking(t)
  <2>1. limit \in Nat /\ arg[t] \in Nat /\ MaxNanos \in Nat
    BY ConstantsAssumption
  <2>2. FetchAdd(limit, arg[t]) <= limit + arg[t]
    BY <2>1 DEF FetchAdd
  <2> QED
    BY <1>3, <2>2 DEF Shrinking, ShrinkLoad, ShrinkRefuse, ShrinkFits, ShrinkSwap,
       ShrinkRetry, ShrinkAccept, ShrinkOverrun, ShrinkUndo, ShrinkReport, ShrinkReturn
<1> QED
  BY <1>1, <1>2, <1>3

\* What everybody sees of a step of thread t.
LEMMA ObservedStep ==
    ASSUME ReadersInv, NEW t \in Threads, BudgetStep(t)
    PROVE  /\ IInv' /\ limit' \in Nat /\ spent' \in Nat /\ Remaining' \in Nat
           /\ \A r \in Readers :
                /\ most'[r] \in Nat /\ most[r] <= most'[r] /\ Remaining' <= most'[r]
                /\ ~raised'[r] => ~raised[r] /\ limit' <= limit
                /\ reading'[r] = reading[r]
           /\ \A u \in Threads \ {t} :
                /\ report'[u] = report[u]
                /\ pc'[u] = pc[u] /\ arg'[u] = arg[u] /\ seen'[u] = seen[u]
                /\ ~eased'[u] => /\ ~eased[u]
                                 /\ AnsweringCharge(u) => limit' <= limit
                                 /\ AnsweringShrink(u) => limit' <= limit /\ spent' >= spent
<1>1. IInv'
  BY StepOfBudget DEF ReadersNext
<1>2. limit' \in Nat /\ spent' \in Nat /\ limit \in Nat /\ spent \in Nat
  BY <1>1, ConstantsAssumption DEF ReadersInv, IInv, TypeOK
<1>3. Remaining' \in Nat
  <2>1. SaturatingSub(limit', spent') \in Nat
    BY <1>2, SubNat
  <2> QED
    BY <2>1 DEF Remaining
<1> DEFINE left == Remaining'
<1>4. /\ left \in Nat /\ reading' = reading
      /\ most' = [r \in Readers |-> IF left > most[r] THEN left ELSE most[r]]
      /\ raised' = [r \in Readers |-> raised[r] \/ limit' > limit]
  BY <1>3 DEF BudgetStep, Observe
<1> HIDE DEF left
<1>5. \A r \in Readers : most[r] \in Nat
  BY DEF ReadersInv, ReadersTypeOK
<1>6. \A r \in Readers : /\ most'[r] \in Nat /\ most[r] <= most'[r] /\ left <= most'[r]
                         /\ ~raised'[r] => ~raised[r] /\ limit' <= limit
                         /\ reading'[r] = reading[r]
  <2> SUFFICES ASSUME NEW r \in Readers
               PROVE  /\ most'[r] \in Nat /\ most[r] <= most'[r] /\ left <= most'[r]
                      /\ ~raised'[r] => ~raised[r] /\ limit' <= limit
                      /\ reading'[r] = reading[r]
    OBVIOUS
  <2>1. most'[r] = IF left > most[r] THEN left ELSE most[r]
    BY <1>4
  <2>2. most'[r] \in Nat /\ most[r] <= most'[r] /\ left <= most'[r]
    BY <1>4, <1>5, <2>1
  <2>3. raised'[r] = (raised[r] \/ limit' > limit)
    BY <1>4
  <2>4. ~raised'[r] => ~raised[r] /\ limit' <= limit
    <3>1. ~raised'[r] => ~raised[r] /\ ~(limit' > limit)
      BY <2>3, Zenon
    <3> QED
      BY <1>2, <3>1
  <2> QED
    BY <1>4, <2>2, <2>4
<1>7. Start(t) \/ Charging(t) \/ Shrinking(t)
  BY DEF BudgetStep
<1>8. ASSUME NEW u \in Threads \ {t}
      PROVE  /\ report'[u] = report[u]
             /\ pc'[u] = pc[u] /\ arg'[u] = arg[u] /\ seen'[u] = seen[u]
             /\ ~eased'[u] => /\ ~eased[u]
                              /\ AnsweringCharge(u) => limit' <= limit
                              /\ AnsweringShrink(u) => limit' <= limit /\ spent' >= spent
  <2>1. pc'[u] = pc[u] /\ arg'[u] = arg[u] /\ seen'[u] = seen[u]
    BY <1>7, OthersKeep DEF ReadersInv
  <2>2. report'[u] = report[u]
    BY DEF BudgetStep, ReadersInv, ReadersTypeOK
  <2>3. eased'[u] = (\/ eased[u]
                     \/ AnsweringCharge(u) /\ limit' > limit
                     \/ AnsweringShrink(u) /\ (limit' > limit \/ spent' < spent))
    BY DEF BudgetStep, Observe
  <2> QED
    BY <1>2, <2>1, <2>2, <2>3
<1> QED
  BY <1>1, <1>2, <1>3, <1>6, <1>8 DEF left

\* A thread's own step clears what it was told before, unless it is being
\* turned down.
LEMMA OwnStep ==
    ASSUME ReadersInv, NEW t \in Threads, BudgetStep(t)
    PROVE  /\ ~report[t].due
           /\ eased'[t] = (eased[t] /\ (AnsweringCharge(t) \/ AnsweringShrink(t)))
           /\ report'[t] = IF pc'[t] = "refused"
                           THEN [due |-> TRUE, spent |-> seen[t], limit |-> 0] ELSE NoReport
  BY DEF BudgetStep, Observe, ReadersInv, ReadersTypeOK

\* Every variable of the readers keeps its type.
LEMMA ReadersTypeNext ==
    ASSUME ReadersInv, [ReadersNext]_allVars
    PROVE  ReadersTypeOK'
<1>0. /\ limit \in Nat /\ spent \in Nat /\ Remaining \in Nat
      /\ \A t \in Threads : seen[t] \in Nat
  BY NumberFacts DEF ReadersInv, Remaining
<1>1. ASSUME NEW t \in Threads, BudgetStep(t)
      PROVE  ReadersTypeOK'
  <2>1. reading' \in [Readers -> Readings]
    BY <1>1 DEF BudgetStep, ReadersInv, ReadersTypeOK
  <2>2. most' \in [Readers -> Nat]
    <3>1. \A r \in Readers : most'[r] \in Nat
      BY <1>1, ObservedStep
    <3> QED
      BY <1>1, <3>1 DEF BudgetStep, Observe
  <2>3. raised' \in [Readers -> BOOLEAN]
    BY <1>1 DEF BudgetStep, Observe, ReadersInv, ReadersTypeOK
  <2>4. eased' \in [Threads -> BOOLEAN]
    <3>1. \A u \in Threads : eased[u] \in BOOLEAN
      BY DEF ReadersInv, ReadersTypeOK
    <3>2. \A u \in Threads : eased'[u] \in BOOLEAN
      BY <1>1, <3>1 DEF BudgetStep, Observe, AnsweringCharge, AnsweringShrink
    <3> QED
      BY <1>1, <3>2 DEF BudgetStep, Observe
  <2>5. report' \in [Threads -> Reports]
    <3>1. [due |-> TRUE, spent |-> seen[t], limit |-> 0] \in Reports /\ NoReport \in Reports
      BY <1>0 DEF Reports, NoReport
    <3> QED
      BY <1>1, <3>1 DEF BudgetStep, ReadersInv, ReadersTypeOK
  <2> QED
    BY <2>1, <2>2, <2>3, <2>4, <2>5 DEF ReadersTypeOK
<1>2. ASSUME NEW t \in Threads, ReportLimit(t)
      PROVE  ReadersTypeOK'
  <2>1. [[report[t] EXCEPT !.due = FALSE] EXCEPT !.limit = limit] \in Reports
    BY <1>0 DEF ReadersInv, ReadersTypeOK, Reports
  <2>2. report' = [report EXCEPT ![t] = [report[t] EXCEPT !.due = FALSE, !.limit = limit]]
    BY <1>2 DEF ReportLimit
  <2> QED
    BY <1>2, <2>1, <2>2 DEF ReportLimit, observed, ReadersInv, ReadersTypeOK
<1>3. ASSUME NEW r \in Readers, NEW got \in Readings, FirstLoad(r, got)
      PROVE  ReadersTypeOK'
  BY <1>0, <1>3 DEF FirstLoad, ReadersInv, ReadersTypeOK
<1>4. ASSUME NEW r \in Readers, NEW got \in Readings, SecondLoad(r, got)
      PROVE  ReadersTypeOK'
  BY <1>4 DEF SecondLoad, observed, ReadersInv, ReadersTypeOK
<1>5. ASSUME NEW r \in Readers, Snapshot(r)
      PROVE  ReadersTypeOK'
  <2>1. reading[r] \in Readings /\ NoReading \in Readings
    BY DEF ReadersInv, ReadersTypeOK, NoReading, Readings
  <2>2. /\ [NoReading EXCEPT !.spent = spent, !.next = "limit"] \in Readings
        /\ [reading[r] EXCEPT !.limit = limit, !.next = "cap"] \in Readings
        /\ [NoReading EXCEPT !.limit = limit,
                             !.next = IF limit = 0 THEN "spent" ELSE "used"] \in Readings
        /\ [reading[r] EXCEPT !.spent = spent, !.next = "spent",
               !.torn = PendingCharges \cup PendingShrinks # {}] \in Readings
    BY <1>0, <2>1 DEF Readings
  <2> QED
    BY <1>3, <1>4, <1>5, <2>2 DEF Snapshot, ReadRemaining, ReadUtilization
<1>6. CASE UNCHANGED allVars
  BY <1>6 DEF allVars, observed, ReadersInv, ReadersTypeOK
<1> QED
  BY <1>1, <1>2, <1>5, <1>6 DEF ReadersNext

\* What the reports of a reader say of the budget.
Readable == ReadingInv /\ RemainingNotOverstated /\ UtilizationAtMostOne

\* With nothing pending the spend is within the limit.
LEMMA QuietWithin == IInv /\ PendingCharges \cup PendingShrinks = {} => spent <= limit
<1> SUFFICES ASSUME IInv, PendingCharges \cup PendingShrinks = {}
             PROVE  spent <= limit
  OBVIOUS
<1>1. spent = accepted /\ limit = settled
  BY IInvLedger DEF Ledger
<1>2. accepted <= settled
  BY IInvNeverOverspent DEF NeverOverspent
<1> QED
  BY <1>1, <1>2

\* The reports of a reader stay true until its next pair of loads.
LEMMA ReadableNext ==
    ASSUME ReadersInv, [ReadersNext]_allVars
    PROVE  Readable'
<1> USE DEF Readable
<1>0. /\ limit \in Nat /\ spent \in Nat /\ Remaining \in Nat
      /\ \A r \in Readers : /\ reading[r] \in Readings /\ most[r] \in Nat
                            /\ reading[r].spent \in Nat /\ reading[r].limit \in Nat
  <2>1. \A r \in Readers : reading[r] \in Readings /\ most[r] \in Nat
    BY DEF ReadersInv, ReadersTypeOK
  <2> QED
    BY <2>1, NumberFacts DEF ReadersInv, Remaining, Readings
<1>1. ASSUME NEW t \in Threads, BudgetStep(t)
      PROVE  Readable'
  <2>1. \A r \in Readers : /\ most'[r] \in Nat /\ most[r] <= most'[r]
                           /\ ~raised'[r] => ~raised[r] /\ limit' <= limit
                           /\ reading'[r] = reading[r]
    BY <1>1, ObservedStep
  <2>2. limit' \in Nat
    BY <1>1, ObservedStep
  <2>3. ASSUME NEW r \in Readers, ~raised'[r], reading'[r].next = "limit"
        PROVE  SaturatingSub(limit', reading'[r].spent) <= most'[r]
    <3>1. SaturatingSub(limit, reading[r].spent) <= most[r] /\ limit' <= limit
      BY <2>1, <2>3 DEF ReadersInv, ReadingInv
    <3>2. SaturatingSub(limit', reading[r].spent) <= SaturatingSub(limit, reading[r].spent)
      BY <1>0, <2>2, <3>1, SubMonotone
    <3>3. /\ SaturatingSub(limit', reading[r].spent) \in Nat
          /\ SaturatingSub(limit, reading[r].spent) \in Nat
      BY <1>0, <2>2 DEF SaturatingSub
    <3> QED
      BY <1>0, <2>1, <3>1, <3>2, <3>3
  <2>4. \A r \in Readers : ~raised'[r] /\ reading'[r].next = "used" => limit' <= reading'[r].limit
    BY <1>0, <2>1, <2>2 DEF ReadersInv, ReadingInv
  <2>5. RemainingNotOverstated'
    <3>1. ASSUME NEW r \in Readers, reading'[r].next = "cap", ~raised'[r]
          PROVE  SaturatingSub(reading'[r].limit, reading'[r].spent) <= most'[r]
      <4>1. SaturatingSub(reading[r].limit, reading[r].spent) <= most[r]
        BY <2>1, <3>1 DEF ReadersInv, RemainingNotOverstated
      <4>2. SaturatingSub(reading[r].limit, reading[r].spent) \in Nat
        BY <1>0 DEF SaturatingSub
      <4> QED
        BY <1>0, <2>1, <4>1, <4>2
    <3> QED
      BY <3>1 DEF RemainingNotOverstated
  <2>6. UtilizationAtMostOne'
    BY <2>1 DEF ReadersInv, UtilizationAtMostOne
  <2> QED
    BY <2>3, <2>4, <2>5, <2>6 DEF ReadingInv
<1>2. ASSUME NEW t \in Threads, ReportLimit(t)
      PROVE  Readable'
  <2>1. UNCHANGED <<reading, limit, most, raised>>
    BY <1>2 DEF ReportLimit, vars, observed
  <2> QED
    BY <2>1 DEF ReadersInv, ReadingInv, RemainingNotOverstated, UtilizationAtMostOne
<1>3. ASSUME NEW r \in Readers, Snapshot(r)
      PROVE  Readable'
  <2>1. limit' = limit /\ spent' = spent
    BY <1>3 DEF Snapshot, ReadRemaining, ReadUtilization, FirstLoad, SecondLoad, vars
  <2>2. \A u \in Readers \ {r} : /\ reading'[u] = reading[u] /\ most'[u] = most[u]
                                 /\ raised'[u] = raised[u]
    BY <1>3 DEF Snapshot, ReadRemaining, ReadUtilization, FirstLoad, SecondLoad, observed,
       ReadersInv, ReadersTypeOK
  <2> DEFINE Told(rd, m, ra) ==
        ~ra => /\ rd.next = "limit" => SaturatingSub(limit, rd.spent) <= m
               /\ rd.next = "used" => limit <= rd.limit
               /\ rd.next = "cap" => SaturatingSub(rd.limit, rd.spent) <= m
               /\ rd.next = "spent" /\ ~rd.torn => rd.spent <= rd.limit
  <2>3. \A u \in Readers : Told(reading[u], most[u], raised[u])
    BY DEF ReadersInv, ReadingInv, RemainingNotOverstated, UtilizationAtMostOne
  <2>4. Told(reading'[r], most'[r], raised'[r])
    <3>1. CASE reading[r].next = "spent"
      <4>1. reading'[r] = [NoReading EXCEPT !.spent = spent, !.next = "limit"]
            /\ most'[r] = Remaining
        BY <1>3, <3>1 DEF Snapshot, ReadRemaining, ReadUtilization, FirstLoad,
           ReadersInv, ReadersTypeOK
      <4>2. reading'[r].next = "limit" /\ reading'[r].spent = spent
        BY <4>1 DEF NoReading
      <4>3. Remaining <= Remaining
        BY <1>0
      <4> QED
        BY <4>1, <4>2, <4>3 DEF Remaining
    <3>2. CASE reading[r].next = "limit"
      <4>1. /\ reading'[r] = [reading[r] EXCEPT !.limit = limit, !.next = "cap"]
            /\ most'[r] = most[r] /\ raised'[r] = raised[r]
        BY <1>3, <3>2 DEF Snapshot, ReadRemaining, ReadUtilization, SecondLoad, observed,
           ReadersInv, ReadersTypeOK
      <4>2. /\ reading'[r].next = "cap" /\ reading'[r].limit = limit
            /\ reading'[r].spent = reading[r].spent
        BY <1>0, <4>1 DEF Readings
      <4> QED
        BY <2>3, <3>2, <4>1, <4>2
    <3>3. CASE reading[r].next = "cap"
      <4>1. reading'[r] = [NoReading EXCEPT !.limit = limit,
                                            !.next = IF limit = 0 THEN "spent" ELSE "used"]
        BY <1>3, <3>3 DEF Snapshot, ReadRemaining, ReadUtilization, FirstLoad,
           ReadersInv, ReadersTypeOK
      <4>2. /\ reading'[r].next \in {"spent", "used"}
            /\ reading'[r].limit = limit /\ reading'[r].spent = 0
        BY <4>1 DEF NoReading
      <4> QED
        BY <1>0, <4>2
    <3>4. CASE reading[r].next = "used"
      <4>1. /\ reading'[r] = [reading[r] EXCEPT !.spent = spent, !.next = "spent",
                                 !.torn = PendingCharges \cup PendingShrinks # {}]
            /\ raised'[r] = raised[r]
        BY <1>3, <3>4 DEF Snapshot, ReadRemaining, ReadUtilization, SecondLoad, observed,
           ReadersInv, ReadersTypeOK
      <4>2. /\ reading'[r].next = "spent" /\ reading'[r].spent = spent
            /\ reading'[r].limit = reading[r].limit
            /\ reading'[r].torn = (PendingCharges \cup PendingShrinks # {})
        BY <1>0, <4>1 DEF Readings
      <4>3. ~reading'[r].torn => spent <= limit
        BY <4>2, QuietWithin DEF ReadersInv
      <4>4. ~raised[r] => limit <= reading[r].limit
        BY <2>3, <3>4
      <4> QED
        BY <1>0, <4>1, <4>2, <4>3, <4>4
    <3>5. reading[r].next \in {"spent", "limit", "cap", "used"}
      BY <1>0 DEF Readings
    <3> QED
      BY <3>1, <3>2, <3>3, <3>4, <3>5
  <2>5. \A u \in Readers : Told(reading'[u], most'[u], raised'[u])
    BY <2>2, <2>3, <2>4
  <2> QED
    BY <2>1, <2>5 DEF ReadingInv, RemainingNotOverstated, UtilizationAtMostOne
<1>4. CASE UNCHANGED allVars
  BY <1>4 DEF allVars, vars, observed, ReadersInv, ReadingInv, RemainingNotOverstated,
     UtilizationAtMostOne
<1> QED
  BY <1>1, <1>2, <1>3, <1>4 DEF ReadersNext

\* What a charge that was refused is told stays true until its thread's next call.
LEMMA RefusalNext ==
    ASSUME ReadersInv, [ReadersNext]_allVars
    PROVE  RefusalInv' /\ RefusalExplained'
<1> DEFINE Told(rep, p, a, s, e) ==
      /\ rep.due => p = "refused"
      /\ p = "chargeUndo" /\ ~e => SaturatingAdd(s, a) > limit
      /\ rep.due /\ ~e => SaturatingAdd(rep.spent, a) > limit
      /\ p = "refused" /\ ~rep.due /\ ~e => SaturatingAdd(rep.spent, a) > rep.limit
<1>0. /\ limit \in Nat /\ MaxNanos \in Nat
      /\ \A u \in Threads : arg[u] \in Nat /\ seen[u] \in Nat
      /\ \A u \in Threads : report[u].due \in BOOLEAN /\ report[u].spent \in Nat
  BY NumberFacts DEF ReadersInv, ReadersTypeOK, Reports
<1>00. \A u \in Threads : Told(report[u], pc[u], arg[u], seen[u], eased[u])
  BY DEF ReadersInv, RefusalInv, RefusalExplained, NewTotal
<1>1. ASSUME NEW t \in Threads, BudgetStep(t)
      PROVE  RefusalInv' /\ RefusalExplained'
  <2>1. limit' \in Nat
    BY <1>1, ObservedStep
  <2>2. ASSUME NEW u \in Threads \ {t}
        PROVE  /\ report'[u].due => pc'[u] = "refused"
               /\ pc'[u] = "chargeUndo" /\ ~eased'[u] => SaturatingAdd(seen'[u], arg'[u]) > limit'
               /\ report'[u].due /\ ~eased'[u] => SaturatingAdd(report'[u].spent, arg'[u]) > limit'
               /\ pc'[u] = "refused" /\ ~report'[u].due /\ ~eased'[u] =>
                    SaturatingAdd(report'[u].spent, arg'[u]) > report'[u].limit
    <3>1. /\ report'[u] = report[u]
          /\ pc'[u] = pc[u] /\ arg'[u] = arg[u] /\ seen'[u] = seen[u]
          /\ ~eased'[u] => ~eased[u] /\ (AnsweringCharge(u) => limit' <= limit)
      BY <1>1, <2>2, ObservedStep
    <3>2. pc[u] = "chargeUndo" \/ report[u].due => AnsweringCharge(u)
      BY DEF AnsweringCharge
    <3>3. Told(report[u], pc[u], arg[u], seen[u], eased[u])
      BY <1>00, <2>2
    <3>4. /\ SaturatingAdd(seen[u], arg[u]) \in Nat
          /\ SaturatingAdd(report[u].spent, arg[u]) \in Nat
      BY <1>0, <2>2 DEF SaturatingAdd
    <3> QED
      BY <1>0, <2>1, <3>1, <3>2, <3>3, <3>4
  <2>3. /\ report'[t].due => pc'[t] = "refused"
        /\ pc'[t] = "chargeUndo" => SaturatingAdd(seen'[t], arg'[t]) > limit'
        /\ report'[t].due /\ ~eased'[t] => SaturatingAdd(report'[t].spent, arg'[t]) > limit'
        /\ pc'[t] # "refused" \/ report'[t].due
    <3>1. /\ pc'[t] = "chargeUndo" =>
               NewTotal(t) > limit /\ UNCHANGED <<limit, arg, seen>>
          /\ pc'[t] = "refused" =>
               /\ arg'[t] = arg[t] /\ limit' = limit
               /\ NewTotal(t) > limit \/ pc[t] = "chargeUndo"
      BY <1>1, RefusingSteps DEF BudgetStep, ReadersInv
    <3>2. /\ eased'[t] = (eased[t] /\ (AnsweringCharge(t) \/ AnsweringShrink(t)))
          /\ pc'[t] = "refused" => /\ report'[t].due /\ report'[t].spent = seen[t]
          /\ pc'[t] # "refused" => ~report'[t].due
      <4>1. report'[t] = IF pc'[t] = "refused"
                         THEN [due |-> TRUE, spent |-> seen[t], limit |-> 0] ELSE NoReport
        BY <1>1, OwnStep
      <4>2. eased'[t] = (eased[t] /\ (AnsweringCharge(t) \/ AnsweringShrink(t)))
        BY <1>1, OwnStep
      <4> QED
        BY <4>1, <4>2 DEF NoReport
    <3>3. pc[t] = "chargeUndo" /\ ~eased'[t] => SaturatingAdd(seen[t], arg[t]) > limit
      BY <1>00, <3>2 DEF AnsweringCharge
    <3> QED
      BY <3>1, <3>2, <3>3 DEF NewTotal
  <2> QED
    BY <2>2, <2>3 DEF RefusalInv, RefusalExplained, NewTotal
<1>2. ASSUME NEW t \in Threads, ReportLimit(t)
      PROVE  RefusalInv' /\ RefusalExplained'
  <2>1. /\ report[t].due /\ UNCHANGED <<limit, pc, arg, seen, eased>>
        /\ report' = [report EXCEPT ![t] = [report[t] EXCEPT !.due = FALSE, !.limit = limit]]
    BY <1>2 DEF ReportLimit, vars, observed
  <2>2. \A u \in Threads \ {t} : report'[u] = report[u]
    BY <2>1 DEF ReadersInv, ReadersTypeOK
  <2>3. ~report'[t].due /\ report'[t].limit = limit /\ report'[t].spent = report[t].spent
    BY <2>1 DEF ReadersInv, ReadersTypeOK, Reports
  <2>4. Told(report[t], pc[t], arg[t], seen[t], eased[t])
    BY <1>00
  <2> QED
    BY <1>00, <2>1, <2>2, <2>3, <2>4 DEF RefusalInv, RefusalExplained, NewTotal
<1>3. ASSUME UNCHANGED <<limit, pc, arg, seen, eased, report>>
      PROVE  RefusalInv' /\ RefusalExplained'
  BY <1>3 DEF ReadersInv, RefusalInv, RefusalExplained, NewTotal
<1>4. ASSUME NEW r \in Readers, Snapshot(r)
      PROVE  RefusalInv' /\ RefusalExplained'
  BY <1>3, <1>4 DEF Snapshot, ReadRemaining, ReadUtilization, FirstLoad, SecondLoad,
     vars, observed
<1>5. CASE UNCHANGED allVars
  BY <1>3, <1>5 DEF allVars, vars, observed
<1> QED
  BY <1>1, <1>2, <1>4, <1>5 DEF ReadersNext

\* What a shrink that was refused is told stays true until its thread's next call.
LEMMA ShortfallNext ==
    ASSUME ReadersInv, [ReadersNext]_allVars
    PROVE  ShortfallInv' /\ ShortfallReported'
<1> DEFINE Short(x, a) == x < a \/ x = 0
<1>0. /\ limit \in Nat /\ spent \in Nat
      /\ \A u \in Threads : arg[u] \in Nat /\ seen[u] \in Nat
  BY NumberFacts DEF ReadersInv
<1>1. ASSUME NEW t \in Threads, BudgetStep(t)
      PROVE  ShortfallInv' /\ ShortfallReported'
  <2>0. /\ limit' \in Nat /\ spent' \in Nat
        /\ \A u \in Threads : arg'[u] \in Nat /\ seen'[u] \in Nat
    BY <1>1, ObservedStep, ConstantsAssumption DEF IInv, TypeOK
  <2>1. ASSUME NEW u \in Threads \ {t}, ~eased'[u]
        PROVE  /\ pc'[u] = "shrinkRecheck" => limit' <= seen'[u] - arg'[u]
               /\ pc'[u] = "shrinkUndo" => limit' < spent'
               /\ pc'[u] = "shrinkReport" => Short(SaturatingSub(limit', spent'), arg'[u])
               /\ pc'[u] = "shrinkReturn" => Short(SaturatingSub(seen'[u], spent'), arg'[u])
               /\ pc'[u] = "kept" => Short(seen'[u], arg'[u])
    <3>1. /\ pc'[u] = pc[u] /\ arg'[u] = arg[u] /\ seen'[u] = seen[u] /\ ~eased[u]
          /\ AnsweringShrink(u) => limit' <= limit /\ spent' >= spent
      BY <1>1, <2>1, ObservedStep
    <3>2. /\ pc[u] = "shrinkRecheck" => limit <= seen[u] - arg[u]
          /\ pc[u] = "shrinkUndo" => limit < spent
          /\ pc[u] = "shrinkReport" => Short(SaturatingSub(limit, spent), arg[u])
          /\ pc[u] = "shrinkReturn" => Short(SaturatingSub(seen[u], spent), arg[u])
          /\ pc[u] = "kept" => Short(seen[u], arg[u])
      BY <3>1 DEF ReadersInv, ShortfallInv, ShortfallReported, NewLimit
    <3>3. pc[u] \in {"shrinkRecheck", "shrinkUndo", "shrinkReport", "shrinkReturn"} =>
            limit' <= limit /\ spent' >= spent
      BY <3>1 DEF AnsweringShrink
    <3>4. arg[u] \in Nat /\ seen[u] \in Nat
      BY <1>0
    <3>5. pc'[u] = "shrinkReport" => Short(SaturatingSub(limit', spent'), arg'[u])
      <4> SUFFICES ASSUME pc[u] = "shrinkReport"
                   PROVE  Short(SaturatingSub(limit', spent'), arg[u])
        BY <3>1
      <4> DEFINE l == limit'
                 s == spent'
      <4>1. l \in Nat /\ s \in Nat /\ l <= limit /\ spent <= s
        BY <2>0, <3>3, <1>0
      <4> HIDE DEF l, s
      <4>2. SaturatingSub(l, s) <= SaturatingSub(limit, s)
        BY <4>1, <1>0, SubMonotone
      <4>3. SaturatingSub(limit, s) <= SaturatingSub(limit, spent)
        BY <4>1, <1>0, SubAntitone
      <4>4. /\ SaturatingSub(l, s) \in Nat /\ SaturatingSub(limit, s) \in Nat
            /\ SaturatingSub(limit, spent) \in Nat
        BY <4>1, <1>0, SubNat
      <4>5. Short(SaturatingSub(limit, spent), arg[u])
        BY <3>2
      <4>6. Short(SaturatingSub(l, s), arg[u])
        BY <4>2, <4>3, <4>4, <4>5, <3>4
      <4> QED
        BY <4>6 DEF l, s
    <3>6. pc'[u] = "shrinkReturn" => Short(SaturatingSub(seen'[u], spent'), arg'[u])
      BY <1>0, <2>0, <3>1, <3>2, <3>3, <3>4 DEF SaturatingSub
    <3> QED
      BY <1>0, <2>0, <3>1, <3>2, <3>3, <3>4, <3>5, <3>6
  <2>2. /\ pc'[t] = "shrinkRecheck" => limit' <= seen'[t] - arg'[t]
        /\ ~eased'[t] =>
             /\ pc'[t] = "shrinkUndo" => limit' < spent'
             /\ pc'[t] = "shrinkReport" => Short(SaturatingSub(limit', spent'), arg'[t])
             /\ pc'[t] = "shrinkReturn" => Short(SaturatingSub(seen'[t], spent'), arg'[t])
             /\ pc'[t] = "kept" => Short(seen'[t], arg'[t])
    <3>1. /\ pc'[t] = "shrinkRecheck" => limit' = NewLimit(t) /\ UNCHANGED <<arg, seen>>
          /\ pc'[t] = "shrinkUndo" =>
               /\ pc[t] = "shrinkRecheck" /\ spent > NewLimit(t)
               /\ UNCHANGED <<limit, spent>>
          /\ pc'[t] = "shrinkReport" =>
               /\ pc[t] = "shrinkUndo" /\ arg'[t] = arg[t]
               /\ limit' <= limit + arg[t] /\ UNCHANGED spent
          /\ pc'[t] = "shrinkReturn" =>
               /\ pc[t] = "shrinkReport" /\ arg'[t] = arg[t]
               /\ seen'[t] = limit /\ UNCHANGED spent
          /\ pc'[t] = "kept" =>
               /\ arg'[t] = arg[t]
               /\ \/ seen'[t] < arg[t]
                  \/ pc[t] = "shrinkReturn" /\ seen'[t] = SaturatingSub(seen[t], spent)
      BY <1>1, ShrinkingSteps DEF BudgetStep, ReadersInv
    <3>2. pc[t] \in {"shrinkRecheck", "shrinkUndo", "shrinkReport", "shrinkReturn"} =>
            eased'[t] = eased[t]
      <4>1. pc[t] \in {"shrinkRecheck", "shrinkUndo", "shrinkReport", "shrinkReturn"} =>
              AnsweringShrink(t)
        BY DEF AnsweringShrink
      <4>2. eased[t] \in BOOLEAN
        BY DEF ReadersInv, ReadersTypeOK
      <4> QED
        BY <1>1, <4>1, <4>2, OwnStep
    <3>3. ~eased[t] =>
            /\ pc[t] = "shrinkRecheck" => limit <= seen[t] - arg[t]
            /\ pc[t] = "shrinkUndo" => limit < spent
            /\ pc[t] = "shrinkReport" => Short(SaturatingSub(limit, spent), arg[t])
            /\ pc[t] = "shrinkReturn" => Short(SaturatingSub(seen[t], spent), arg[t])
      BY DEF ReadersInv, ShortfallInv, NewLimit
    <3>4. arg[t] \in Nat /\ seen[t] \in Nat
      BY <1>0
    <3>5. pc'[t] = "shrinkRecheck" => limit' <= seen'[t] - arg'[t]
      BY <2>0, <3>1 DEF NewLimit
    <3>6. ~eased'[t] /\ pc'[t] = "shrinkUndo" => limit' < spent'
      BY <1>0, <3>1, <3>2, <3>3, <3>4 DEF NewLimit
    <3>7. ~eased'[t] /\ pc'[t] = "shrinkReport" => Short(SaturatingSub(limit', spent'), arg'[t])
      <4> SUFFICES ASSUME ~eased'[t], pc'[t] = "shrinkReport"
                   PROVE  Short(SaturatingSub(limit', spent'), arg'[t])
        OBVIOUS
      <4> DEFINE l == limit'
      <4>1. pc[t] = "shrinkUndo" /\ arg'[t] = arg[t] /\ spent' = spent
        BY <3>1
      <4>2. limit < spent
        BY <3>2, <3>3, <4>1
      <4>3. l \in Nat /\ l <= limit + arg[t]
        BY <2>0, <3>1
      <4> HIDE DEF l
      <4>4. Short(SaturatingSub(l, spent), arg[t])
        BY <4>2, <4>3, <1>0, <3>4, SubShort
      <4> QED
        BY <4>1, <4>4 DEF l
    <3>8. ~eased'[t] /\ pc'[t] = "shrinkReturn" => Short(SaturatingSub(seen'[t], spent'), arg'[t])
      BY <3>1, <3>2, <3>3
    <3>9. ~eased'[t] /\ pc'[t] = "kept" => Short(seen'[t], arg'[t])
      BY <3>1, <3>2, <3>3
    <3> QED
      BY <3>5, <3>6, <3>7, <3>8, <3>9
  <2> QED
    BY <2>1, <2>2 DEF ShortfallInv, ShortfallReported, NewLimit
<1>2. ASSUME UNCHANGED <<limit, spent, pc, arg, seen, eased>>
      PROVE  ShortfallInv' /\ ShortfallReported'
  BY <1>2 DEF ReadersInv, ShortfallInv, ShortfallReported, NewLimit
<1>3. ASSUME NEW t \in Threads, ReportLimit(t)
      PROVE  ShortfallInv' /\ ShortfallReported'
  BY <1>2, <1>3 DEF ReportLimit, vars, observed
<1>4. ASSUME NEW r \in Readers, Snapshot(r)
      PROVE  ShortfallInv' /\ ShortfallReported'
  BY <1>2, <1>4 DEF Snapshot, ReadRemaining, ReadUtilization, FirstLoad, SecondLoad,
     vars, observed
<1>5. CASE UNCHANGED allVars
  BY <1>2, <1>5 DEF allVars, vars, observed
<1> QED
  BY <1>1, <1>3, <1>4, <1>5 DEF ReadersNext

\* Nobody has been told anything at the start.
LEMMA ReadersInitInv == ReadersInit => ReadersInv
<1> SUFFICES ASSUME ReadersInit
             PROVE  ReadersInv
  OBVIOUS
<1>1. IInv
  BY InitIInv DEF ReadersInit
<1>2. NoReading \in Readings /\ NoReport \in Reports
  BY DEF NoReading, Readings, NoReport, Reports
<1>3. ReadersTypeOK
  BY <1>2 DEF ReadersInit, ReadersTypeOK
<1>4. ReadingInv /\ RemainingNotOverstated /\ UtilizationAtMostOne
  BY DEF ReadersInit, NoReading, ReadingInv, RemainingNotOverstated, UtilizationAtMostOne
<1>5. RefusalInv /\ ShortfallInv /\ RefusalExplained /\ ShortfallReported
  BY DEF ReadersInit, Init, NoReport, RefusalInv, ShortfallInv, RefusalExplained,
     ShortfallReported
<1> QED
  BY <1>1, <1>3, <1>4, <1>5 DEF ReadersInv

\* The parts of the invariant together are inductive.
LEMMA ReadersNextInv == ReadersInv /\ [ReadersNext]_allVars => ReadersInv'
  BY StepOfBudget, ReadersTypeNext, ReadableNext, RefusalNext, ShortfallNext
  DEF ReadersInv, Readable

\* What was said of AtomicBudget holds while it is read, and everything told to
\* readers and callers is true.
THEOREM ReadersInvariant == ReadersSpec => []ReadersInv
  BY ReadersInitInv, ReadersNextInv, PTL DEF ReadersSpec

\* A reader is never told of more than was left at some moment of its reading,
\* unless the limit was raised meanwhile (remaining_usd).
THEOREM RemainingTrue == ReadersSpec => []RemainingNotOverstated
<1>1. ReadersInv => RemainingNotOverstated
  BY DEF ReadersInv
<1> QED
  BY <1>1, ReadersInvariant, PTL

\* Utilization stays within 1 unless a raise or a half-done call came between its
\* loads: because of the hard cap (utilization).
THEOREM UtilizationTrue == ReadersSpec => []UtilizationAtMostOne
<1>1. ReadersInv => UtilizationAtMostOne
  BY DEF ReadersInv
<1> QED
  BY <1>1, ReadersInvariant, PTL

\* The numbers in a refused charge's error explain it, unless the limit was raised
\* between the refusal and the error (BudgetEnvelope::charge).
THEOREM RefusalTrue == ReadersSpec => []RefusalExplained
<1>1. ReadersInv => RefusalExplained
  BY DEF ReadersInv
<1> QED
  BY <1>1, ReadersInvariant, PTL

\* The remainder a refused shrink returns is short of the amount, unless others
\* made room meanwhile (shrink_limit).
THEOREM ShortfallTrue == ReadersSpec => []ShortfallReported
<1>1. ReadersInv => ShortfallReported
  BY DEF ReadersInv
<1> QED
  BY <1>1, ReadersInvariant, PTL
===============================================================================
