---------------------------- MODULE AtomicBudgetInv ----------------------------
(***************************************************************************)
(* The inductive invariant of AtomicBudget, for the proofs and for TLC.    *)
(*                                                                         *)
(* Picture the nano-dollars as positions on a line.  [0, accepted) is      *)
(* spent for good, and [accepted, spent) is tiled by one interval per      *)
(* pending charge: the room it holds until it returns.  [0, settled) is    *)
(* granted, and [limit, settled) is tiled by one interval per pending      *)
(* shrink: the room it holds back.  Where each interval lies is not in the *)
(* state; the invariant says that a layout exists.  After a charge is      *)
(* accepted or undone the other intervals slide to close the gap.          *)
(*                                                                         *)
(* The two stores of a racing charge and shrink may overlap (spent above   *)
(* limit), so accepted <= settled needs more: a mark cov below which every *)
(* pending charge is safe to accept, a mark clim above which every pending *)
(* shrink is safe to accept, and cov <= clim.  A charge above cov has seen *)
(* a spent_nanos that reaches its top, so its recheck compares at least    *)
(* that top with limit_nanos; a shrink below clim likewise.                *)
(***************************************************************************)
EXTENDS AtomicBudget

\* u64 nano-dollars are never granted up to the last one (1.8e10 USD), so no
\* addition saturates and no fetch_add wraps.
ASSUME NoWrapAssumption == GrowBound < MaxNanos

ChargeLayout(lo, cov) ==
    /\ cov \in accepted..spent
    /\ lo \in [PendingCharges -> 0..spent]
    /\ \A c \in PendingCharges :
         /\ accepted <= lo[c]
         /\ lo[c] + arg[c] <= spent
         /\ lo[c] + arg[c] <= cov \/ cov <= lo[c]
         /\ pc[c] = "chargeRecheck" /\ cov < lo[c] + arg[c]
              => lo[c] + arg[c] <= NewTotal(c)
    /\ \A c, d \in PendingCharges :
         c = d \/ lo[c] + arg[c] <= lo[d] \/ lo[d] + arg[d] <= lo[c]
    /\ \A x \in accepted..(spent - 1) :
         \E c \in PendingCharges : lo[c] <= x /\ x < lo[c] + arg[c]

ShrinkLayout(hi, clim) ==
    /\ clim \in limit..settled
    /\ hi \in [PendingShrinks -> 0..settled]
    /\ \A s \in PendingShrinks :
         /\ limit <= hi[s]
         /\ hi[s] + arg[s] <= settled
         /\ hi[s] + arg[s] <= clim \/ clim <= hi[s]
         /\ pc[s] = "shrinkRecheck" /\ hi[s] < clim => NewLimit(s) <= hi[s]
    /\ \A s, u \in PendingShrinks :
         s = u \/ hi[s] + arg[s] <= hi[u] \/ hi[u] + arg[u] <= hi[s]
    /\ \A x \in limit..(settled - 1) :
         \E s \in PendingShrinks : hi[s] <= x /\ x < hi[s] + arg[s]

LayoutExists ==
    \E cov, clim \in 0..GrowBound :
        /\ cov <= clim
        /\ \E lo \in [PendingCharges -> 0..spent] : ChargeLayout(lo, cov)
        /\ \E hi \in [PendingShrinks -> 0..settled] : ShrinkLayout(hi, clim)

\* What a call in progress knows: what it was called with and, past its check,
\* that the charge fitted under a limit it saw or that the shrink takes no more
\* than the limit it saw.
CallsFit ==
    \A t \in Threads :
        /\ pc[t] \in {"chargeLoad", "chargeCheck", "chargeSwap", "chargeRecheck", "chargeUndo"}
             => arg[t] \in Costs
        /\ pc[t] \in {"shrinkLoad", "shrinkCheck", "shrinkSwap", "shrinkRecheck", "shrinkUndo"}
             => arg[t] \in ShrinkAmounts
        /\ pc[t] \in {"chargeSwap", "chargeRecheck", "chargeUndo"}
             => seen[t] + arg[t] <= GrowBound
        /\ pc[t] \in {"shrinkSwap", "shrinkRecheck", "shrinkUndo"}
             => arg[t] <= seen[t]

\* The inductive invariant: it implies NeverOverspent, Ledger and
\* UndoNeverWraps, and every action preserves it.
IInv ==
    /\ TypeOK
    /\ limit <= settled
    /\ CallsFit
    /\ LayoutExists
===============================================================================
