------------------------------ MODULE RateLimiter ------------------------------
(***************************************************************************)
(* TokenRateLimiter of src/ratelimit.rs: a request limiter and a token     *)
(* limiter that check asks one after the other, for callers on any number  *)
(* of threads.  The limiters are governor's (external): cells arrive at    *)
(* most at the sustained rate, with one whole quota as a burst.  A limiter *)
(* keeps one number, the theoretical arrival time of the next cell, which  *)
(* it replaces by compare-and-swap after reading the clock.  Time is a     *)
(* number of clock ticks.                                                  *)
(***************************************************************************)
EXTENDS Integers, FiniteSets

CONSTANTS Callers,
          TokenLimit,     \* tokens_per_minute
          RequestLimit,   \* requests_per_minute, 0 for None
          CallTokens,     \* tokens of a call
          Minute,         \* clock ticks of a minute
          Micro,          \* clock ticks of a microsecond
          Milli,          \* microseconds of a millisecond
          MaxTime         \* bound of the model: the clock stops there

ASSUME RateLimiterAssumption ==
    /\ IsFiniteSet(Callers)
    /\ TokenLimit \in Nat \ {0}
    /\ RequestLimit \in Nat
    /\ CallTokens \subseteq Nat
    /\ Minute \in Nat /\ Minute >= TokenLimit /\ Minute >= RequestLimit
    /\ Micro \in Nat \ {0} /\ Milli \in Nat \ {0}
    /\ MaxTime \in Nat

Limiters == {"tokens"} \cup IF RequestLimit = 0 THEN {} ELSE {"requests"}
Quota(l) == IF l = "tokens" THEN TokenLimit ELSE RequestLimit

VARIABLES now,        \* the clock
          arrival,    \* arrival[l]: theoretical arrival time of limiter l
          pc,         \* pc[c]: what caller c does next
          tokens,     \* tokens[c]: the tokens c asks for, or asked for last
          clock,      \* clock[c]: the time c read last
          until,      \* until[c]: when c was told to retry
          passed,     \* history: calls that returned Ok, and their tokens
          alone,      \* history: nobody else called since c's call began
          refusals    \* history: refusals in a row of c, coming back no sooner
                      \* than told and a microsecond on top, alone

local == <<tokens, clock, until>>
history == <<passed, alone, refusals>>
vars == <<now, arrival, pc, local, history>>

-------------------------------------------------------------------------------
(***************************************************************************)
(* governor: the cell rate algorithm of a direct limiter.                  *)
(***************************************************************************)
\* Ticks in which one cell comes back, in whole ticks.
Interval(l) == Minute \div Quota(l)
Tolerance(l) == Interval(l) * (Quota(l) - 1)

\* The first time at which limiter l lets n cells pass.
Earliest(l, n) ==
    LET full == arrival[l] + Interval(l) * (n - 1)
    IN  IF full > Tolerance(l) THEN full - Tolerance(l) ELSE 0

\* The limiter lets n cells pass that came at the time c has read.
Admit(c, l, n) ==
    /\ clock[c] >= Earliest(l, n)
    /\ arrival' = [arrival EXCEPT
            ![l] = (IF @ > clock[c] THEN @ ELSE clock[c]) + Interval(l) * n]

-------------------------------------------------------------------------------
\* Reading the clock before asking limiter l, and after it refused.
AtClock(l) == IF l = "tokens" THEN "tokensClock" ELSE "requestsClock"
AtLimited(l) == IF l = "tokens" THEN "tokensLimited" ELSE "requestsLimited"

Goto(c, p) == pc' = [pc EXCEPT ![c] = p]

\* What the call of c asks of limiter l.
Cells(c, l) == IF l = "tokens" THEN tokens[c] ELSE 1

\* The call of c is over and c asks for n tokens when it retries at time w.
Return(c, n, w) ==
    /\ Goto(c, "idle")
    /\ tokens' = [tokens EXCEPT ![c] = n]
    /\ clock' = [clock EXCEPT ![c] = 0]
    /\ until' = [until EXCEPT ![c] = w]

Init ==
    /\ now = 0
    /\ arrival = [l \in Limiters |-> 0]
    /\ pc = [c \in Callers |-> "idle"]
    /\ tokens = [c \in Callers |-> 0]
    /\ clock = [c \in Callers |-> 0]
    /\ until = [c \in Callers |-> 0]
    /\ passed = [calls |-> 0, tokens |-> 0]
    /\ alone = [c \in Callers |-> TRUE]
    /\ refusals = [c \in Callers |-> 0]

Tick ==
    /\ now < MaxTime
    /\ now' = now + 1
    /\ UNCHANGED <<arrival, pc, local, history>>

\* Which limiter a call of n tokens asks first, and which one after the requests.
AfterRequests(n) ==
    CASE n = 0 -> "ok"
      [] n > TokenLimit -> "impossible"
      [] OTHER -> "tokensClock"
FirstStep(n) == IF RequestLimit = 0 THEN AfterRequests(n) ELSE "requestsClock"

StartCheck(c, n) ==
    /\ pc[c] = "idle"
    /\ tokens' = [tokens EXCEPT ![c] = n]
    /\ until' = [until EXCEPT ![c] = 0]
    /\ Goto(c, FirstStep(n))
    /\ alone' = [u \in Callers |-> pc[u] = "idle" /\ \A v \in Callers \ {c} : pc[v] = "idle"]
    /\ refusals' = [u \in Callers |->
            IF u = c /\ n = tokens[c] /\ now >= until[c] + Micro - 1 THEN refusals[c] ELSE 0]
    /\ UNCHANGED <<now, arrival, clock, passed>>

\* check and check_n read the clock before they go to the limiter's state.
ReadClock(c, l) ==
    /\ pc[c] = AtClock(l)
    /\ clock' = [clock EXCEPT ![c] = now]
    /\ Goto(c, l)
    /\ UNCHANGED <<now, arrival, tokens, until, history>>

\* req.check() passed.
TakeRequest(c) ==
    /\ pc[c] = "requests"
    /\ Admit(c, "requests", 1)
    /\ Goto(c, AfterRequests(tokens[c]))
    /\ UNCHANGED <<now, local, passed, alone, refusals>>

\* Mutant: a call counts as one token.
TakeOneToken(c) ==
    /\ pc[c] = "tokens"
    /\ Admit(c, "tokens", 1)
    /\ Goto(c, "ok")
    /\ UNCHANGED <<now, local, passed, alone, refusals>>

\* self.tokens.check_n(n) passed.
TakeTokens(c) ==
    /\ pc[c] = "tokens"
    /\ Admit(c, "tokens", tokens[c])
    /\ Goto(c, "ok")
    /\ UNCHANGED <<now, local, passed, alone, refusals>>

\* A limiter refuses; the clock is read again for the time to wait.
Refuse(c, l) ==
    /\ pc[c] = l
    /\ clock[c] < Earliest(l, Cells(c, l))
    /\ clock' = [clock EXCEPT ![c] = Earliest(l, Cells(c, l))]
    /\ Goto(c, AtLimited(l))
    /\ UNCHANGED <<now, arrival, tokens, until, history>>

\* Mutant: whole milliseconds, rounded down.
RetryRoundedDown(wait) == Milli * Micro * (wait \div (Milli * Micro))

\* as_micros cuts off, div_ceil rounds up to milliseconds.
RetryAfter(wait) ==
    LET micros == wait \div Micro
    IN  Milli * Micro * ((micros + Milli - 1) \div Milli)

\* limited(wait_time_from(now)): RateLimited with retry_after_ms.
Limited(c, l) ==
    /\ pc[c] = AtLimited(l)
    /\ Return(c, tokens[c], now + RetryAfter(IF clock[c] > now THEN clock[c] - now ELSE 0))
    /\ refusals' = [refusals EXCEPT ![c] = IF alone[c] THEN @ + 1 ELSE 0]
    /\ UNCHANGED <<now, arrival, passed, alone>>

\* Ok(()).
Pass(c) ==
    /\ pc[c] = "ok"
    /\ Return(c, 0, 0)
    /\ passed' = [calls |-> passed.calls + 1, tokens |-> passed.tokens + tokens[c]]
    /\ refusals' = [refusals EXCEPT ![c] = 0]
    /\ UNCHANGED <<now, arrival, alone>>

\* InvalidConfig: more tokens than the quota.
Impossible(c) ==
    /\ pc[c] = "impossible"
    /\ Return(c, 0, 0)
    /\ refusals' = [refusals EXCEPT ![c] = 0]
    /\ UNCHANGED <<now, arrival, passed, alone>>

Next ==
    \/ Tick
    \/ \E c \in Callers :
         \/ \E n \in CallTokens : StartCheck(c, n)
         \/ TakeRequest(c) \/ TakeTokens(c) \/ Pass(c) \/ Impossible(c)
         \/ \E l \in Limiters : ReadClock(c, l) \/ Refuse(c, l) \/ Limited(c, l)

Spec == Init /\ [][Next]_vars

-------------------------------------------------------------------------------
\* At any time the calls let pass since the start, and their tokens, fit one
\* whole quota and what has come back of it since, with several callers between
\* their clock reading, the first limiter and the second: the kept slots of
\* refused calls err on the strict side only (doc of check).
QuotaKept ==
    /\ Interval("tokens") * passed.tokens <= Minute + now
    /\ RequestLimit # 0 => Interval("requests") * passed.calls <= Minute + now

\* A caller nobody competes with, who waits a microsecond longer than it is told
\* and asks for the same again, is refused at most three times in a row: by the
\* requests, by the tokens with its slot kept, and by the requests once more
\* because of that slot.
PatientCallerPasses == \A c \in Callers : refusals[c] <= 3

\* Whoever waits as long as retry_after_ms says comes back less than a microsecond
\* before the limiter that refused would let the call pass, although the clock
\* moves between the limiter's reading and the one the wait is computed from
\* ("Round up so "retry after" is never too early", comment in limited; as_micros
\* cuts the nanoseconds off before anything is rounded up).
NeverTooEarly ==
    [][\A c \in Callers :
         (\E l \in Limiters : pc[c] = AtLimited(l)) /\ pc'[c] = "idle"
             => until'[c] + Micro > clock[c]]_vars
===============================================================================
