--------------------------- MODULE RateLimiterProofs ---------------------------
(***************************************************************************)
(* Proofs about RateLimiter, for any number of callers, any quotas and any *)
(* units of time.                                                          *)
(***************************************************************************)
EXTENDS RateLimiter, SumProofs

\* The steps of a call that has got its slot from the request limiter.
Slotted == {"ok", "impossible", "tokensClock", "tokens", "tokensLimited"}

TypeOK ==
    /\ now \in Nat
    /\ arrival \in [Limiters -> Nat]
    /\ pc \in [Callers -> {"idle", "requestsClock", "requests", "requestsLimited"} \cup Slotted]
    /\ tokens \in [Callers -> Nat]
    /\ clock \in [Callers -> Nat]
    /\ until \in [Callers -> Nat]
    /\ passed \in [calls : Nat, tokens : Nat]
    /\ alone \in [Callers -> BOOLEAN]
    /\ refusals \in [Callers -> Nat]
    /\ \A c \in Callers :
         /\ pc[c] \in {"requestsClock", "requests", "requestsLimited"} => RequestLimit # 0
         /\ pc[c] \in {"tokensClock", "tokens", "tokensLimited"} => tokens[c] \in 1..TokenLimit
         /\ pc[c] \in {"requests", "tokens"} => clock[c] <= now

\* What the limiters have let pass and no call has returned yet.
TokensDue == [c \in Callers |-> IF pc[c] = "ok" THEN tokens[c] ELSE 0]
SlotsDue == [c \in Callers |-> IF pc[c] \in Slotted THEN 1 ELSE 0]

TokensIn == passed.tokens + SumOf(TokensDue, Callers)
CallsIn == passed.calls + SumOf(SlotsDue, Callers)

\* A limiter's arrival time is paid for by every cell it let pass, and never
\* further ahead of the clock than a whole quota.
QuotaInv ==
    /\ \A l \in Limiters : arrival[l] <= now + Minute
    /\ Interval("tokens") * TokensIn <= arrival["tokens"]
    /\ RequestLimit # 0 => Interval("requests") * CallsIn <= arrival["requests"]

\* Limiter l lets what c asks of it pass at time t.
Opens(c, l, t) == l \in Limiters /\ t >= Earliest(l, Cells(c, l))

\* When c will ask, or the time it asks with.
When(c) ==
    CASE pc[c] = "idle" -> until[c] + Micro - 1
      [] pc[c] \in {"requests", "tokens"} -> clock[c]
      [] OTHER -> now

\* A caller with refusals to its count has been alone since the first of them, so
\* that only its own slots stand in its way: the limiter that refused last would
\* let it pass, and the tokens stay open until it gets them.
PatienceOf(c) ==
    /\ refusals[c] <= 3
    /\ (pc[c] # "idle" /\ alone[c]) \/ refusals[c] > 0 =>
         \A d \in Callers \ {c} : pc[d] = "idle"
    /\ pc[c] # "idle" /\ refusals[c] > 0 => alone[c]
    /\ pc[c] \in {"idle", "requestsClock", "requests"} =>
         /\ refusals[c] = 1 => Opens(c, "requests", When(c)) \/ Opens(c, "tokens", When(c))
         /\ refusals[c] > 1 => Opens(c, "tokens", When(c))
         /\ refusals[c] = 3 /\ RequestLimit # 0 => Opens(c, "requests", When(c))
    /\ pc[c] \in {"tokensClock", "tokens"} /\ refusals[c] > 1 => Opens(c, "tokens", When(c))
    /\ pc[c] = "requestsLimited" /\ alone[c] =>
         /\ Opens(c, "requests", clock[c])
         /\ refusals[c] < 3
         /\ refusals[c] > 0 => Opens(c, "tokens", now)
    /\ pc[c] = "tokensLimited" /\ alone[c] =>
         /\ Opens(c, "tokens", clock[c])
         /\ refusals[c] < 2

Patience == \A c \in Callers : PatienceOf(c)

RateInv == TypeOK /\ QuotaInv /\ Patience

-------------------------------------------------------------------------------
(***************************************************************************)
(* Arithmetic of the limiters                                              *)
(***************************************************************************)
\* Products of natural numbers.
LEMMA Products ==
    ASSUME NEW k \in Nat, NEW x \in Nat, NEW y \in Nat
    PROVE  /\ k * x \in Nat
           /\ k * (x + y) = k * x + k * y
           /\ k * (x - 1) = k * x - k
           /\ x <= y => k * x <= k * y
<1>1. k * x \in Nat /\ k * (x + y) = k * x + k * y /\ k * (x - 1) = k * x - k
  OBVIOUS
<1>2. ASSUME x <= y
      PROVE  k * x <= k * y
  <2> DEFINE d == y - x
  <2>1. d \in Nat /\ y = x + d
    BY <1>2
  <2>2. k * d \in Nat /\ k * x \in Nat /\ k * (x + d) = k * x + k * d
    BY <2>1
  <2> HIDE DEF d
  <2> QED
    BY <2>1, <2>2
<1> QED
  BY <1>1, <1>2

\* Whole division.
LEMMA Division ==
    ASSUME NEW m \in Nat, NEW q \in Nat \ {0}
    PROVE  m \div q \in Nat /\ (m \div q) * q <= m /\ m < (m \div q) * q + q
  OBVIOUS

\* A limiter's quota, once over, fits into the minute.
LEMMA LimiterFacts ==
    ASSUME NEW l \in Limiters
    PROVE  /\ Quota(l) \in Nat \ {0} /\ Interval(l) \in Nat /\ Minute \in Nat
           /\ Interval(l) * Quota(l) \in Nat /\ Interval(l) * Quota(l) <= Minute
           /\ Tolerance(l) = Interval(l) * Quota(l) - Interval(l) /\ Tolerance(l) \in Nat
<1>1. Quota(l) \in Nat \ {0} /\ Minute \in Nat
  BY RateLimiterAssumption DEF Limiters, Quota
<1> DEFINE k == Interval(l)
           q == Quota(l)
<1>2. k \in Nat /\ k * q <= Minute
  BY <1>1, Division DEF Interval
<1>3. q \in Nat /\ q - 1 \in Nat /\ Tolerance(l) = k * (q - 1)
  BY <1>1 DEF Tolerance
<1> HIDE DEF k, q
<1>4. k * q \in Nat /\ k * (q - 1) = k * q - k /\ k * (q - 1) \in Nat
  BY <1>2, <1>3, Products
<1> QED
  BY <1>1, <1>2, <1>3, <1>4 DEF k, q

\* The time a refused call is told is a time.
LEMMA EarliestNat ==
    ASSUME TypeOK, NEW l \in Limiters, NEW n \in Nat
    PROVE  Earliest(l, n) \in Nat
<1>1. arrival[l] \in Nat /\ Interval(l) \in Nat /\ Tolerance(l) \in Nat
  BY LimiterFacts DEF TypeOK
<1>2. Interval(l) * (n - 1) \in Int
  BY <1>1
<1> QED
  BY <1>1, <1>2 DEF Earliest

\* Cells that pass move the arrival time by what they cost, and no further than a
\* whole quota ahead of the clock.
LEMMA AdmitKeeps ==
    ASSUME TypeOK, NEW c \in Callers, NEW l \in Limiters, NEW n \in 1..Quota(l),
           Admit(c, l, n), clock[c] <= now, arrival[l] <= now + Minute
    PROVE  /\ arrival'[l] \in Nat /\ arrival'[l] <= now + Minute
           /\ arrival[l] + Interval(l) * n <= arrival'[l]
           /\ arrival' \in [Limiters -> Nat]
           /\ \A m \in Limiters \ {l} : arrival'[m] = arrival[m]
<1> DEFINE k == Interval(l)
           q == Quota(l)
           kn == k * n
           kq == k * q
           A == arrival[l]
           C == clock[c]
<1>1. /\ q \in Nat \ {0} /\ k \in Nat /\ Minute \in Nat /\ kq \in Nat /\ kq <= Minute
      /\ Tolerance(l) = kq - k
  BY LimiterFacts
<1>2. n \in Nat /\ n <= q
  BY <1>1
<1>3. A \in Nat /\ C \in Nat /\ now \in Nat
  BY DEF TypeOK
<1>4. C >= Earliest(l, n) /\ arrival' = [arrival EXCEPT ![l] = (IF A > C THEN A ELSE C) + kn]
  BY DEF Admit
<1>5. arrival'[l] = (IF A > C THEN A ELSE C) + kn /\ \A m \in Limiters \ {l} : arrival'[m] = arrival[m]
  BY <1>4 DEF TypeOK
<1>6. Earliest(l, n) = LET full == A + k * (n - 1)
                       IN  IF full > Tolerance(l) THEN full - Tolerance(l) ELSE 0
  BY DEF Earliest
<1> HIDE DEF A, C, k, q
<1>7. kn \in Nat /\ k * (n - 1) = kn - k /\ kn <= kq
  BY <1>1, <1>2, Products
<1>8. C <= now /\ A <= now + Minute
  BY DEF A, C
<1> HIDE DEF kn, kq
<1>9. Earliest(l, n) = IF A + kn - kq > 0 THEN A + kn - kq ELSE 0
  BY <1>1, <1>3, <1>6, <1>7
<1>10. A + kn <= now + Minute /\ C + kn <= now + Minute
  BY <1>1, <1>3, <1>4, <1>7, <1>8, <1>9
<1>11. arrival' \in [Limiters -> Nat]
  BY <1>3, <1>4, <1>7 DEF TypeOK
<1>12. arrival'[l] \in Nat /\ arrival'[l] <= now + Minute /\ A + kn <= arrival'[l]
  BY <1>3, <1>5, <1>7, <1>10
<1> QED
  BY <1>5, <1>11, <1>12 DEF A, kn, k

\* Rounding never takes a microsecond off the time to wait.
LEMMA RetryLongEnough ==
    ASSUME NEW wait \in Nat
    PROVE  RetryAfter(wait) \in Nat /\ RetryAfter(wait) + Micro > wait
<1> DEFINE micros == wait \div Micro
           millis == (micros + Milli - 1) \div Milli
<1>1. Micro \in Nat \ {0} /\ Milli \in Nat \ {0}
  BY RateLimiterAssumption
<1>2. micros \in Nat /\ wait < micros * Micro + Micro
  BY <1>1, Division
<1>3. RetryAfter(wait) = Milli * Micro * millis
  BY DEF RetryAfter
<1> HIDE DEF micros
<1>4. micros + Milli - 1 \in Nat
  BY <1>1, <1>2
<1>5. millis \in Nat /\ micros + Milli - 1 < millis * Milli + Milli
  BY <1>1, <1>4, Division
<1> HIDE DEF millis
<1> DEFINE up == millis * Milli
<1>6. up \in Nat /\ RetryAfter(wait) = Micro * up
  BY <1>1, <1>3, <1>5
<1>7. micros <= up
  BY <1>1, <1>2, <1>5, <1>6
<1> HIDE DEF up
<1>8. Micro * micros \in Nat /\ Micro * up \in Nat /\ Micro * micros <= Micro * up
  BY <1>1, <1>2, <1>6, <1>7, Products
<1>9. wait < Micro * micros + Micro
  BY <1>1, <1>2
<1> QED
  BY <1>1, <1>6, <1>8, <1>9

-------------------------------------------------------------------------------
(***************************************************************************)
(* Types                                                                   *)
(***************************************************************************)
\* The names of a limiter and of the steps that ask it.
LEMMA Names ==
    ASSUME NEW l \in Limiters
    PROVE  \/ l = "tokens" /\ AtClock(l) = "tokensClock" /\ AtLimited(l) = "tokensLimited"
           \/ /\ l = "requests" /\ AtClock(l) = "requestsClock" /\ AtLimited(l) = "requestsLimited"
              /\ RequestLimit # 0
  BY DEF Limiters, AtClock, AtLimited

\* Where a call goes once it has its slot, and at its start.
LEMMA Forks ==
    ASSUME NEW n \in Nat
    PROVE  /\ \/ AfterRequests(n) = "impossible"
              \/ AfterRequests(n) = "ok" /\ n = 0
              \/ AfterRequests(n) = "tokensClock" /\ n \in 1..TokenLimit
           /\ \/ FirstStep(n) = "requestsClock" /\ RequestLimit # 0
              \/ FirstStep(n) = AfterRequests(n) /\ RequestLimit = 0
<1>1. TokenLimit \in Nat /\ RequestLimit \in Nat
  BY RateLimiterAssumption
<1>2. \/ AfterRequests(n) = "impossible"
      \/ AfterRequests(n) = "ok" /\ n = 0
      \/ AfterRequests(n) = "tokensClock" /\ n \in 1..TokenLimit
  <2>1. CASE n = 0
    BY <2>1 DEF AfterRequests
  <2>2. CASE n # 0 /\ n > TokenLimit
    BY <2>2 DEF AfterRequests
  <2>3. CASE n # 0 /\ ~(n > TokenLimit)
    BY <1>1, <2>3 DEF AfterRequests
  <2> QED
    BY <2>1, <2>2, <2>3
<1>3. \/ FirstStep(n) = "requestsClock" /\ RequestLimit # 0
      \/ FirstStep(n) = AfterRequests(n) /\ RequestLimit = 0
  BY DEF FirstStep
<1> QED
  BY <1>2, <1>3

\* Cells asked of a limiter are at least one, and no more than its quota.
LEMMA CellsInQuota ==
    ASSUME TypeOK, NEW c \in Callers
    PROVE  /\ pc[c] = "tokens" => tokens[c] \in 1..Quota("tokens") /\ "tokens" \in Limiters
           /\ pc[c] = "requests" => 1 \in 1..Quota("requests") /\ "requests" \in Limiters
  BY RateLimiterAssumption DEF TypeOK, Quota, Limiters

LEMMA TypeNext ==
    ASSUME RateInv, [Next]_vars
    PROVE  TypeOK'
<1> USE DEF RateInv
<1>0. RequestLimit \in Nat /\ TokenLimit \in Nat /\ TokenLimit # 0 /\ CallTokens \subseteq Nat
  BY RateLimiterAssumption
<1>1. CASE Tick
  BY <1>1 DEF Tick, TypeOK, local, history
<1>2. ASSUME NEW c \in Callers, NEW n \in CallTokens, StartCheck(c, n)
      PROVE  TypeOK'
  <2>1. n \in Nat
    BY <1>0
  <2> USE DEF StartCheck, Goto, TypeOK, Slotted
  <2>2. alone' \in [Callers -> BOOLEAN] /\ refusals' \in [Callers -> Nat]
    BY <1>2
  <2>3. pc' = [pc EXCEPT ![c] = FirstStep(n)]
    BY <1>2
  <2>4. FirstStep(n) \in {"requestsClock", "ok", "impossible", "tokensClock"}
    BY <2>1, Forks
  <2> QED
    BY <1>2, <2>1, <2>2, <2>3, <2>4, Forks
<1>3. ASSUME NEW c \in Callers, NEW l \in Limiters, ReadClock(c, l)
      PROVE  TypeOK'
  BY <1>3, Names DEF ReadClock, Goto, TypeOK, Slotted, history
<1>4. ASSUME NEW c \in Callers, TakeRequest(c)
      PROVE  TypeOK'
  <2>1. arrival' \in [Limiters -> Nat]
    BY <1>4, CellsInQuota, AdmitKeeps DEF TakeRequest, QuotaInv, TypeOK
  <2>2. tokens[c] \in Nat
    BY DEF TypeOK
  <2> QED
    BY <1>4, <2>1, <2>2, Forks DEF TakeRequest, Goto, TypeOK, Slotted, local
<1>5. ASSUME NEW c \in Callers, TakeTokens(c)
      PROVE  TypeOK'
  <2>1. arrival' \in [Limiters -> Nat]
    BY <1>5, CellsInQuota, AdmitKeeps DEF TakeTokens, QuotaInv, TypeOK
  <2> QED
    BY <1>5, <2>1 DEF TakeTokens, Goto, TypeOK, Slotted, local
<1>6. ASSUME NEW c \in Callers, NEW l \in Limiters, Refuse(c, l)
      PROVE  TypeOK'
  <2>1. Earliest(l, Cells(c, l)) \in Nat
    BY EarliestNat DEF Cells, TypeOK
  <2> QED
    BY <1>6, <2>1, Names DEF Refuse, Goto, TypeOK, Slotted, history
<1>7. ASSUME NEW c \in Callers, NEW l \in Limiters, Limited(c, l)
      PROVE  TypeOK'
  <2> DEFINE wait == IF clock[c] > now THEN clock[c] - now ELSE 0
  <2>1. wait \in Nat /\ now \in Nat /\ refusals[c] \in Nat
    BY DEF TypeOK
  <2>2. now + RetryAfter(wait) \in Nat
    BY <2>1, RetryLongEnough
  <2>3. Return(c, tokens[c], now + RetryAfter(wait))
    BY <1>7 DEF Limited
  <2> HIDE DEF wait
  <2> QED
    BY <1>7, <2>1, <2>2, <2>3 DEF Limited, Return, Goto, TypeOK, Slotted
<1>8. ASSUME NEW c \in Callers, Pass(c)
      PROVE  TypeOK'
  BY <1>8 DEF Pass, Return, Goto, TypeOK, Slotted
<1>9. ASSUME NEW c \in Callers, Impossible(c)
      PROVE  TypeOK'
  BY <1>9 DEF Impossible, Return, Goto, TypeOK, Slotted
<1>10. CASE UNCHANGED vars
  BY <1>10 DEF vars, local, history, TypeOK
<1> QED
  BY <1>1, <1>2, <1>3, <1>4, <1>5, <1>6, <1>7, <1>8, <1>9, <1>10 DEF Next

-------------------------------------------------------------------------------
(***************************************************************************)
(* The quotas                                                              *)
(***************************************************************************)
\* A step of one caller moves the sums by what it moves that caller's share.
LEMMA OneShare ==
    ASSUME TypeOK, TypeOK', NEW c \in Callers,
           \A d \in Callers \ {c} : pc'[d] = pc[d] /\ tokens'[d] = tokens[d]
    PROVE  /\ TokensIn \in Nat /\ CallsIn \in Nat /\ TokensIn' \in Nat /\ CallsIn' \in Nat
           /\ TokensIn' = passed'.tokens + (TokensIn - passed.tokens)
                            - (IF pc[c] = "ok" THEN tokens[c] ELSE 0)
                            + (IF pc'[c] = "ok" THEN tokens'[c] ELSE 0)
           /\ CallsIn' = passed'.calls + (CallsIn - passed.calls)
                            - (IF pc[c] \in Slotted THEN 1 ELSE 0)
                            + (IF pc'[c] \in Slotted THEN 1 ELSE 0)
<1> DEFINE f == TokensDue
           g == TokensDue'
           F == SlotsDue
           G == SlotsDue'
<1>0. IsFiniteSet(Callers)
  BY RateLimiterAssumption
<1>1. \A d \in Callers : f[d] = (IF pc[d] = "ok" THEN tokens[d] ELSE 0) /\ f[d] \in Nat
  BY DEF TokensDue, TypeOK
<1>2. \A d \in Callers : g[d] = (IF pc'[d] = "ok" THEN tokens'[d] ELSE 0) /\ g[d] \in Nat
  BY DEF TokensDue, TypeOK
<1>3. \A d \in Callers : F[d] = (IF pc[d] \in Slotted THEN 1 ELSE 0) /\ F[d] \in Nat
  BY DEF SlotsDue
<1>4. \A d \in Callers : G[d] = (IF pc'[d] \in Slotted THEN 1 ELSE 0) /\ G[d] \in Nat
  BY DEF SlotsDue
<1>5. /\ TokensIn = passed.tokens + SumOf(f, Callers) /\ CallsIn = passed.calls + SumOf(F, Callers)
      /\ TokensIn' = passed'.tokens + SumOf(g, Callers) /\ CallsIn' = passed'.calls + SumOf(G, Callers)
  BY DEF TokensIn, CallsIn
<1>6. \A d \in Callers \ {c} : f[d] = g[d] /\ F[d] = G[d]
  BY <1>1, <1>2, <1>3, <1>4
<1> HIDE DEF f, g, F, G
<1>7. SumOf(f, Callers) \in Nat /\ SumOf(F, Callers) \in Nat
  BY <1>0, <1>1, <1>3, SumNat
<1>8. SumOf(g, Callers) = SumOf(f, Callers) - f[c] + g[c] /\ SumOf(g, Callers) \in Nat
  BY <1>0, <1>1, <1>2, <1>6, SumChange, SumNat
<1>9. SumOf(G, Callers) = SumOf(F, Callers) - F[c] + G[c] /\ SumOf(G, Callers) \in Nat
  BY <1>0, <1>3, <1>4, <1>6, SumChange, SumNat
<1>10. /\ passed.tokens \in Nat /\ passed.calls \in Nat
       /\ passed'.tokens \in Nat /\ passed'.calls \in Nat
  BY DEF TypeOK
<1> QED
  BY <1>1, <1>2, <1>3, <1>4, <1>5, <1>7, <1>8, <1>9, <1>10

\* A step in which no limiter lets anything pass.
LEMMA QuietQuota ==
    ASSUME RateInv, TypeOK', arrival' = arrival, now <= now',
           TokensIn \in Nat, CallsIn \in Nat, TokensIn' \in Nat, CallsIn' \in Nat,
           TokensIn' <= TokensIn, RequestLimit # 0 => CallsIn' <= CallsIn
    PROVE  QuotaInv'
<1>1. \A l \in Limiters : /\ Interval(l) \in Nat /\ Minute \in Nat /\ arrival[l] \in Nat
                          /\ arrival[l] <= now + Minute
  BY LimiterFacts DEF RateInv, QuotaInv, TypeOK
<1>2. now \in Nat /\ now' \in Nat
  BY DEF RateInv, TypeOK
<1>3. "tokens" \in Limiters /\ (RequestLimit # 0 => "requests" \in Limiters)
  BY DEF Limiters
<1>4. \A l \in Limiters : arrival'[l] <= now' + Minute
  BY <1>1, <1>2
<1>5. Interval("tokens") * TokensIn' <= Interval("tokens") * TokensIn
  BY <1>1, <1>3, Products
<1>6. RequestLimit # 0 => Interval("requests") * CallsIn' <= Interval("requests") * CallsIn
  BY <1>1, <1>3, Products
<1>7. /\ Interval("tokens") * TokensIn' \in Nat /\ Interval("tokens") * TokensIn \in Nat
      /\ RequestLimit # 0 => /\ Interval("requests") * CallsIn' \in Nat
                             /\ Interval("requests") * CallsIn \in Nat
  BY <1>1, <1>3, Products
<1> DEFINE a == Interval("tokens") * TokensIn
           b == Interval("tokens") * TokensIn'
           p == Interval("requests") * CallsIn
           q == Interval("requests") * CallsIn'
<1>8. a <= arrival["tokens"] /\ (RequestLimit # 0 => p <= arrival["requests"])
  BY DEF RateInv, QuotaInv
<1>9. a \in Nat /\ b \in Nat /\ b <= a /\ (RequestLimit # 0 => p \in Nat /\ q \in Nat /\ q <= p)
  BY <1>5, <1>6, <1>7
<1> HIDE DEF a, b, p, q
<1>10. b <= arrival["tokens"] /\ (RequestLimit # 0 => q <= arrival["requests"])
  BY <1>1, <1>3, <1>8, <1>9
<1> QED
  BY <1>4, <1>10, LimiterFacts DEF QuotaInv, Interval, Quota, b, q

\* A step of caller c leaves what the others ask for alone.
CallerStep(c) ==
    \/ \E n \in CallTokens : StartCheck(c, n)
    \/ TakeRequest(c) \/ TakeTokens(c) \/ Pass(c) \/ Impossible(c)
    \/ \E l \in Limiters : ReadClock(c, l) \/ Refuse(c, l) \/ Limited(c, l)

LEMMA OthersStand ==
    ASSUME TypeOK, NEW c \in Callers, CallerStep(c)
    PROVE  \A d \in Callers \ {c} :
             pc'[d] = pc[d] /\ tokens'[d] = tokens[d] /\ clock'[d] = clock[d] /\ until'[d] = until[d]
  BY DEF CallerStep, StartCheck, TakeRequest, TakeTokens, Pass, Impossible, ReadClock, Refuse,
     Limited, Return, Goto, TypeOK, local, history

\* The quotas are kept by every step.
LEMMA QuotaNext ==
    ASSUME RateInv, TypeOK', [Next]_vars
    PROVE  QuotaInv'
<1> USE DEF RateInv
<1>0. ASSUME NEW c \in Callers, CallerStep(c)
      PROVE  /\ TokensIn \in Nat /\ CallsIn \in Nat /\ TokensIn' \in Nat /\ CallsIn' \in Nat
             /\ TokensIn' = passed'.tokens + (TokensIn - passed.tokens)
                              - (IF pc[c] = "ok" THEN tokens[c] ELSE 0)
                              + (IF pc'[c] = "ok" THEN tokens'[c] ELSE 0)
             /\ CallsIn' = passed'.calls + (CallsIn - passed.calls)
                              - (IF pc[c] \in Slotted THEN 1 ELSE 0)
                              + (IF pc'[c] \in Slotted THEN 1 ELSE 0)
  BY <1>0, OthersStand, OneShare
<1>00. /\ now \in Nat /\ passed.calls \in Nat /\ passed.tokens \in Nat
       /\ \A c \in Callers : tokens[c] \in Nat
  BY DEF TypeOK
<1>1. CASE Tick \/ UNCHANGED vars
  <2>1. /\ arrival' = arrival /\ passed' = passed /\ tokens' = tokens /\ pc' = pc
        /\ now' = now + 1 \/ now' = now
    BY <1>1 DEF Tick, vars, local, history
  <2>2. TokensIn' = TokensIn /\ CallsIn' = CallsIn
    BY <2>1 DEF TokensIn, CallsIn, TokensDue, SlotsDue
  <2>3. TokensIn \in Nat /\ CallsIn \in Nat
    <3>1. IsFiniteSet(Callers)
      BY RateLimiterAssumption
    <3>2. \A c \in Callers : TokensDue[c] \in Nat /\ SlotsDue[c] \in Nat
      BY DEF TokensDue, SlotsDue, TypeOK
    <3>3. SumOf(TokensDue, Callers) \in Nat /\ SumOf(SlotsDue, Callers) \in Nat
      BY <3>1, <3>2, SumNat
    <3> QED
      BY <1>00, <3>3 DEF TokensIn, CallsIn
  <2> QED
    BY <1>00, <2>1, <2>2, <2>3, QuietQuota
<1>2. ASSUME NEW c \in Callers, NEW n \in CallTokens, StartCheck(c, n)
      PROVE  QuotaInv'
  <2>1. /\ pc[c] = "idle" /\ pc'[c] = FirstStep(n) /\ tokens'[c] = n
        /\ arrival' = arrival /\ now' = now /\ passed' = passed
    BY <1>2 DEF StartCheck, Goto, TypeOK
  <2>2. n \in Nat
    BY RateLimiterAssumption
  <2>3. /\ pc'[c] = "ok" => tokens'[c] = 0
        /\ RequestLimit # 0 => pc'[c] \notin Slotted
    BY <2>1, <2>2, Forks DEF Slotted
  <2>4. CallerStep(c)
    BY <1>2 DEF CallerStep
  <2>5. TokensIn' <= TokensIn /\ (RequestLimit # 0 => CallsIn' <= CallsIn)
    BY <1>0, <1>00, <2>1, <2>3, <2>4
  <2> QED
    BY <1>0, <1>00, <2>1, <2>4, <2>5, QuietQuota
<1>3. ASSUME NEW c \in Callers, NEW l \in Limiters, ReadClock(c, l) \/ Refuse(c, l) \/ Limited(c, l)
      PROVE  QuotaInv'
  <2>1. CallerStep(c) /\ arrival' = arrival /\ now' = now /\ passed' = passed
    BY <1>3 DEF CallerStep, ReadClock, Refuse, Limited, history
  <2>2. pc'[c] # "ok" /\ (pc'[c] \in Slotted => pc[c] \in Slotted)
    BY <1>3, Names DEF ReadClock, Refuse, Limited, Return, Goto, TypeOK, Slotted
  <2>3. pc[c] # "ok"
    BY <1>3, Names DEF ReadClock, Refuse, Limited
  <2>4. TokensIn' <= TokensIn /\ CallsIn' <= CallsIn
    BY <1>0, <1>00, <2>1, <2>2, <2>3
  <2> QED
    BY <1>0, <1>00, <2>1, <2>4, QuietQuota
<1>4. ASSUME NEW c \in Callers, Pass(c) \/ Impossible(c)
      PROVE  QuotaInv'
  <2>1. CallerStep(c) /\ arrival' = arrival /\ now' = now /\ pc'[c] = "idle"
    BY <1>4 DEF CallerStep, Pass, Impossible, Return, Goto, TypeOK
  <2>2. \/ /\ pc[c] = "ok" /\ passed'.calls = passed.calls + 1
           /\ passed'.tokens = passed.tokens + tokens[c]
        \/ pc[c] = "impossible" /\ passed' = passed
    BY <1>4 DEF Pass, Impossible
  <2>3. TokensIn' <= TokensIn /\ CallsIn' <= CallsIn
    BY <1>0, <1>00, <2>1, <2>2 DEF Slotted
  <2> QED
    BY <1>0, <1>00, <2>1, <2>3, QuietQuota
<1>5. ASSUME NEW c \in Callers, TakeTokens(c)
      PROVE  QuotaInv'
  <2> DEFINE k == Interval("tokens")
             n == tokens[c]
  <2>1. /\ CallerStep(c) /\ Admit(c, "tokens", n) /\ now' = now /\ passed' = passed
        /\ pc[c] = "tokens" /\ pc'[c] = "ok" /\ tokens' = tokens
    BY <1>5 DEF CallerStep, TakeTokens, Goto, TypeOK, local
  <2>2. n \in 1..Quota("tokens") /\ "tokens" \in Limiters /\ clock[c] <= now
    BY <2>1, CellsInQuota DEF TypeOK
  <2>3. arrival["tokens"] <= now + Minute
    BY <2>2 DEF QuotaInv
  <2>4. /\ arrival'["tokens"] <= now + Minute
        /\ arrival["tokens"] + k * n <= arrival'["tokens"]
        /\ \A m \in Limiters \ {"tokens"} : arrival'[m] = arrival[m]
    BY <2>1, <2>2, <2>3, AdmitKeeps
  <2>5. TokensIn' = TokensIn + n /\ CallsIn' = CallsIn /\ TokensIn \in Nat
    BY <1>0, <1>00, <2>1 DEF Slotted
  <2>6. k \in Nat /\ n \in Nat
    BY <1>00, <2>2, LimiterFacts
  <2>7. k * TokensIn' = k * TokensIn + k * n /\ k * TokensIn \in Nat /\ k * n \in Nat
    BY <2>5, <2>6, Products
  <2>8. k * TokensIn <= arrival["tokens"]
    BY DEF QuotaInv
  <2>9. arrival["tokens"] \in Nat /\ arrival'["tokens"] \in Nat
    BY <2>2 DEF TypeOK
  <2> DEFINE x == k * TokensIn
             y == k * TokensIn'
             z == k * n
  <2>10. y <= arrival'["tokens"]
    <3>1. x \in Nat /\ z \in Nat /\ y = x + z /\ x <= arrival["tokens"]
      BY <2>7, <2>8
    <3>2. arrival["tokens"] + z <= arrival'["tokens"]
      BY <2>4
    <3> HIDE DEF x, y, z
    <3> QED
      BY <2>9, <3>1, <3>2
  <2>11. RequestLimit # 0 => Interval("requests") * CallsIn' <= arrival'["requests"]
    <3>1. RequestLimit # 0 => arrival'["requests"] = arrival["requests"]
      BY <2>4 DEF Limiters
    <3> QED
      BY <2>5, <3>1 DEF QuotaInv
  <2>12. \A m \in Limiters : arrival'[m] <= now' + Minute
    BY <2>1, <2>4 DEF QuotaInv
  <2> QED
    BY <2>10, <2>11, <2>12 DEF QuotaInv, Interval, Quota
<1>6. ASSUME NEW c \in Callers, TakeRequest(c)
      PROVE  QuotaInv'
  <2> DEFINE k == Interval("requests")
  <2>1. /\ CallerStep(c) /\ Admit(c, "requests", 1) /\ now' = now /\ passed' = passed
        /\ pc[c] = "requests" /\ pc'[c] = AfterRequests(tokens[c]) /\ tokens' = tokens
    BY <1>6 DEF CallerStep, TakeRequest, Goto, TypeOK, local
  <2>2. 1 \in 1..Quota("requests") /\ "requests" \in Limiters /\ clock[c] <= now
    BY <2>1, CellsInQuota DEF TypeOK
  <2>3. arrival["requests"] <= now + Minute
    BY <2>2 DEF QuotaInv
  <2>4. /\ arrival'["requests"] <= now + Minute
        /\ arrival["requests"] + k * 1 <= arrival'["requests"]
        /\ \A m \in Limiters \ {"requests"} : arrival'[m] = arrival[m]
    BY <2>1, <2>2, <2>3, AdmitKeeps
  <2>5. pc'[c] \in Slotted /\ (pc'[c] = "ok" => tokens'[c] = 0)
    BY <1>00, <2>1, Forks DEF Slotted
  <2>6. TokensIn' = TokensIn /\ CallsIn' = CallsIn + 1 /\ CallsIn \in Nat
    BY <1>0, <1>00, <2>1, <2>5 DEF Slotted
  <2>7. k \in Nat
    BY <2>2, LimiterFacts
  <2>8. k * CallsIn' = k * CallsIn + k * 1 /\ k * CallsIn \in Nat /\ k * 1 \in Nat
    BY <2>6, <2>7, Products
  <2>9. arrival["requests"] \in Nat /\ arrival'["requests"] \in Nat
    BY <2>2 DEF TypeOK
  <2> DEFINE x == k * CallsIn
             y == k * CallsIn'
             z == k * 1
  <2>10. RequestLimit # 0 => y <= arrival'["requests"]
    <3>1. x \in Nat /\ z \in Nat /\ y = x + z
      BY <2>8
    <3>2. arrival["requests"] + z <= arrival'["requests"]
      BY <2>4
    <3>3. RequestLimit # 0 => x <= arrival["requests"]
      BY DEF QuotaInv
    <3> HIDE DEF x, y, z
    <3> QED
      BY <2>9, <3>1, <3>2, <3>3
  <2>11. Interval("tokens") * TokensIn' <= arrival'["tokens"]
    <3>1. arrival'["tokens"] = arrival["tokens"]
      BY <2>4 DEF Limiters
    <3> QED
      BY <2>6, <3>1 DEF QuotaInv
  <2>12. \A m \in Limiters : arrival'[m] <= now' + Minute
    BY <2>1, <2>4 DEF QuotaInv
  <2> QED
    BY <2>10, <2>11, <2>12 DEF QuotaInv, Interval, Quota
<1> QED
  BY <1>1, <1>2, <1>3, <1>4, <1>5, <1>6 DEF Next

-------------------------------------------------------------------------------
(***************************************************************************)
(* Patience                                                                *)
(***************************************************************************)
\* When a limiter opens depends on its arrival time alone, and is a time.
LEMMA EarliestSame ==
    ASSUME NEW l, NEW n, arrival'[l] = arrival[l]
    PROVE  Earliest(l, n)' = Earliest(l, n)
  BY DEF Earliest

\* Nothing is claimed of a caller without refusals that is not alone.
LEMMA NothingClaimed ==
    ASSUME NEW c \in Callers, refusals'[c] = 0, pc'[c] # "idle" => ~alone'[c]
    PROVE  PatienceOf(c)'
  BY DEF PatienceOf

\* A call takes the count and the claims away from everyone else.
LEMMA OthersPatience ==
    ASSUME RateInv, NEW c \in Callers, CallerStep(c), NEW d \in Callers \ {c}
    PROVE  PatienceOf(d)'
<1> USE DEF RateInv
<1>1. pc'[d] = pc[d]
  BY OthersStand
<1>2. \/ /\ refusals'[d] = 0 /\ (pc[d] # "idle" => ~alone'[d])
      \/ pc[c] # "idle" /\ refusals'[d] = refusals[d] /\ alone'[d] = alone[d]
  <2>1. ASSUME NEW n \in CallTokens, StartCheck(c, n)
        PROVE  refusals'[d] = 0 /\ (pc[d] # "idle" => ~alone'[d])
    BY <2>1 DEF StartCheck
  <2>2. ASSUME ~\E n \in CallTokens : StartCheck(c, n)
        PROVE  pc[c] # "idle" /\ refusals'[d] = refusals[d] /\ alone'[d] = alone[d]
    BY <2>2, Names DEF CallerStep, TakeRequest, TakeTokens, Pass, Impossible, ReadClock,
       Refuse, Limited, TypeOK, history
  <2> QED
    BY <2>1, <2>2
<1>3. PatienceOf(d)
  BY DEF Patience
<1>4. pc[c] # "idle" => refusals[d] = 0 /\ (pc[d] # "idle" => ~alone[d])
  <2>1. refusals[d] \in Nat
    BY DEF TypeOK
  <2> QED
    BY <1>3, <2>1 DEF PatienceOf
<1> QED
  BY <1>1, <1>2, <1>4, NothingClaimed

\* A limiter that opens at a time is open from then on.
LEMMA TimePasses ==
    ASSUME RateInv, TypeOK', NEW c \in Callers,
           UNCHANGED <<arrival, pc, tokens, clock, until, alone, refusals>>, now <= now'
    PROVE  PatienceOf(c)'
<1> DEFINE er == Earliest("requests", 1)
           et == Earliest("tokens", tokens[c])
<1>1. Earliest("requests", 1)' = er /\ Earliest("tokens", tokens[c])' = et
  BY EarliestSame
<1>2. tokens[c] \in Nat /\ now \in Nat /\ now' \in Nat
  BY DEF RateInv, TypeOK
<1>3. /\ "tokens" \in Limiters => et \in Nat
      /\ "requests" \in Limiters => er \in Nat
  BY <1>2, EarliestNat DEF RateInv
<1>4. PatienceOf(c)
  BY DEF RateInv, Patience
<1> HIDE DEF er, et
<1>5. \A l \in {"requests", "tokens"}, t \in Nat, u \in Nat :
        Opens(c, l, t) /\ t <= u => Opens(c, l, u)'
  BY <1>1, <1>3 DEF Opens, Cells, er, et
<1> QED
  BY <1>1, <1>2, <1>3, <1>4 DEF PatienceOf, Opens, When, Cells, er, et

\* A call keeps what is claimed of its caller.
LEMMA OwnPatience ==
    ASSUME RateInv, TypeOK', NEW c \in Callers, CallerStep(c)
    PROVE  PatienceOf(c)'
<1> USE DEF RateInv
<1> DEFINE er == Earliest("requests", 1)
           et == Earliest("tokens", tokens[c])
           k == refusals[c]
<1>1. /\ tokens[c] \in Nat /\ now \in Nat /\ clock[c] \in Nat /\ until[c] \in Nat /\ k \in Nat
      /\ Micro \in Nat \ {0} /\ alone[c] \in BOOLEAN
  BY RateLimiterAssumption DEF TypeOK
<1>2. /\ "tokens" \in Limiters /\ et \in Nat
      /\ "requests" \in Limiters <=> RequestLimit # 0
      /\ RequestLimit # 0 => er \in Nat
  <2>1. "tokens" \in Limiters /\ ("requests" \in Limiters <=> RequestLimit # 0)
    BY DEF Limiters
  <2> QED
    BY <1>1, <2>1, EarliestNat
<1>3. /\ k <= 3
      /\ (pc[c] # "idle" /\ alone[c]) \/ k > 0 => \A d \in Callers \ {c} : pc[d] = "idle"
      /\ pc[c] # "idle" /\ k > 0 => alone[c]
      /\ pc[c] \in {"idle", "requestsClock", "requests"} =>
           /\ k = 1 => (RequestLimit # 0 /\ When(c) >= er) \/ When(c) >= et
           /\ k > 1 => When(c) >= et
           /\ k = 3 /\ RequestLimit # 0 => When(c) >= er
      /\ pc[c] \in {"tokensClock", "tokens"} /\ k > 1 => When(c) >= et
      /\ pc[c] = "requestsLimited" /\ alone[c] =>
           clock[c] >= er /\ k < 3 /\ (k > 0 => now >= et)
      /\ pc[c] = "tokensLimited" /\ alone[c] => clock[c] >= et /\ k < 2
  BY <1>2 DEF Patience, PatienceOf, Opens, Cells
<1>4. \A d \in Callers \ {c} : pc'[d] = pc[d]
  BY OthersStand
<1>5. /\ arrival'["requests"] = arrival["requests"] => Earliest("requests", 1)' = er
      /\ arrival'["tokens"] = arrival["tokens"] /\ tokens'[c] = tokens[c] =>
           Earliest("tokens", tokens[c])' = et
  <2>1. arrival'["tokens"] = arrival["tokens"] /\ tokens'[c] = tokens[c] =>
          Earliest("tokens", tokens[c])' = et
    BY DEF Earliest
  <2> QED
    BY <2>1, EarliestSame
<1> HIDE DEF er, et, k
<1>6. ASSUME NEW n \in CallTokens, StartCheck(c, n)
      PROVE  PatienceOf(c)'
  <2>1. /\ pc[c] = "idle" /\ pc'[c] = FirstStep(n) /\ tokens'[c] = n
        /\ arrival' = arrival /\ now' = now
        /\ alone'[c] = (pc[c] = "idle" /\ \A v \in Callers \ {c} : pc[v] = "idle")
        /\ refusals'[c] = IF n = tokens[c] /\ now >= until[c] + Micro - 1 THEN k ELSE 0
    BY <1>6 DEF StartCheck, Goto, TypeOK, k
  <2>2. pc'[c] \in {"requestsClock", "ok", "impossible", "tokensClock"}
    <3>1. n \in Nat
      BY RateLimiterAssumption
    <3> QED
      BY <2>1, <3>1, Forks
  <2>3. When(c) = until[c] + Micro - 1 /\ When(c)' = now
    BY <2>1, <2>2 DEF When
  <2>4. /\ refusals'[c] \in Nat /\ refusals'[c] <= 3
        /\ refusals'[c] > 0 => refusals'[c] = k /\ n = tokens[c] /\ now >= When(c)
    BY <1>1, <1>3, <2>1, <2>3
  <2>5. refusals'[c] > 0 => Earliest("requests", 1)' = er /\ Earliest("tokens", tokens[c])' = et
    BY <1>5, <2>1, <2>4
  <2>6. /\ refusals'[c] > 0 => alone'[c]
        /\ alone'[c] => \A d \in Callers \ {c} : pc'[d] = "idle"
    BY <1>3, <1>4, <2>1, <2>4
  <2>7. /\ refusals'[c] = 1 => (RequestLimit # 0 /\ now >= er) \/ now >= et
        /\ refusals'[c] > 1 => now >= et
        /\ refusals'[c] = 3 /\ RequestLimit # 0 => now >= er
    BY <1>1, <1>2, <1>3, <2>1, <2>3, <2>4
  <2> QED
    BY <1>2, <2>2, <2>3, <2>4, <2>5, <2>6, <2>7 DEF PatienceOf, Opens, Cells
<1>7. ASSUME NEW l \in Limiters, ReadClock(c, l)
      PROVE  PatienceOf(c)'
  <2>1. /\ pc[c] = AtClock(l) /\ pc'[c] = l /\ clock'[c] = now
        /\ UNCHANGED <<now, arrival, tokens, alone, refusals>>
    BY <1>7 DEF ReadClock, Goto, TypeOK, history
  <2>2. /\ pc[c] \in {"tokensClock", "requestsClock"} /\ pc'[c] \in {"tokens", "requests"}
        /\ pc[c] = "tokensClock" <=> pc'[c] = "tokens"
    BY <2>1, Names
  <2>3. When(c) = now /\ When(c)' = now
    BY <2>1, <2>2 DEF When
  <2>4. Earliest("requests", 1)' = er /\ Earliest("tokens", tokens[c])' = et
    BY <1>5, <2>1
  <2> QED
    BY <1>1, <1>2, <1>3, <1>4, <2>1, <2>2, <2>3, <2>4 DEF PatienceOf, Opens, Cells, k
<1>8. ASSUME TakeRequest(c)
      PROVE  PatienceOf(c)'
  <2>1. /\ pc[c] = "requests" /\ pc'[c] = AfterRequests(tokens[c])
        /\ UNCHANGED <<now, tokens, clock, alone, refusals>>
        /\ arrival' = [arrival EXCEPT !["requests"] = arrival'["requests"]]
    BY <1>8 DEF TakeRequest, Admit, Goto, TypeOK, local
  <2>2. pc'[c] \in {"ok", "impossible", "tokensClock"}
    BY <1>1, <2>1, Forks
  <2>3. arrival'["tokens"] = arrival["tokens"]
    BY <1>2, <2>1 DEF TypeOK
  <2>4. Earliest("tokens", tokens[c])' = et
    BY <1>5, <2>1, <2>3
  <2>5. When(c) = clock[c] /\ clock[c] <= now /\ When(c)' = now
    BY <2>1, <2>2 DEF When, TypeOK
  <2> QED
    BY <1>1, <1>2, <1>3, <1>4, <2>1, <2>2, <2>4, <2>5 DEF PatienceOf, Opens, Cells, k
<1>9. ASSUME TakeTokens(c)
      PROVE  PatienceOf(c)'
  <2>1. pc[c] = "tokens" /\ pc'[c] = "ok" /\ UNCHANGED <<alone, refusals>>
    BY <1>9 DEF TakeTokens, Goto, TypeOK
  <2> QED
    BY <1>1, <1>3, <1>4, <2>1 DEF PatienceOf, k
<1>10. ASSUME NEW l \in Limiters, Refuse(c, l)
       PROVE  PatienceOf(c)'
  <2>1. /\ pc[c] = l /\ pc'[c] = AtLimited(l)
        /\ clock[c] < Earliest(l, Cells(c, l)) /\ clock'[c] = Earliest(l, Cells(c, l))
        /\ UNCHANGED <<now, arrival, tokens, alone, refusals>>
    BY <1>10 DEF Refuse, Goto, TypeOK, history
  <2>2. Earliest("requests", 1)' = er /\ Earliest("tokens", tokens[c])' = et
    BY <1>5, <2>1
  <2>3. clock[c] <= now /\ When(c) = clock[c]
    BY <2>1, Names DEF TypeOK, When
  <2>4. \/ /\ pc[c] = "tokens" /\ pc'[c] = "tokensLimited"
           /\ clock[c] < et /\ clock'[c] = et
        \/ /\ pc[c] = "requests" /\ pc'[c] = "requestsLimited" /\ RequestLimit # 0
           /\ clock[c] < er /\ clock'[c] = er
    BY <2>1, Names DEF Cells, er, et
  <2> QED
    BY <1>1, <1>2, <1>3, <1>4, <2>1, <2>2, <2>3, <2>4 DEF PatienceOf, Opens, Cells, k
<1>11. ASSUME NEW l \in Limiters, Limited(c, l)
       PROVE  PatienceOf(c)'
  <2> DEFINE wait == IF clock[c] > now THEN clock[c] - now ELSE 0
             back == now + RetryAfter(wait)
  <2>1. /\ pc[c] = AtLimited(l) /\ pc'[c] = "idle" /\ until'[c] = back
        /\ UNCHANGED <<now, arrival>> /\ tokens'[c] = tokens[c]
        /\ refusals'[c] = IF alone[c] THEN k + 1 ELSE 0
    BY <1>11 DEF Limited, Return, Goto, TypeOK, k
  <2>2. wait \in Nat /\ wait >= clock[c] - now
    BY <1>1
  <2>3. RetryAfter(wait) \in Nat /\ RetryAfter(wait) + Micro > wait
    BY <2>2, RetryLongEnough
  <2>4. back \in Nat /\ back + Micro - 1 >= clock[c] /\ back + Micro - 1 >= now
    <3> HIDE DEF wait
    <3> QED
      BY <1>1, <2>2, <2>3
  <2> HIDE DEF back
  <2>5. When(c)' = back + Micro - 1
    BY <2>1 DEF When
  <2>6. Earliest("requests", 1)' = er /\ Earliest("tokens", tokens[c])' = et
    BY <1>5, <2>1
  <2>7. \/ pc[c] = "tokensLimited"
        \/ pc[c] = "requestsLimited" /\ RequestLimit # 0
    BY <2>1, Names
  <2> DEFINE w == When(c)'
             r == refusals'[c]
  <2>8. w >= clock[c] /\ w >= now /\ w \in Int
    BY <1>1, <2>4, <2>5
  <2>9. r = (IF alone[c] THEN k + 1 ELSE 0)
    BY <2>1
  <2> HIDE DEF w, r
  <2>10. /\ r <= 3
         /\ r = 1 => (RequestLimit # 0 /\ w >= er) \/ w >= et
         /\ r > 1 => w >= et
         /\ r = 3 /\ RequestLimit # 0 => w >= er
         /\ r > 0 => alone[c]
    BY <1>1, <1>2, <1>3, <2>7, <2>8, <2>9
  <2>11. r > 0 => \A d \in Callers \ {c} : pc'[d] = "idle"
    BY <1>3, <1>4, <2>7, <2>10
  <2> QED
    BY <1>2, <2>1, <2>6, <2>10, <2>11 DEF PatienceOf, Opens, Cells, w, r
<1>12. ASSUME Pass(c) \/ Impossible(c)
       PROVE  PatienceOf(c)'
  <2>1. pc'[c] = "idle" /\ refusals'[c] = 0
    BY <1>12 DEF Pass, Impossible, Return, Goto, TypeOK
  <2> QED
    BY <2>1, NothingClaimed
<1> QED
  BY <1>6, <1>7, <1>8, <1>9, <1>10, <1>11, <1>12 DEF CallerStep

\* The claims hold on after every step.
LEMMA PatienceNext ==
    ASSUME RateInv, TypeOK', [Next]_vars
    PROVE  Patience'
<1>1. CASE Tick \/ UNCHANGED vars
  <2>1. /\ UNCHANGED <<arrival, pc, tokens, clock, until, alone, refusals>>
        /\ now' = now \/ now' = now + 1
    BY <1>1 DEF Tick, vars, local, history
  <2>2. now \in Nat
    BY DEF RateInv, TypeOK
  <2> QED
    BY <2>1, <2>2, TimePasses DEF Patience
<1>2. ASSUME NEW c \in Callers, CallerStep(c)
      PROVE  Patience'
  BY <1>2, OwnPatience, OthersPatience DEF Patience
<1> QED
  BY <1>1, <1>2 DEF Next, CallerStep

-------------------------------------------------------------------------------
\* At the start nobody has called.
LEMMA RateInit == Init => RateInv
<1> SUFFICES ASSUME Init
             PROVE  RateInv
  OBVIOUS
<1>1. TypeOK
  BY DEF Init, TypeOK, Slotted
<1>2. TokensIn = 0 /\ CallsIn = 0
  <2>1. IsFiniteSet(Callers)
    BY RateLimiterAssumption
  <2>2. \A c \in Callers : TokensDue[c] = 0 /\ SlotsDue[c] = 0
    BY DEF Init, TokensDue, SlotsDue, Slotted
  <2>3. SumOf(TokensDue, Callers) = 0 /\ SumOf(SlotsDue, Callers) = 0
    BY <2>1, <2>2, SumZero
  <2> QED
    BY <2>3 DEF Init, TokensIn, CallsIn
<1>3. \A l \in Limiters : Interval(l) * 0 = 0 /\ arrival[l] = 0 /\ Minute \in Nat
  <2>1. \A l \in Limiters : Interval(l) \in Nat /\ Minute \in Nat
    BY LimiterFacts
  <2> QED
    BY <2>1 DEF Init
<1>4. "tokens" \in Limiters /\ (RequestLimit # 0 => "requests" \in Limiters)
  BY DEF Limiters
<1>5. QuotaInv
  BY <1>2, <1>3, <1>4 DEF Init, QuotaInv
<1>6. Patience
  BY DEF Init, Patience, PatienceOf
<1> QED
  BY <1>1, <1>5, <1>6 DEF RateInv

\* The types, the quotas and the claims together are inductive.
THEOREM RateInvAlways == Spec => []RateInv
<1>1. RateInv /\ [Next]_vars => RateInv'
  BY TypeNext, QuotaNext, PatienceNext DEF RateInv
<1> QED
  BY <1>1, RateInit, PTL DEF Spec

\* The calls let pass and their tokens fit one whole quota and what has come back
\* of it, for any number of callers between their clock readings and the limiters:
\* what passed is no more than what the limiters' arrival times stand for.
THEOREM QuotaHolds == Spec => []QuotaKept
<1>1. RateInv => QuotaKept
  <2> SUFFICES ASSUME RateInv
               PROVE  QuotaKept
    OBVIOUS
  <2> USE DEF RateInv
  <2>1. IsFiniteSet(Callers)
    BY RateLimiterAssumption
  <2>2. \A c \in Callers : TokensDue[c] \in Nat /\ SlotsDue[c] \in Nat
    BY DEF TokensDue, SlotsDue, TypeOK
  <2>3. SumOf(TokensDue, Callers) \in Nat /\ SumOf(SlotsDue, Callers) \in Nat
    BY <2>1, <2>2, SumNat
  <2>4. /\ passed.tokens \in Nat /\ TokensIn \in Nat /\ passed.tokens <= TokensIn
        /\ passed.calls \in Nat /\ CallsIn \in Nat /\ passed.calls <= CallsIn
    BY <2>3 DEF TokensIn, CallsIn, TypeOK
  <2>5. "tokens" \in Limiters /\ (RequestLimit # 0 => "requests" \in Limiters)
    BY DEF Limiters
  <2>6. \A l \in Limiters : /\ Interval(l) \in Nat /\ Minute \in Nat /\ now \in Nat
                            /\ arrival[l] \in Nat /\ arrival[l] <= now + Minute
    BY LimiterFacts DEF QuotaInv, TypeOK
  <2>7. \A l \in Limiters, x \in Nat, y \in Nat : x <= y =>
          /\ Interval(l) * x \in Nat /\ Interval(l) * y \in Nat
          /\ Interval(l) * x <= Interval(l) * y
    BY <2>6, Products
  <2> DEFINE a == Interval("tokens") * passed.tokens
             b == Interval("tokens") * TokensIn
             p == Interval("requests") * passed.calls
             q == Interval("requests") * CallsIn
  <2>8. a \in Nat /\ b \in Nat /\ a <= b /\ b <= arrival["tokens"]
    BY <2>4, <2>5, <2>7 DEF QuotaInv
  <2>9. RequestLimit # 0 => p \in Nat /\ q \in Nat /\ p <= q /\ q <= arrival["requests"]
    BY <2>4, <2>5, <2>7 DEF QuotaInv
  <2> HIDE DEF a, b, p, q
  <2>10. a <= Minute + now /\ (RequestLimit # 0 => p <= Minute + now)
    BY <2>5, <2>6, <2>8, <2>9
  <2> QED
    BY <2>10 DEF QuotaKept, a, p
<1> QED
  BY <1>1, RateInvAlways, PTL

\* A caller nobody competes with is refused three times in a row at most, whatever
\* the quotas, the units of time and the tokens it asks for.
THEOREM PatienceRewarded == Spec => []PatientCallerPasses
<1>1. RateInv => PatientCallerPasses
  BY DEF RateInv, Patience, PatienceOf, PatientCallerPasses
<1> QED
  BY <1>1, RateInvAlways, PTL

\* Nobody is told to come back a microsecond or more too early.
THEOREM WaitLongEnough == Spec => NeverTooEarly
<1> DEFINE Early == \A c \in Callers :
             (\E l \in Limiters : pc[c] = AtLimited(l)) /\ pc'[c] = "idle"
                 => until'[c] + Micro > clock[c]
<1>1. RateInv /\ [Next]_vars => [Early]_vars
  <2> SUFFICES ASSUME RateInv, Next, NEW c \in Callers, NEW l \in Limiters,
                      pc[c] = AtLimited(l), pc'[c] = "idle"
               PROVE  until'[c] + Micro > clock[c]
    OBVIOUS
  <2> USE DEF RateInv
  <2>1. PICK m \in Limiters : Limited(c, m)
    <3>1. pc[c] \in {"tokensLimited", "requestsLimited"}
      BY Names
    <3>2. ASSUME Tick
          PROVE  FALSE
      BY <3>1, <3>2 DEF Tick
    <3>3. ASSUME NEW d \in Callers \ {c}, CallerStep(d)
          PROVE  FALSE
      BY <3>1, <3>3, OthersStand
    <3>4. ASSUME NEW n \in CallTokens, StartCheck(c, n)
          PROVE  FALSE
      BY <3>1, <3>4 DEF StartCheck
    <3>5. ASSUME TakeRequest(c) \/ TakeTokens(c) \/ Pass(c) \/ Impossible(c)
          PROVE  FALSE
      BY <3>1, <3>5 DEF TakeRequest, TakeTokens, Pass, Impossible
    <3>6. ASSUME NEW m \in Limiters, ReadClock(c, m) \/ Refuse(c, m)
          PROVE  FALSE
      BY <3>1, <3>6, Names DEF ReadClock, Refuse
    <3> QED
      BY <3>2, <3>3, <3>4, <3>5, <3>6 DEF Next, CallerStep
  <2> DEFINE wait == IF clock[c] > now THEN clock[c] - now ELSE 0
  <2>2. until'[c] = now + RetryAfter(wait)
    BY <2>1 DEF Limited, Return, TypeOK
  <2>3. clock[c] \in Nat /\ now \in Nat /\ wait \in Nat /\ wait >= clock[c] - now
    BY DEF TypeOK
  <2>4. Micro \in Nat /\ RetryAfter(wait) \in Nat /\ RetryAfter(wait) + Micro > wait
    BY <2>3, RetryLongEnough, RateLimiterAssumption
  <2> HIDE DEF wait
  <2> QED
    BY <2>2, <2>3, <2>4
<1>2. NeverTooEarly <=> [][Early]_vars
  BY DEF NeverTooEarly
<1> HIDE DEF Early
<1> QED
  BY <1>1, <1>2, RateInvAlways, PTL DEF Spec
===============================================================================
