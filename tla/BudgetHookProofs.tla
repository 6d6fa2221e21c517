--------------------------- MODULE BudgetHookProofs ---------------------------
(***************************************************************************)
(* Proofs about BudgetHook, for any number of runs and callers, any calls  *)
(* and any prices.                                                         *)
(***************************************************************************)
EXTENDS BudgetHook, SumProofs

-------------------------------------------------------------------------------
(***************************************************************************)
(* The operators of Metering, for every usage block, every price and every *)
(* width of the counts.                                                    *)
(***************************************************************************)
\* Every token of the prompt is billed once: the parts that fresh_input_tokens
\* and cost_usage bill at the three prompt prices add up to the prompt, for any
\* contents of the public fields, whether cached and written tokens fit into the
\* input or not.
THEOREM BilledOnce ==
    ASSUME NEW u \in Usages
    PROVE  FreshInput(u) + BilledRead(u) + BilledWrite(u) = u.input
  <1> u.input \in Int /\ u.cached \in Int /\ u.written \in Int
      /\ 0 <= u.input /\ 0 <= u.cached /\ 0 <= u.written
    BY MeteringAssumption DEF Usages, U64
  <1> QED
    BY DEF FreshInput, BilledRead, BilledWrite, SaturatingSub, Lesser

\* A count read from a usage block is a u64.
LEMMA CountInWidth ==
    ASSUME NEW object, NEW field,
           \A f \in DOMAIN object : object[f] \in U64
    PROVE  N(object, field) \in U64
  BY MeteringAssumption DEF N, Has, U64

\* Both shapes of a prompt count lead to counts that fit their fields.
LEMMA InclusiveInWidth ==
    ASSUME NEW input \in U64, NEW cached \in U64, NEW output \in U64
    PROVE  /\ Inclusive(input, cached, output) \in Usages
           /\ Inclusive(input, cached, output).cached
                + Inclusive(input, cached, output).written
                    <= Inclusive(input, cached, output).input
  BY MeteringAssumption DEF Inclusive, Usages, U64, Lesser

\* A sum that saturates fits its field.
LEMMA SaturatingAddInWidth ==
    ASSUME NEW a \in U64, NEW b \in U64
    PROVE  /\ SaturatingAdd(a, b) \in U64
           /\ a + b <= MaxU64 => SaturatingAdd(a, b) = a + b
  BY MeteringAssumption DEF SaturatingAdd, U64

\* Whatever a provider reports, from_value yields counts that fit a u64, and
\* the cached and written tokens are parts of the input unless Anthropic's
\* three counts together exceed a u64.
THEOREM ParsedUsage ==
    ASSUME NEW block,
           \A f \in DOMAIN block : block[f] \in U64,
           N(block, "input_tokens") + N(block, "cache_read_input_tokens")
               + N(block, "cache_creation_input_tokens") <= MaxU64
    PROVE  /\ FromValue(block) \in Usages
           /\ FromValue(block).cached + FromValue(block).written
                <= FromValue(block).input
  <1> DEFINE OK(u) == u \in Usages /\ u.cached + u.written <= u.input
  <1>0. \A field : N(block, field) \in U64
    BY CountInWidth
  <1>1. OK(FromChat(block))
    <2>1. /\ N(block, "prompt_tokens") \in U64
          /\ N(block, "prompt_tokens_details") \in U64
          /\ N(block, "completion_tokens") \in U64
      BY <1>0
    <2> QED  BY <2>1, InclusiveInWidth DEF FromChat
  <1>2. OK(FromGemini(block))
    <2>1. /\ N(block, "promptTokenCount") \in U64
          /\ N(block, "cachedContentTokenCount") \in U64
          /\ SaturatingAdd(N(block, "candidatesTokenCount"), N(block, "thoughtsTokenCount")) \in U64
      BY <1>0, SaturatingAddInWidth
    <2> QED  BY <2>1, InclusiveInWidth DEF FromGemini
  <1>3. OK(FromResponses(block))
    <2>1. /\ N(block, "input_tokens") \in U64
          /\ N(block, "input_tokens_details") \in U64
          /\ N(block, "output_tokens") \in U64
      BY <1>0
    <2> QED  BY <2>1, InclusiveInWidth DEF FromResponses
  <1>4. OK(FromAnthropic(block))
    <2> DEFINE a == N(block, "input_tokens")
               b == N(block, "cache_read_input_tokens")
               c == N(block, "cache_creation_input_tokens")
               d == N(block, "output_tokens")
               sum == SaturatingAdd(SaturatingAdd(a, b), c)
    <2>1. a \in U64 /\ b \in U64 /\ c \in U64 /\ d \in U64 /\ a + b + c <= MaxU64
      BY <1>0
    <2> HIDE DEF a, b, c, d
    <2>2. sum \in U64 /\ sum = a + b + c
      BY <2>1, MeteringAssumption DEF SaturatingAdd, U64
    <2> HIDE DEF sum
    <2>3. FromAnthropic(block) = [input |-> sum, cached |-> b, written |-> c, output |-> d]
      BY DEF FromAnthropic, sum, a, b, c, d
    <2>4. b + c <= sum
      BY <2>1, <2>2 DEF U64
    <2> QED
      BY <2>1, <2>2, <2>3, <2>4 DEF Usages
  <1> HIDE DEF OK
  <1>5. OK(FromValue(block))
    BY <1>1, <1>2, <1>3, <1>4 DEF FromValue
  <1> QED  BY <1>5 DEF OK

\* rig's counts are clamped, so that the cached and written tokens of every
\* turn are parts of its input.
THEOREM RigUsage ==
    ASSUME NEW turn,
           \A f \in DOMAIN turn : turn[f] \in U64
    PROVE  /\ FromRig(turn) \in Usages
           /\ FromRig(turn).cached + FromRig(turn).written <= FromRig(turn).input
  <1> DEFINE i == N(turn, "input_tokens")
             c == N(turn, "cached_input_tokens")
             w == N(turn, "cache_creation_input_tokens")
             o == N(turn, "output_tokens")
             read == Lesser(c, i)
             write == Lesser(w, i - read)
  <1>1. i \in U64 /\ c \in U64 /\ w \in U64 /\ o \in U64
    BY CountInWidth
  <1> HIDE DEF i, c, w, o
  <1>2. read \in U64 /\ read <= i
    BY <1>1 DEF Lesser, U64
  <1>3. write \in U64 /\ read + write <= i
    BY <1>1, <1>2, MeteringAssumption DEF Lesser, U64
  <1> HIDE DEF read, write
  <1>4. FromRig(turn) = [input |-> i, cached |-> read, written |-> write, output |-> o]
    BY DEF FromRig, i, c, w, o, read, write
  <1> QED
    BY <1>1, <1>2, <1>3, <1>4 DEF Usages

\* The three public price functions agree: cost and cost_with_cache are
\* cost_usage for a prompt without cache writes, so that charge_model and
\* charge_usage never charge two prices for one call.
THEOREM PricesAgree ==
    ASSUME NEW price \in Prices,
           NEW input \in U64, NEW cached \in U64, NEW output \in U64
    PROVE  /\ CostWithCache(price, input, cached, output)
                = CostUsage(price, [input |-> input, cached |-> cached,
                                    written |-> 0, output |-> output])
           /\ Cost(price, input, output)
                = CostUsage(price, [input |-> input, cached |-> 0,
                                    written |-> 0, output |-> output])
  <1> DEFINE u == [input |-> input, cached |-> cached, written |-> 0, output |-> output]
             v == [input |-> input, cached |-> 0, written |-> 0, output |-> output]
             p == price.input
             q == price.output
  <1>1. p \in Nat /\ q \in Nat /\ CacheRead(price) \in Nat /\ CacheWrite(price) \in Nat
    BY DEF Prices, CacheRead, CacheWrite, Has
  <1>2. /\ FreshInput(u) = input - Lesser(cached, input)
        /\ BilledRead(u) = Lesser(cached, input)
        /\ BilledWrite(u) = 0
        /\ u.output = output
    BY MeteringAssumption DEF FreshInput, BilledRead, BilledWrite, SaturatingSub, Lesser, U64
  <1>3. /\ FreshInput(v) = input
        /\ BilledRead(v) = 0
        /\ BilledWrite(v) = 0
        /\ v.output = output
    BY MeteringAssumption DEF FreshInput, BilledRead, BilledWrite, SaturatingSub, Lesser, U64
  <1>4. input - Lesser(cached, input) \in Int /\ Lesser(cached, input) \in Int
        /\ input \in Int /\ output \in Int
    BY MeteringAssumption DEF Lesser, U64
  <1>5. 0 * CacheRead(price) = 0 /\ 0 * CacheWrite(price) = 0
    BY <1>1
  <1> HIDE DEF u, v
  <1>6. CostUsage(price, u)
          = (input - Lesser(cached, input)) * p + Lesser(cached, input) * CacheRead(price)
                + output * q
    BY <1>1, <1>2, <1>4, <1>5 DEF CostUsage
  <1>7. CostUsage(price, v) = input * p + output * q
    BY <1>1, <1>3, <1>4, <1>5 DEF CostUsage
  <1> QED
    BY <1>6, <1>7 DEF CostWithCache, Cost, u, v

-------------------------------------------------------------------------------
\* The spend keeps within the limit, what is charged is what was billed, and
\* only a call that is charging owes anything.
BillInv ==
    /\ spent <= limit
    /\ \A a \in Actors : /\ cost[a] = due[a]
                         /\ pc[a] \notin {"killCheck", "charge"} => due[a] = 0
    /\ BillAccounted

\* A hook whose refusals always kill the budget.
Solid(r) == r \in KillOnRefusal /\ Knows(Table, Model[r])

\* A refused turn is the last of its run, and of all the runs of a hook that
\* kills the budget.
UnchargedInv ==
    \A r \in Runs :
        /\ uncharged[r] <= started[r]
        /\ pc[r] \in {"readSpent", "readLimit", "model", "killCheck", "charge"} =>
             uncharged[r] < started[r]
        /\ pc[r] = "ask" => killed \/ uncharged[r] < started[r]
        /\ Solid(r) => \/ uncharged[r] = 0
                       \/ uncharged[r] = 1 /\ pc[r] = "kill"
                       \/ uncharged[r] = 1 /\ killed /\ pc[r] \in {"idle", "ask"}

\* After a late turn the run gets no further than the questions.
LateInv ==
    \A r \in Runs : \/ late[r] = 0
                    \/ late[r] = 1 /\ killed /\ pc[r] \in {"idle", "ask", "killCheck", "kill"}

\* What keeps a run from its first call stays until it asks, unless the limit
\* is raised.
BegunInv ==
    \A r \in Runs :
        /\ begunOn[r] = "killed" => killed /\ pc[r] = "ask"
        /\ begunOn[r] = "spent" => /\ spent >= limit
                                   /\ pc[r] \in {"ask", "readSpent", "readLimit"}
                                   /\ pc[r] = "readLimit" => seen[r] >= limit

IInv == TypeOK /\ BillInv /\ UnchargedInv /\ LateInv /\ BegunInv
-------------------------------------------------------------------------------
\* What the constants are for the provers.
LEMMA ConstantFacts ==
    /\ Runs \cap Callers = {} /\ Runs \subseteq Actors /\ Callers \subseteq Actors
    /\ IsFiniteSet(Actors)
    /\ InitialLimit \in Nat /\ GrowBound \in Nat /\ InitialLimit <= GrowBound
    /\ GrowAmounts \subseteq Nat
    /\ MaxRuns \in [Actors -> Nat]
    /\ KillOnRefusal \subseteq Runs
    /\ MayDrop \in BOOLEAN
  BY HookAssumption DEF Actors

\* A call has counts that fit, and the provider a price for each of them.
LEMMA CallFacts ==
    ASSUME NEW call \in Calls
    PROVE  /\ call.fresh \in Nat /\ call.read \in Nat
           /\ call.written \in Nat /\ call.output \in Nat
           /\ call.fresh + call.read + call.written <= MaxU64
           /\ call.output <= MaxU64 /\ MaxU64 \in Nat
  BY HookAssumption, MeteringAssumption DEF U64

\* The provider's prices, cache prices included, are what the table lists.
LEMMA PriceFacts ==
    /\ ListPrice.input \in Nat /\ ListPrice.output \in Nat
    /\ CacheRead(ListPrice) = ListPrice.cacheRead /\ ListPrice.cacheRead \in Nat
    /\ CacheWrite(ListPrice) = ListPrice.cacheWrite /\ ListPrice.cacheWrite \in Nat
  BY HookAssumption DEF Prices, CacheRead, CacheWrite, Has

\* A bill is a number of nano-dollars.
LEMMA BillNat ==
    ASSUME NEW call \in Calls
    PROVE  Bill(call) \in Nat
<1> DEFINE x1 == call.fresh * ListPrice.input
           x2 == call.read * ListPrice.cacheRead
           x3 == call.written * ListPrice.cacheWrite
           x4 == call.output * ListPrice.output
<1>1. x1 \in Nat /\ x2 \in Nat /\ x3 \in Nat /\ x4 \in Nat
  BY CallFacts, PriceFacts
<1> HIDE DEF x1, x2, x3, x4
<1>2. x1 + x2 + x3 + x4 \in Nat
  BY <1>1
<1> QED
  BY <1>2 DEF Bill, x1, x2, x3, x4

\* A model that a table knows has the provider's price in it.
LEMMA PriceOfKnown ==
    ASSUME NEW model
    PROVE  /\ Knows(Builtin, model) => Get(Builtin, model) = ListPrice
           /\ Knows(Table, model) => Get(Table, model) = ListPrice
<1>1. \A m \in DOMAIN Builtin : Builtin[m] = ListPrice
  BY HookAssumption DEF Builtin, FromLitellm
<1>2. \A m \in DOMAIN Table : Table[m] = ListPrice
  BY <1>1 DEF Table, Insert
<1>3. ASSUME NEW table, Knows(table, model), \A m \in DOMAIN table : table[m] = ListPrice
      PROVE  Get(table, model) = ListPrice
  BY <1>3 DEF Knows, Candidates, Get
<1> QED
  BY <1>1, <1>2, <1>3

\* A usage that splits the call's prompt as the provider does costs its bill.
LEMMA CostOfUsage ==
    ASSUME NEW call \in Calls, NEW u,
           u = [input |-> call.fresh + call.read + call.written, cached |-> call.read,
                written |-> call.written, output |-> call.output]
    PROVE  CostUsage(ListPrice, u) = Bill(call)
<1>1. /\ FreshInput(u) = call.fresh /\ BilledRead(u) = call.read
      /\ BilledWrite(u) = call.written /\ u.output = call.output
  BY CallFacts DEF FreshInput, BilledRead, BilledWrite, SaturatingSub, Lesser
<1> QED
  BY <1>1, PriceFacts DEF CostUsage, Bill

\* What charge_usage reads from any block that an API sends for a call, is the
\* call as the provider bills it.
LEMMA UsageOfBlock ==
    ASSUME NEW call \in Calls, NEW block \in Blocks(call), Recognised(block)
    PROVE  FromValue(block) =
             [input |-> call.fresh + call.read + call.written, cached |-> call.read,
              written |-> call.written, output |-> call.output]
<1> DEFINE whole == call.fresh + call.read
           sent == [input_tokens |-> call.fresh, cache_read_input_tokens |-> call.read,
                    cache_creation_input_tokens |-> call.written,
                    output_tokens |-> call.output]
           chat == [prompt_tokens |-> whole, prompt_tokens_details |-> call.read,
                    completion_tokens |-> call.output]
           responses == [input_tokens |-> whole, input_tokens_details |-> call.read,
                         output_tokens |-> call.output]
           gemini == [promptTokenCount |-> whole, cachedContentTokenCount |-> call.read,
                      candidatesTokenCount |-> 0, thoughtsTokenCount |-> call.output]
<1>1. \/ block = [f \in {} |-> 0] \/ block = sent
      \/ call.written = 0 /\ block \in {chat, responses, gemini}
  BY CallFacts DEF Blocks
<1>2. block # [f \in {} |-> 0]
  BY DEF Recognised, Has
<1>3. CASE block = sent
  <2>1. FromValue(block) = FromAnthropic(block)
    BY <1>3 DEF FromValue, Has
  <2>2. /\ N(block, "input_tokens") = call.fresh
        /\ N(block, "cache_read_input_tokens") = call.read
        /\ N(block, "cache_creation_input_tokens") = call.written
        /\ N(block, "output_tokens") = call.output
    BY <1>3 DEF N, Has
  <2>3. SaturatingAdd(SaturatingAdd(call.fresh, call.read), call.written)
          = call.fresh + call.read + call.written
    BY CallFacts DEF SaturatingAdd
  <2> QED
    BY <2>1, <2>2, <2>3 DEF FromAnthropic
<1>4. CASE call.written = 0 /\ block = chat
  <2>1. FromValue(block) = FromChat(block)
    BY <1>4 DEF FromValue, Has
  <2>2. /\ N(block, "prompt_tokens") = whole
        /\ N(block, "prompt_tokens_details") = call.read
        /\ N(block, "completion_tokens") = call.output
    BY <1>4 DEF N, Has
  <2>3. FromChat(block) = Inclusive(whole, call.read, call.output)
    BY <2>2 DEF FromChat
  <2> QED
    BY <1>4, <2>1, <2>3, CallFacts DEF Inclusive, Lesser
<1>5. CASE call.written = 0 /\ block = responses
  <2>1. FromValue(block) = FromResponses(block)
    BY <1>5 DEF FromValue, Has
  <2>2. /\ N(block, "input_tokens") = whole
        /\ N(block, "input_tokens_details") = call.read
        /\ N(block, "output_tokens") = call.output
    BY <1>5 DEF N, Has
  <2>3. FromResponses(block) = Inclusive(whole, call.read, call.output)
    BY <2>2 DEF FromResponses
  <2> QED
    BY <1>5, <2>1, <2>3, CallFacts DEF Inclusive, Lesser
<1>6. CASE call.written = 0 /\ block = gemini
  <2>1. FromValue(block) = FromGemini(block)
    BY <1>6 DEF FromValue, Has
  <2>2. /\ N(block, "promptTokenCount") = whole
        /\ N(block, "cachedContentTokenCount") = call.read
        /\ N(block, "candidatesTokenCount") = 0
        /\ N(block, "thoughtsTokenCount") = call.output
    BY <1>6 DEF N, Has
  <2>3. SaturatingAdd(0, call.output) = call.output
    BY CallFacts DEF SaturatingAdd
  <2>4. FromGemini(block) = Inclusive(whole, call.read, call.output)
    BY <2>2, <2>3 DEF FromGemini
  <2> QED
    BY <1>6, <2>1, <2>4, CallFacts DEF Inclusive, Lesser
<1> QED
  BY <1>1, <1>2, <1>3, <1>4, <1>5, <1>6

\* charge_usage charges what the provider bills, whichever API sent the block
\* (src/usage.rs: "Charge exactly what the provider reported").
THEOREM UsageCostsTheBill ==
    ASSUME NEW call \in Calls, NEW block \in Blocks(call), Recognised(block),
           NEW model, Knows(Builtin, model)
    PROVE  CostUsage(Get(Builtin, model), FromValue(block)) = Bill(call)
  BY UsageOfBlock, CostOfUsage, PriceOfKnown

\* A hook charges what the provider bills for a turn, by the cost it reports or,
\* when it reports none or no amount, by the table (BudgetHook::charge).
THEOREM TurnCostsTheBill ==
    ASSUME NEW call \in Calls, NEW turn \in Turns(call), NEW model, Priced(model, turn)
    PROVE  TurnCost(model, turn) = Bill(call)
<1> DEFINE usage == [input_tokens |-> call.fresh + call.read + call.written,
                     cached_input_tokens |-> call.read,
                     cache_creation_input_tokens |-> call.written,
                     output_tokens |-> call.output]
       Costing(c) == [f \in DOMAIN usage \cup {"cost"} |-> IF f = "cost" THEN c ELSE usage[f]]
<1>1. turn \in {usage, Costing(Bill(call)), Costing(-1)}
  BY DEF Turns
<1>2. CASE turn \in {usage, Costing(-1)}
  <2>1. ~CostGiven(turn)
    BY <1>2 DEF CostGiven, Has
  <2>2. Get(Table, model) = ListPrice
    BY <2>1, PriceOfKnown DEF Priced
  <2>3. /\ N(turn, "input_tokens") = call.fresh + call.read + call.written
        /\ N(turn, "cached_input_tokens") = call.read
        /\ N(turn, "cache_creation_input_tokens") = call.written
        /\ N(turn, "output_tokens") = call.output
    BY <1>2 DEF N, Has
  <2>4. FromRig(turn) =
          [input |-> call.fresh + call.read + call.written, cached |-> call.read,
           written |-> call.written, output |-> call.output]
    BY <2>3, CallFacts DEF FromRig, Lesser
  <2>5. CostUsage(ListPrice, FromRig(turn)) = Bill(call)
    BY <2>4, CostOfUsage
  <2> QED
    BY <2>1, <2>2, <2>5 DEF TurnCost
<1>3. CASE turn = Costing(Bill(call))
  <2>1. Has(turn, "cost") /\ turn.cost = Bill(call)
    BY <1>3 DEF Has
  <2>2. CostGiven(turn)
    BY <2>1, BillNat DEF CostGiven
  <2> QED
    BY <2>1, <2>2 DEF TurnCost
<1> QED
  BY <1>1, <1>2, <1>3

\* charge_model_text, told the texts of a call without a cache, charges the bill
\* when the model's tokenizer is known.
LEMMA TextCostsTheBill ==
    ASSUME NEW call \in Calls, call.read = 0, call.written = 0, NEW c \in Callers,
           Knows(Builtin, Model[c])
    PROVE  CostOfText(Builtin, Tokenizers, Model[c],
                      [own |-> call.fresh, standIn |-> call.fresh + 1],
                      [own |-> call.output, standIn |-> call.output + 1]) = Bill(call)
<1>1. <<Model[c][Len(Model[c])]>> \in Tokenizers
  BY HookAssumption
<1>2. Get(Builtin, Model[c]) = ListPrice
  BY PriceOfKnown
<1>3. 0 * ListPrice.cacheRead = 0 /\ 0 * ListPrice.cacheWrite = 0
  BY PriceFacts
<1>4. call.fresh * ListPrice.input \in Nat /\ call.output * ListPrice.output \in Nat
  BY CallFacts, PriceFacts
<1> QED
  BY <1>1, <1>2, <1>3, <1>4 DEF CostOfText, CountTokens, Cost, Bill

\* A caller's own charge is the bill, however it is made, or it is refused for
\* want of a usage or of a price.
LEMMA ChargesTheBill ==
    ASSUME NEW c \in Callers, NEW call \in Calls, ChargeUsage(c, call) \/ ChargeText(c, call)
    PROVE  \E known \in BOOLEAN : ChargeCall(c, call, known, Bill(call))
<1>1. CASE ChargeUsage(c, call)
  <2>1. PICK block \in Blocks(call) :
          ChargeCall(c, call, Recognised(block) /\ Knows(Builtin, Model[c]),
                     CostUsage(Get(Builtin, Model[c]), FromValue(block)))
    BY <1>1 DEF ChargeUsage
  <2>2. CASE Recognised(block) /\ Knows(Builtin, Model[c])
    <3>1. CostUsage(Get(Builtin, Model[c]), FromValue(block)) = Bill(call)
      BY <2>2, UsageCostsTheBill
    <3>2. ChargeCall(c, call, TRUE, Bill(call))
      BY <2>1, <2>2, <3>1 DEF ChargeCall
    <3> QED
      BY <3>2
  <2>3. CASE ~(Recognised(block) /\ Knows(Builtin, Model[c]))
    <3>1. ChargeCall(c, call, FALSE, Bill(call))
      BY <2>1, <2>3 DEF ChargeCall
    <3> QED
      BY <3>1
  <2> QED
    BY <2>2, <2>3
<1>2. CASE ChargeText(c, call)
  <2> DEFINE cost1 == CostOfText(Builtin, Tokenizers, Model[c],
                      [own |-> call.fresh, standIn |-> call.fresh + 1],
                      [own |-> call.output, standIn |-> call.output + 1])
  <2>1. /\ call.read = 0 /\ call.written = 0
        /\ ChargeCall(c, call, Knows(Builtin, Model[c]), cost1)
    BY <1>2 DEF ChargeText
  <2>2. CASE Knows(Builtin, Model[c])
    <3>1. cost1 = Bill(call)
      BY <2>1, <2>2, TextCostsTheBill
    <3>2. ChargeCall(c, call, TRUE, Bill(call))
      BY <2>1, <2>2, <3>1 DEF ChargeCall
    <3> QED
      BY <3>2
  <2>3. CASE ~Knows(Builtin, Model[c])
    <3>1. ChargeCall(c, call, FALSE, Bill(call))
      BY <2>1, <2>3 DEF ChargeCall
    <3> QED
      BY <3>1
  <2> QED
    BY <2>2, <2>3
<1> QED
  BY <1>1, <1>2
-------------------------------------------------------------------------------
\* The bills due add up to one more or less when one actor's does.
LEMMA DueChange ==
    ASSUME TypeOK, TypeOK', NEW a \in Actors,
           \A b \in Actors \ {a} : due'[b] = due[b]
    PROVE  /\ SumOf(due', Actors) = SumOf(due, Actors) - due[a] + due'[a]
           /\ SumOf(due, Actors) \in Nat
<1>1. \A b \in Actors : /\ due[b] \in Nat /\ due'[b] \in Nat
                        /\ b # a => due[b] = due'[b]
  BY DEF TypeOK
<1> DEFINE f == due
           g == due'
<1> HIDE DEF f, g
<1>2. \A b \in Actors : f[b] \in Nat /\ g[b] \in Nat /\ (b # a => f[b] = g[b])
  BY <1>1 DEF f, g
<1>3. IsFiniteSet(Actors)
  BY ConstantFacts
<1>4. SumOf(g, Actors) = SumOf(f, Actors) - f[a] + g[a]
  BY <1>2, <1>3, SumChange
<1>5. SumOf(f, Actors) \in Nat
  BY <1>2, <1>3, SumNat
<1> QED
  BY <1>4, <1>5 DEF f, g

\* Every variable keeps its type.
LEMMA TypeOKNext ==
    ASSUME IInv, [Next]_vars
    PROVE  TypeOK'
<1> USE ConstantFacts DEF IInv, Goto, Stop, budget, bills, counts
<1>1. ASSUME NEW a \in Runs, StartRun(a)
      PROVE  TypeOK'
  BY <1>1 DEF TypeOK, StartRun
<1>2. ASSUME NEW a \in Runs, StopKilled(a)
      PROVE  TypeOK'
  BY <1>2 DEF TypeOK, StopKilled
<1>3. ASSUME NEW a \in Runs, AskKilled(a)
      PROVE  TypeOK'
  BY <1>3 DEF TypeOK, AskKilled
<1>4. ASSUME NEW a \in Runs, ReadSpent(a)
      PROVE  TypeOK'
  BY <1>4 DEF TypeOK, ReadSpent
<1>5. ASSUME NEW a \in Runs, StopExhausted(a)
      PROVE  TypeOK'
  BY <1>5 DEF TypeOK, StopExhausted
<1>6. ASSUME NEW a \in Runs, CallModel(a)
      PROVE  TypeOK'
  BY <1>6 DEF TypeOK, CallModel
<1>7. ASSUME NEW a \in Runs, FinishTurn(a)
      PROVE  TypeOK'
  <2>0. PICK call \in Calls : \E turn \in Turns(call) :
          /\ Priced(Model[a], turn)
          /\ cost' = [cost EXCEPT ![a] = TurnCost(Model[a], turn)]
          /\ due' = [due EXCEPT ![a] = Bill(call)]
          /\ Billed(a, Bill(call))
    BY <1>7 DEF FinishTurn
  <2>1. PICK turn \in Turns(call) :
          /\ Priced(Model[a], turn)
          /\ cost' = [cost EXCEPT ![a] = TurnCost(Model[a], turn)]
          /\ due' = [due EXCEPT ![a] = Bill(call)]
          /\ Billed(a, Bill(call))
    BY <2>0
  <2> DEFINE bill == Bill(call)
  <2>2. bill \in Nat /\ TurnCost(Model[a], turn) = bill
    BY <2>1, BillNat, TurnCostsTheBill
  <2> HIDE DEF bill
  <2>3. /\ cost' = [cost EXCEPT ![a] = bill] /\ due' = [due EXCEPT ![a] = bill]
        /\ Billed(a, bill)
    BY <2>1, <2>2 DEF bill
  <2>4. /\ pc' = [pc EXCEPT ![a] = "killCheck"]
        /\ UNCHANGED <<seen, lost, uncharged, begunOn>>
    BY <1>7 DEF FinishTurn
  <2> QED
    BY <2>2, <2>3, <2>4 DEF TypeOK, Billed
<1>8. ASSUME NEW a \in Runs, FinishUnknown(a)
      PROVE  TypeOK'
  <2>1. PICK call \in Calls :
          lost' = lost + Bill(call) /\ Billed(a, Bill(call))
    BY <1>8 DEF FinishUnknown
  <2> DEFINE bill == Bill(call)
  <2>2. bill \in Nat
    BY BillNat
  <2> HIDE DEF bill
  <2>3. lost' = lost + bill /\ Billed(a, bill)
    BY <2>1 DEF bill
  <2>4. Stop(a) /\ uncharged' = [uncharged EXCEPT ![a] = @ + 1]
    BY <1>8 DEF FinishUnknown
  <2> QED
    BY <2>2, <2>3, <2>4 DEF TypeOK, Billed
<1>9. ASSUME NEW a \in Runs, Kill(a)
      PROVE  TypeOK'
  BY <1>9 DEF TypeOK, Kill
<1>10. ASSUME NEW a \in Runs, EndRun(a)
      PROVE  TypeOK'
  BY <1>10 DEF TypeOK, EndRun
<1>11. ASSUME NEW a \in Actors, PassKillCheck(a)
      PROVE  TypeOK'
  BY <1>11 DEF TypeOK, PassKillCheck
<1>12. ASSUME NEW a \in Actors, RefuseKilled(a)
      PROVE  TypeOK'
  BY <1>12 DEF TypeOK, RefuseKilled, Refuse
<1>13. ASSUME NEW a \in Actors, Accept(a)
      PROVE  TypeOK'
  BY <1>13 DEF TypeOK, Accept, Budget!Accept
<1>14. ASSUME NEW a \in Actors, RefuseExhausted(a)
      PROVE  TypeOK'
  BY <1>14 DEF TypeOK, RefuseExhausted, Refuse
<1>15. ASSUME NEW a \in Actors, Drop(a)
      PROVE  TypeOK'
  BY <1>15 DEF TypeOK, Drop
<1>16. ASSUME NEW a \in Callers, NEW call \in Calls, ChargeUsage(a, call)
      PROVE  TypeOK'
  <2>1. PICK known \in BOOLEAN : ChargeCall(a, call, known, Bill(call))
    BY <1>16, ChargesTheBill
  <2> DEFINE bill == Bill(call)
  <2>2. bill \in Nat
    BY BillNat
  <2> HIDE DEF bill
  <2>3. ChargeCall(a, call, known, bill) /\ paid' = paid + bill
        /\ IF known
           THEN /\ cost' = [cost EXCEPT ![a] = bill]
                /\ due' = [due EXCEPT ![a] = bill]
                /\ Goto(a, "killCheck")
                /\ UNCHANGED <<seen, lost>>
           ELSE /\ lost' = lost + bill
                /\ Stop(a)
    BY <2>1 DEF ChargeCall, bill
  <2>4. /\ pc[a] = "idle" /\ started[a] < MaxRuns[a]
        /\ started' = [started EXCEPT ![a] = @ + 1]
        /\ UNCHANGED <<spent, limit, killed, uncharged, late>>
        /\ known => UNCHANGED begunOn
    BY <2>1 DEF ChargeCall
  <2>5. CASE known
    BY <2>2, <2>3, <2>4, <2>5 DEF TypeOK
  <2>6. CASE ~known
    BY <2>2, <2>3, <2>4, <2>6 DEF TypeOK
  <2> QED
    BY <2>5, <2>6
<1>17. ASSUME NEW a \in Callers, NEW call \in Calls, ChargeText(a, call)
      PROVE  TypeOK'
  <2>1. PICK known \in BOOLEAN : ChargeCall(a, call, known, Bill(call))
    BY <1>17, ChargesTheBill
  <2> DEFINE bill == Bill(call)
  <2>2. bill \in Nat
    BY BillNat
  <2> HIDE DEF bill
  <2>3. ChargeCall(a, call, known, bill) /\ paid' = paid + bill
        /\ IF known
           THEN /\ cost' = [cost EXCEPT ![a] = bill]
                /\ due' = [due EXCEPT ![a] = bill]
                /\ Goto(a, "killCheck")
                /\ UNCHANGED <<seen, lost>>
           ELSE /\ lost' = lost + bill
                /\ Stop(a)
    BY <2>1 DEF ChargeCall, bill
  <2>4. /\ pc[a] = "idle" /\ started[a] < MaxRuns[a]
        /\ started' = [started EXCEPT ![a] = @ + 1]
        /\ UNCHANGED <<spent, limit, killed, uncharged, late>>
        /\ known => UNCHANGED begunOn
    BY <2>1 DEF ChargeCall
  <2>5. CASE known
    BY <2>2, <2>3, <2>4, <2>5 DEF TypeOK
  <2>6. CASE ~known
    BY <2>2, <2>3, <2>4, <2>6 DEF TypeOK
  <2> QED
    BY <2>5, <2>6
<1>18. ASSUME OperatorKill
      PROVE  TypeOK'
  BY <1>18 DEF TypeOK, OperatorKill
<1>19. ASSUME GrowLimit
      PROVE  TypeOK'
  BY <1>19 DEF TypeOK, GrowLimit, Budget!Raise
<1>20. CASE UNCHANGED vars
  BY <1>20 DEF TypeOK, vars
<1> QED
  BY <1>1, <1>2, <1>3, <1>4, <1>5, <1>6, <1>7, <1>8, <1>9, <1>10, <1>11, <1>12, <1>13, <1>14, <1>15, <1>16, <1>17, <1>18, <1>19, <1>20 DEF Next, Running, Charging, Actors

\* A call that is not charging owes nothing, so that its end changes no bill.
LEMMA StopKeepsBill ==
    ASSUME IInv, TypeOK', NEW a \in Actors, pc[a] \notin {"killCheck", "charge"},
           Stop(a), UNCHANGED <<spent, limit, paid, lost>>
    PROVE  BillInv'
<1>1. due' = due /\ cost' = cost
  BY DEF Stop, IInv, BillInv, TypeOK
<1>2. \A b \in Actors : pc[b] \in {"killCheck", "charge"} => pc'[b] = pc[b]
  BY DEF Stop, Goto, IInv, TypeOK
<1>3. SumOf(due', Actors) = SumOf(due, Actors)
  BY <1>1
<1>4. BillAccounted'
  BY <1>3 DEF IInv, BillInv, BillAccounted
<1>5. \A b \in Actors : /\ cost'[b] = due'[b]
                        /\ pc'[b] \notin {"killCheck", "charge"} => due'[b] = 0
  BY <1>1, <1>2 DEF IInv, BillInv
<1>6. spent' <= limit'
  BY DEF IInv, BillInv
<1> QED
  BY <1>4, <1>5, <1>6 DEF BillInv

\* A step of a's that changes its bill keeps the account when the bill, the
\* spend and the losses do.
LEMMA BillChange ==
    ASSUME IInv, TypeOK', NEW a \in Actors,
           \A b \in Actors \ {a} : due'[b] = due[b] /\ cost'[b] = cost[b] /\ pc'[b] = pc[b],
           cost'[a] = due'[a], pc'[a] \notin {"killCheck", "charge"} => due'[a] = 0,
           spent' <= limit', paid' - spent' - lost' - due'[a] = paid - spent - lost - due[a]
    PROVE  BillInv'
<1>1. /\ SumOf(due', Actors) = SumOf(due, Actors) - due[a] + due'[a]
      /\ SumOf(due, Actors) \in Nat
  BY DueChange DEF IInv
<1>2. paid = spent + lost + SumOf(due, Actors)
  BY DEF IInv, BillInv, BillAccounted
<1> DEFINE new == SumOf(due', Actors)
           old == SumOf(due, Actors)
<1> HIDE DEF new, old
<1>3. new = old - due[a] + due'[a] /\ old \in Nat /\ paid = spent + lost + old
  BY <1>1, <1>2 DEF new, old
<1>4. /\ paid \in Nat /\ spent \in Nat /\ lost \in Nat /\ due[a] \in Nat
      /\ paid' \in Nat /\ spent' \in Nat /\ lost' \in Nat /\ due'[a] \in Nat
  BY ConstantFacts DEF IInv, TypeOK
<1>5. paid' = spent' + lost' + new
  BY <1>3, <1>4
<1>6. BillAccounted'
  BY <1>5 DEF BillAccounted, new
<1>7. \A b \in Actors : /\ cost'[b] = due'[b]
                        /\ pc'[b] \notin {"killCheck", "charge"} => due'[b] = 0
  BY DEF IInv, BillInv
<1> QED
  BY <1>6, <1>7 DEF BillInv

\* No step loses or makes up money.
LEMMA BillInvNext ==
    ASSUME IInv, [Next]_vars
    PROVE  BillInv'
<1> USE ConstantFacts DEF IInv, Goto, Stop, budget, bills, counts
<1>1. ASSUME NEW a \in Runs, StartRun(a)
      PROVE  BillInv'
  BY <1>1 DEF TypeOK, BillInv, BillAccounted, StartRun
<1>2. ASSUME NEW a \in Runs, StopKilled(a)
      PROVE  BillInv'
  <2>1. pc[a] = "ask" /\ Stop(a) /\ UNCHANGED <<spent, limit, paid, lost>>
    BY <1>2 DEF StopKilled
  <2> QED
    BY <2>1, StopKeepsBill, TypeOKNext
<1>3. ASSUME NEW a \in Runs, AskKilled(a)
      PROVE  BillInv'
  BY <1>3 DEF TypeOK, BillInv, BillAccounted, AskKilled
<1>4. ASSUME NEW a \in Runs, ReadSpent(a)
      PROVE  BillInv'
  BY <1>4 DEF TypeOK, BillInv, BillAccounted, ReadSpent
<1>5. ASSUME NEW a \in Runs, StopExhausted(a)
      PROVE  BillInv'
  <2>1. pc[a] = "readLimit" /\ Stop(a) /\ UNCHANGED <<spent, limit, paid, lost>>
    BY <1>5 DEF StopExhausted
  <2> QED
    BY <2>1, StopKeepsBill, TypeOKNext
<1>6. ASSUME NEW a \in Runs, CallModel(a)
      PROVE  BillInv'
  BY <1>6 DEF TypeOK, BillInv, BillAccounted, CallModel
<1>7. ASSUME NEW a \in Runs, FinishTurn(a)
      PROVE  BillInv'
  <2>0. PICK call \in Calls : \E turn \in Turns(call) :
          /\ Priced(Model[a], turn)
          /\ cost' = [cost EXCEPT ![a] = TurnCost(Model[a], turn)]
          /\ due' = [due EXCEPT ![a] = Bill(call)]
          /\ Billed(a, Bill(call))
    BY <1>7 DEF FinishTurn
  <2>5. PICK turn \in Turns(call) :
          /\ Priced(Model[a], turn)
          /\ cost' = [cost EXCEPT ![a] = TurnCost(Model[a], turn)]
          /\ due' = [due EXCEPT ![a] = Bill(call)]
          /\ Billed(a, Bill(call))
    BY <2>0
  <2> DEFINE bill == Bill(call)
  <2>6. bill \in Nat /\ TurnCost(Model[a], turn) = bill
    BY <2>5, BillNat, TurnCostsTheBill
  <2> HIDE DEF bill
  <2>1. /\ cost' = [cost EXCEPT ![a] = bill] /\ due' = [due EXCEPT ![a] = bill]
        /\ paid' = paid + bill /\ pc[a] = "model" /\ pc' = [pc EXCEPT ![a] = "killCheck"]
        /\ UNCHANGED <<spent, limit, lost>>
    BY <1>7, <2>5, <2>6 DEF FinishTurn, Billed, bill
  <2>2. due[a] = 0
    BY <2>1 DEF BillInv
  <2>3. cost'[a] = bill /\ due'[a] = bill /\ pc'[a] = "killCheck"
    BY <2>1 DEF TypeOK
  <2>4. /\ cost'[a] = due'[a] /\ spent' <= limit'
        /\ paid' - spent' - lost' - due'[a] = paid - spent - lost - due[a]
    BY <2>1, <2>2, <2>3, <2>6 DEF TypeOK, BillInv
  <2>9. \A b \in Actors \ {a} : due'[b] = due[b] /\ cost'[b] = cost[b] /\ pc'[b] = pc[b]
    BY <2>1 DEF TypeOK
  <2>10. TypeOK'
    BY TypeOKNext
  <2> QED
    BY <2>3, <2>4, <2>9, <2>10, BillChange
<1>8. ASSUME NEW a \in Runs, FinishUnknown(a)
      PROVE  BillInv'
  <2>5. PICK call \in Calls :
          lost' = lost + Bill(call) /\ Billed(a, Bill(call))
    BY <1>8 DEF FinishUnknown
  <2> DEFINE bill == Bill(call)
  <2>6. bill \in Nat
    BY BillNat
  <2> HIDE DEF bill
  <2>1. /\ lost' = lost + bill /\ paid' = paid + bill /\ pc[a] = "model"
        /\ cost' = [cost EXCEPT ![a] = 0] /\ due' = [due EXCEPT ![a] = 0]
        /\ pc' = [pc EXCEPT ![a] = "idle"] /\ UNCHANGED <<spent, limit>>
    BY <1>8, <2>5 DEF FinishUnknown, Billed, bill
  <2>2. due[a] = 0
    BY <2>1 DEF BillInv
  <2>3. cost'[a] = 0 /\ due'[a] = 0
    BY <2>1 DEF TypeOK
  <2>4. /\ spent' <= limit'
        /\ paid' - spent' - lost' - due'[a] = paid - spent - lost - due[a]
    BY <2>1, <2>2, <2>3, <2>6 DEF TypeOK, BillInv
  <2>9. \A b \in Actors \ {a} : due'[b] = due[b] /\ cost'[b] = cost[b] /\ pc'[b] = pc[b]
    BY <2>1 DEF TypeOK
  <2>10. TypeOK'
    BY TypeOKNext
  <2> QED
    BY <2>3, <2>4, <2>9, <2>10, BillChange
<1>9. ASSUME NEW a \in Runs, Kill(a)
      PROVE  BillInv'
  <2>1. pc[a] = "kill" /\ Stop(a) /\ UNCHANGED <<spent, limit, paid, lost>>
    BY <1>9 DEF Kill
  <2> QED
    BY <2>1, StopKeepsBill, TypeOKNext
<1>10. ASSUME NEW a \in Runs, EndRun(a)
      PROVE  BillInv'
  <2>1. pc[a] \in {"ask", "model"} /\ Stop(a) /\ UNCHANGED <<spent, limit, paid, lost>>
    BY <1>10 DEF EndRun
  <2> QED
    BY <2>1, StopKeepsBill, TypeOKNext
<1>11. ASSUME NEW a \in Actors, PassKillCheck(a)
      PROVE  BillInv'
  BY <1>11 DEF TypeOK, BillInv, BillAccounted, PassKillCheck
<1>12. ASSUME NEW a \in Actors, RefuseKilled(a)
      PROVE  BillInv'
  <2>1. /\ lost' = lost + due[a]
        /\ cost' = [cost EXCEPT ![a] = 0] /\ due' = [due EXCEPT ![a] = 0]
        /\ pc' = [pc EXCEPT ![a] = IF a \in KillOnRefusal THEN "kill" ELSE "idle"]
        /\ UNCHANGED <<spent, limit, paid>>
    BY <1>12 DEF Refuse, RefuseKilled
  <2>3. cost'[a] = 0 /\ due'[a] = 0
    BY <2>1 DEF TypeOK
  <2>4. /\ spent' <= limit'
        /\ paid' - spent' - lost' - due'[a] = paid - spent - lost - due[a]
    BY <2>1, <2>3 DEF TypeOK, BillInv
  <2>9. \A b \in Actors \ {a} : due'[b] = due[b] /\ cost'[b] = cost[b] /\ pc'[b] = pc[b]
    BY <2>1 DEF TypeOK
  <2>10. TypeOK'
    BY TypeOKNext
  <2> QED
    BY <2>3, <2>4, <2>9, <2>10, BillChange
<1>13. ASSUME NEW a \in Actors, Accept(a)
      PROVE  BillInv'
  <2>1. /\ spent + cost[a] <= limit /\ spent' = spent + cost[a]
        /\ cost' = [cost EXCEPT ![a] = 0] /\ due' = [due EXCEPT ![a] = 0]
        /\ pc' = [pc EXCEPT ![a] = IF a \in Runs THEN "ask" ELSE "idle"]
        /\ UNCHANGED <<limit, paid, lost>>
    BY <1>13 DEF Accept, Budget!Accept
  <2>2. cost[a] = due[a]
    BY DEF BillInv
  <2>3. cost'[a] = 0 /\ due'[a] = 0
    BY <2>1 DEF TypeOK
  <2>4. /\ spent' <= limit'
        /\ paid' - spent' - lost' - due'[a] = paid - spent - lost - due[a]
    BY <2>1, <2>2, <2>3 DEF TypeOK
  <2>9. \A b \in Actors \ {a} : due'[b] = due[b] /\ cost'[b] = cost[b] /\ pc'[b] = pc[b]
    BY <2>1 DEF TypeOK
  <2>10. TypeOK'
    BY TypeOKNext
  <2> QED
    BY <2>3, <2>4, <2>9, <2>10, BillChange
<1>14. ASSUME NEW a \in Actors, RefuseExhausted(a)
      PROVE  BillInv'
  <2>1. /\ lost' = lost + due[a]
        /\ cost' = [cost EXCEPT ![a] = 0] /\ due' = [due EXCEPT ![a] = 0]
        /\ pc' = [pc EXCEPT ![a] = IF a \in KillOnRefusal THEN "kill" ELSE "idle"]
        /\ UNCHANGED <<spent, limit, paid>>
    BY <1>14 DEF Refuse, RefuseExhausted
  <2>3. cost'[a] = 0 /\ due'[a] = 0
    BY <2>1 DEF TypeOK
  <2>4. /\ spent' <= limit'
        /\ paid' - spent' - lost' - due'[a] = paid - spent - lost - due[a]
    BY <2>1, <2>3 DEF TypeOK, BillInv
  <2>9. \A b \in Actors \ {a} : due'[b] = due[b] /\ cost'[b] = cost[b] /\ pc'[b] = pc[b]
    BY <2>1 DEF TypeOK
  <2>10. TypeOK'
    BY TypeOKNext
  <2> QED
    BY <2>3, <2>4, <2>9, <2>10, BillChange
<1>15. ASSUME NEW a \in Actors, Drop(a)
      PROVE  BillInv'
  <2>1. /\ lost' = lost + due[a]
        /\ cost' = [cost EXCEPT ![a] = 0] /\ due' = [due EXCEPT ![a] = 0]
        /\ pc' = [pc EXCEPT ![a] = "idle"]
        /\ UNCHANGED <<spent, limit, paid>>
    BY <1>15 DEF Drop
  <2>3. cost'[a] = 0 /\ due'[a] = 0
    BY <2>1 DEF TypeOK
  <2>4. /\ spent' <= limit'
        /\ paid' - spent' - lost' - due'[a] = paid - spent - lost - due[a]
    BY <2>1, <2>3 DEF TypeOK, BillInv
  <2>9. \A b \in Actors \ {a} : due'[b] = due[b] /\ cost'[b] = cost[b] /\ pc'[b] = pc[b]
    BY <2>1 DEF TypeOK
  <2>10. TypeOK'
    BY TypeOKNext
  <2> QED
    BY <2>3, <2>4, <2>9, <2>10, BillChange
<1>16. ASSUME NEW a \in Callers, NEW call \in Calls, ChargeUsage(a, call)
      PROVE  BillInv'
  <2>5. PICK known \in BOOLEAN : ChargeCall(a, call, known, Bill(call))
    BY <1>16, ChargesTheBill
  <2> DEFINE bill == Bill(call)
  <2>6. bill \in Nat
    BY BillNat
  <2> HIDE DEF bill
  <2>8. ChargeCall(a, call, known, bill) /\ paid' = paid + bill
        /\ IF known
           THEN /\ cost' = [cost EXCEPT ![a] = bill]
                /\ due' = [due EXCEPT ![a] = bill]
                /\ Goto(a, "killCheck")
                /\ UNCHANGED <<seen, lost>>
           ELSE /\ lost' = lost + bill
                /\ Stop(a)
    BY <2>5 DEF ChargeCall, bill
  <2>7. /\ pc[a] = "idle" /\ started[a] < MaxRuns[a]
        /\ started' = [started EXCEPT ![a] = @ + 1]
        /\ UNCHANGED <<spent, limit, killed, uncharged, late>>
        /\ known => UNCHANGED begunOn
    BY <2>5 DEF ChargeCall
  <2>1. /\ paid' = paid + bill /\ UNCHANGED <<spent, limit>>
        /\ \/ /\ cost' = [cost EXCEPT ![a] = bill] /\ due' = [due EXCEPT ![a] = bill]
              /\ pc' = [pc EXCEPT ![a] = "killCheck"] /\ lost' = lost
           \/ /\ cost' = [cost EXCEPT ![a] = 0] /\ due' = [due EXCEPT ![a] = 0]
              /\ pc' = [pc EXCEPT ![a] = "idle"] /\ lost' = lost + bill
    BY <2>7, <2>8
  <2>2. due[a] = 0
    BY <2>7 DEF BillInv
  <2>3. cost'[a] = due'[a] /\ pc'[a] \notin {"killCheck", "charge"} => due'[a] = 0
    BY <2>1 DEF TypeOK
  <2>11. due'[a] + lost' = lost + bill
    BY <2>1, <2>6 DEF TypeOK
  <2>12. due'[a] \in Nat /\ lost' \in Nat
    BY TypeOKNext DEF TypeOK
  <2>4. /\ cost'[a] = due'[a] /\ spent' <= limit'
        /\ paid' - spent' - lost' - due'[a] = paid - spent - lost - due[a]
    BY <2>1, <2>2, <2>3, <2>6, <2>11, <2>12 DEF TypeOK, BillInv
  <2>9. \A b \in Actors \ {a} : due'[b] = due[b] /\ cost'[b] = cost[b] /\ pc'[b] = pc[b]
    BY <2>1 DEF TypeOK
  <2>10. TypeOK'
    BY TypeOKNext
  <2> QED
    BY <2>3, <2>4, <2>9, <2>10, BillChange
<1>17. ASSUME NEW a \in Callers, NEW call \in Calls, ChargeText(a, call)
      PROVE  BillInv'
  <2>5. PICK known \in BOOLEAN : ChargeCall(a, call, known, Bill(call))
    BY <1>17, ChargesTheBill
  <2> DEFINE bill == Bill(call)
  <2>6. bill \in Nat
    BY BillNat
  <2> HIDE DEF bill
  <2>8. ChargeCall(a, call, known, bill) /\ paid' = paid + bill
        /\ IF known
           THEN /\ cost' = [cost EXCEPT ![a] = bill]
                /\ due' = [due EXCEPT ![a] = bill]
                /\ Goto(a, "killCheck")
                /\ UNCHANGED <<seen, lost>>
           ELSE /\ lost' = lost + bill
                /\ Stop(a)
    BY <2>5 DEF ChargeCall, bill
  <2>7. /\ pc[a] = "idle" /\ started[a] < MaxRuns[a]
        /\ started' = [started EXCEPT ![a] = @ + 1]
        /\ UNCHANGED <<spent, limit, killed, uncharged, late>>
        /\ known => UNCHANGED begunOn
    BY <2>5 DEF ChargeCall
  <2>1. /\ paid' = paid + bill /\ UNCHANGED <<spent, limit>>
        /\ \/ /\ cost' = [cost EXCEPT ![a] = bill] /\ due' = [due EXCEPT ![a] = bill]
              /\ pc' = [pc EXCEPT ![a] = "killCheck"] /\ lost' = lost
           \/ /\ cost' = [cost EXCEPT ![a] = 0] /\ due' = [due EXCEPT ![a] = 0]
              /\ pc' = [pc EXCEPT ![a] = "idle"] /\ lost' = lost + bill
    BY <2>7, <2>8
  <2>2. due[a] = 0
    BY <2>7 DEF BillInv
  <2>3. cost'[a] = due'[a] /\ pc'[a] \notin {"killCheck", "charge"} => due'[a] = 0
    BY <2>1 DEF TypeOK
  <2>11. due'[a] + lost' = lost + bill
    BY <2>1, <2>6 DEF TypeOK
  <2>12. due'[a] \in Nat /\ lost' \in Nat
    BY TypeOKNext DEF TypeOK
  <2>4. /\ cost'[a] = due'[a] /\ spent' <= limit'
        /\ paid' - spent' - lost' - due'[a] = paid - spent - lost - due[a]
    BY <2>1, <2>2, <2>3, <2>6, <2>11, <2>12 DEF TypeOK, BillInv
  <2>9. \A b \in Actors \ {a} : due'[b] = due[b] /\ cost'[b] = cost[b] /\ pc'[b] = pc[b]
    BY <2>1 DEF TypeOK
  <2>10. TypeOK'
    BY TypeOKNext
  <2> QED
    BY <2>3, <2>4, <2>9, <2>10, BillChange
<1>18. ASSUME OperatorKill
      PROVE  BillInv'
  BY <1>18 DEF TypeOK, BillInv, BillAccounted, OperatorKill
<1>19. ASSUME GrowLimit
      PROVE  BillInv'
  BY <1>19 DEF TypeOK, BillInv, BillAccounted, GrowLimit, Budget!Raise
<1>20. CASE UNCHANGED vars
  BY <1>20 DEF TypeOK, BillInv, BillAccounted, vars
<1> QED
  BY <1>1, <1>2, <1>3, <1>4, <1>5, <1>6, <1>7, <1>8, <1>9, <1>10, <1>11, <1>12, <1>13, <1>14, <1>15, <1>16, <1>17, <1>18, <1>19, <1>20 DEF Next, Running, Charging, Actors

\* A refusal ends the run, and for a hook that kills the budget with it.
LEMMA UnchargedInvNext ==
    ASSUME IInv, [Next]_vars
    PROVE  UnchargedInv'
<1> USE ConstantFacts DEF IInv, Goto, Stop, budget, bills, counts
<1>1. ASSUME NEW a \in Runs, StartRun(a)
      PROVE  UnchargedInv'
  BY <1>1 DEF TypeOK, UnchargedInv, Solid, StartRun
<1>2. ASSUME NEW a \in Runs, StopKilled(a)
      PROVE  UnchargedInv'
  BY <1>2 DEF TypeOK, UnchargedInv, Solid, StopKilled
<1>3. ASSUME NEW a \in Runs, AskKilled(a)
      PROVE  UnchargedInv'
  BY <1>3 DEF TypeOK, UnchargedInv, Solid, AskKilled
<1>4. ASSUME NEW a \in Runs, ReadSpent(a)
      PROVE  UnchargedInv'
  BY <1>4 DEF TypeOK, UnchargedInv, Solid, ReadSpent
<1>5. ASSUME NEW a \in Runs, StopExhausted(a)
      PROVE  UnchargedInv'
  BY <1>5 DEF TypeOK, UnchargedInv, Solid, StopExhausted
<1>6. ASSUME NEW a \in Runs, CallModel(a)
      PROVE  UnchargedInv'
  BY <1>6 DEF TypeOK, UnchargedInv, Solid, CallModel
<1>7. ASSUME NEW a \in Runs, FinishTurn(a)
      PROVE  UnchargedInv'
  BY <1>7 DEF TypeOK, UnchargedInv, Solid, FinishTurn, Billed
<1>8. ASSUME NEW a \in Runs, FinishUnknown(a)
      PROVE  UnchargedInv'
  <2>1. /\ pc[a] = "model" /\ pc' = [pc EXCEPT ![a] = "idle"]
        /\ uncharged' = [uncharged EXCEPT ![a] = @ + 1]
        /\ UNCHANGED <<killed, started>>
    BY <1>8 DEF FinishUnknown, Billed
  <2>2. ~Solid(a)
    BY <1>8 DEF FinishUnknown, Solid, Priced
  <2> QED
    BY <2>1, <2>2 DEF TypeOK, UnchargedInv
<1>9. ASSUME NEW a \in Runs, Kill(a)
      PROVE  UnchargedInv'
  BY <1>9 DEF TypeOK, UnchargedInv, Solid, Kill
<1>10. ASSUME NEW a \in Runs, EndRun(a)
      PROVE  UnchargedInv'
  BY <1>10 DEF TypeOK, UnchargedInv, Solid, EndRun
<1>11. ASSUME NEW a \in Actors, PassKillCheck(a)
      PROVE  UnchargedInv'
  BY <1>11 DEF TypeOK, UnchargedInv, Solid, PassKillCheck
<1>12. ASSUME NEW a \in Actors, RefuseKilled(a)
      PROVE  UnchargedInv'
  BY <1>12 DEF TypeOK, UnchargedInv, Solid, RefuseKilled, Refuse
<1>13. ASSUME NEW a \in Actors, Accept(a)
      PROVE  UnchargedInv'
  BY <1>13 DEF TypeOK, UnchargedInv, Solid, Accept, Budget!Accept
<1>14. ASSUME NEW a \in Actors, RefuseExhausted(a)
      PROVE  UnchargedInv'
  BY <1>14 DEF TypeOK, UnchargedInv, Solid, RefuseExhausted, Refuse
<1>15. ASSUME NEW a \in Actors, Drop(a)
      PROVE  UnchargedInv'
  BY <1>15 DEF TypeOK, UnchargedInv, Solid, Drop
<1>16. ASSUME NEW a \in Callers, NEW call \in Calls, ChargeUsage(a, call)
      PROVE  UnchargedInv'
  <2>1. PICK known \in BOOLEAN : ChargeCall(a, call, known, Bill(call))
    BY <1>16, ChargesTheBill
  <2>2. /\ UNCHANGED <<spent, limit, killed, uncharged, late, begunOn>>
        /\ \A r \in Runs : /\ pc'[r] = pc[r] /\ seen'[r] = seen[r]
                           /\ started'[r] = started[r]
    BY <2>1 DEF ChargeCall, TypeOK
  <2> QED
    BY <2>2 DEF UnchargedInv
<1>17. ASSUME NEW a \in Callers, NEW call \in Calls, ChargeText(a, call)
      PROVE  UnchargedInv'
  <2>1. PICK known \in BOOLEAN : ChargeCall(a, call, known, Bill(call))
    BY <1>17, ChargesTheBill
  <2>2. /\ UNCHANGED <<spent, limit, killed, uncharged, late, begunOn>>
        /\ \A r \in Runs : /\ pc'[r] = pc[r] /\ seen'[r] = seen[r]
                           /\ started'[r] = started[r]
    BY <2>1 DEF ChargeCall, TypeOK
  <2> QED
    BY <2>2 DEF UnchargedInv
<1>18. ASSUME OperatorKill
      PROVE  UnchargedInv'
  BY <1>18 DEF TypeOK, UnchargedInv, Solid, OperatorKill
<1>19. ASSUME GrowLimit
      PROVE  UnchargedInv'
  BY <1>19 DEF TypeOK, UnchargedInv, Solid, GrowLimit, Budget!Raise
<1>20. CASE UNCHANGED vars
  BY <1>20 DEF TypeOK, UnchargedInv, Solid, vars
<1> QED
  BY <1>1, <1>2, <1>3, <1>4, <1>5, <1>6, <1>7, <1>8, <1>9, <1>10, <1>11, <1>12, <1>13, <1>14, <1>15, <1>16, <1>17, <1>18, <1>19, <1>20 DEF Next, Running, Charging, Actors

\* No model call begins after the kill.
LEMMA LateInvNext ==
    ASSUME IInv, [Next]_vars
    PROVE  LateInv'
<1> USE ConstantFacts DEF IInv, Goto, Stop, budget, bills, counts
<1>1. ASSUME NEW a \in Runs, StartRun(a)
      PROVE  LateInv'
  BY <1>1 DEF TypeOK, LateInv, StartRun
<1>2. ASSUME NEW a \in Runs, StopKilled(a)
      PROVE  LateInv'
  BY <1>2 DEF TypeOK, LateInv, StopKilled
<1>3. ASSUME NEW a \in Runs, AskKilled(a)
      PROVE  LateInv'
  BY <1>3 DEF TypeOK, LateInv, AskKilled
<1>4. ASSUME NEW a \in Runs, ReadSpent(a)
      PROVE  LateInv'
  BY <1>4 DEF TypeOK, LateInv, ReadSpent
<1>5. ASSUME NEW a \in Runs, StopExhausted(a)
      PROVE  LateInv'
  BY <1>5 DEF TypeOK, LateInv, StopExhausted
<1>6. ASSUME NEW a \in Runs, CallModel(a)
      PROVE  LateInv'
  BY <1>6 DEF TypeOK, LateInv, CallModel
<1>7. ASSUME NEW a \in Runs, FinishTurn(a)
      PROVE  LateInv'
  BY <1>7 DEF TypeOK, LateInv, FinishTurn, Billed
<1>8. ASSUME NEW a \in Runs, FinishUnknown(a)
      PROVE  LateInv'
  BY <1>8 DEF TypeOK, LateInv, FinishUnknown, Billed
<1>9. ASSUME NEW a \in Runs, Kill(a)
      PROVE  LateInv'
  BY <1>9 DEF TypeOK, LateInv, Kill
<1>10. ASSUME NEW a \in Runs, EndRun(a)
      PROVE  LateInv'
  BY <1>10 DEF TypeOK, LateInv, EndRun
<1>11. ASSUME NEW a \in Actors, PassKillCheck(a)
      PROVE  LateInv'
  BY <1>11 DEF TypeOK, LateInv, PassKillCheck
<1>12. ASSUME NEW a \in Actors, RefuseKilled(a)
      PROVE  LateInv'
  BY <1>12 DEF TypeOK, LateInv, RefuseKilled, Refuse
<1>13. ASSUME NEW a \in Actors, Accept(a)
      PROVE  LateInv'
  BY <1>13 DEF TypeOK, LateInv, Accept, Budget!Accept
<1>14. ASSUME NEW a \in Actors, RefuseExhausted(a)
      PROVE  LateInv'
  BY <1>14 DEF TypeOK, LateInv, RefuseExhausted, Refuse
<1>15. ASSUME NEW a \in Actors, Drop(a)
      PROVE  LateInv'
  BY <1>15 DEF TypeOK, LateInv, Drop
<1>16. ASSUME NEW a \in Callers, NEW call \in Calls, ChargeUsage(a, call)
      PROVE  LateInv'
  <2>1. PICK known \in BOOLEAN : ChargeCall(a, call, known, Bill(call))
    BY <1>16, ChargesTheBill
  <2>2. /\ UNCHANGED <<spent, limit, killed, uncharged, late, begunOn>>
        /\ \A r \in Runs : /\ pc'[r] = pc[r] /\ seen'[r] = seen[r]
                           /\ started'[r] = started[r]
    BY <2>1 DEF ChargeCall, TypeOK
  <2> QED
    BY <2>2 DEF LateInv
<1>17. ASSUME NEW a \in Callers, NEW call \in Calls, ChargeText(a, call)
      PROVE  LateInv'
  <2>1. PICK known \in BOOLEAN : ChargeCall(a, call, known, Bill(call))
    BY <1>17, ChargesTheBill
  <2>2. /\ UNCHANGED <<spent, limit, killed, uncharged, late, begunOn>>
        /\ \A r \in Runs : /\ pc'[r] = pc[r] /\ seen'[r] = seen[r]
                           /\ started'[r] = started[r]
    BY <2>1 DEF ChargeCall, TypeOK
  <2> QED
    BY <2>2 DEF LateInv
<1>18. ASSUME OperatorKill
      PROVE  LateInv'
  BY <1>18 DEF TypeOK, LateInv, OperatorKill
<1>19. ASSUME GrowLimit
      PROVE  LateInv'
  BY <1>19 DEF TypeOK, LateInv, GrowLimit, Budget!Raise
<1>20. CASE UNCHANGED vars
  BY <1>20 DEF TypeOK, LateInv, vars
<1> QED
  BY <1>1, <1>2, <1>3, <1>4, <1>5, <1>6, <1>7, <1>8, <1>9, <1>10, <1>11, <1>12, <1>13, <1>14, <1>15, <1>16, <1>17, <1>18, <1>19, <1>20 DEF Next, Running, Charging, Actors

\* A run that began on a spent or killed budget gets no further than its questions.
LEMMA BegunInvNext ==
    ASSUME IInv, [Next]_vars
    PROVE  BegunInv'
<1> USE ConstantFacts DEF IInv, Goto, Stop, budget, bills, counts
<1>1. ASSUME NEW a \in Runs, StartRun(a)
      PROVE  BegunInv'
  BY <1>1 DEF TypeOK, BegunInv, StartRun
<1>2. ASSUME NEW a \in Runs, StopKilled(a)
      PROVE  BegunInv'
  BY <1>2 DEF TypeOK, BegunInv, StopKilled
<1>3. ASSUME NEW a \in Runs, AskKilled(a)
      PROVE  BegunInv'
  BY <1>3 DEF TypeOK, BegunInv, AskKilled
<1>4. ASSUME NEW a \in Runs, ReadSpent(a)
      PROVE  BegunInv'
  BY <1>4 DEF TypeOK, BegunInv, ReadSpent
<1>5. ASSUME NEW a \in Runs, StopExhausted(a)
      PROVE  BegunInv'
  BY <1>5 DEF TypeOK, BegunInv, StopExhausted
<1>6. ASSUME NEW a \in Runs, CallModel(a)
      PROVE  BegunInv'
  BY <1>6 DEF TypeOK, BegunInv, CallModel
<1>7. ASSUME NEW a \in Runs, FinishTurn(a)
      PROVE  BegunInv'
  BY <1>7 DEF TypeOK, BegunInv, FinishTurn, Billed
<1>8. ASSUME NEW a \in Runs, FinishUnknown(a)
      PROVE  BegunInv'
  BY <1>8 DEF TypeOK, BegunInv, FinishUnknown, Billed
<1>9. ASSUME NEW a \in Runs, Kill(a)
      PROVE  BegunInv'
  BY <1>9 DEF TypeOK, BegunInv, Kill
<1>10. ASSUME NEW a \in Runs, EndRun(a)
      PROVE  BegunInv'
  BY <1>10 DEF TypeOK, BegunInv, EndRun
<1>11. ASSUME NEW a \in Actors, PassKillCheck(a)
      PROVE  BegunInv'
  BY <1>11 DEF TypeOK, BegunInv, PassKillCheck
<1>12. ASSUME NEW a \in Actors, RefuseKilled(a)
      PROVE  BegunInv'
  BY <1>12 DEF TypeOK, BegunInv, RefuseKilled, Refuse
<1>13. ASSUME NEW a \in Actors, Accept(a)
      PROVE  BegunInv'
  BY <1>13 DEF TypeOK, BegunInv, Accept, Budget!Accept
<1>14. ASSUME NEW a \in Actors, RefuseExhausted(a)
      PROVE  BegunInv'
  BY <1>14 DEF TypeOK, BegunInv, RefuseExhausted, Refuse
<1>15. ASSUME NEW a \in Actors, Drop(a)
      PROVE  BegunInv'
  BY <1>15 DEF TypeOK, BegunInv, Drop
<1>16. ASSUME NEW a \in Callers, NEW call \in Calls, ChargeUsage(a, call)
      PROVE  BegunInv'
  <2>1. PICK known \in BOOLEAN : ChargeCall(a, call, known, Bill(call))
    BY <1>16, ChargesTheBill
  <2>2. /\ UNCHANGED <<spent, limit, killed, uncharged, late, begunOn>>
        /\ \A r \in Runs : /\ pc'[r] = pc[r] /\ seen'[r] = seen[r]
                           /\ started'[r] = started[r]
    BY <2>1 DEF ChargeCall, TypeOK
  <2> QED
    BY <2>2 DEF BegunInv
<1>17. ASSUME NEW a \in Callers, NEW call \in Calls, ChargeText(a, call)
      PROVE  BegunInv'
  <2>1. PICK known \in BOOLEAN : ChargeCall(a, call, known, Bill(call))
    BY <1>17, ChargesTheBill
  <2>2. /\ UNCHANGED <<spent, limit, killed, uncharged, late, begunOn>>
        /\ \A r \in Runs : /\ pc'[r] = pc[r] /\ seen'[r] = seen[r]
                           /\ started'[r] = started[r]
    BY <2>1 DEF ChargeCall, TypeOK
  <2> QED
    BY <2>2 DEF BegunInv
<1>18. ASSUME OperatorKill
      PROVE  BegunInv'
  BY <1>18 DEF TypeOK, BegunInv, OperatorKill
<1>19. ASSUME GrowLimit
      PROVE  BegunInv'
  BY <1>19 DEF TypeOK, BegunInv, GrowLimit, Budget!Raise
<1>20. CASE UNCHANGED vars
  BY <1>20 DEF TypeOK, BegunInv, vars
<1> QED
  BY <1>1, <1>2, <1>3, <1>4, <1>5, <1>6, <1>7, <1>8, <1>9, <1>10, <1>11, <1>12, <1>13, <1>14, <1>15, <1>16, <1>17, <1>18, <1>19, <1>20 DEF Next, Running, Charging, Actors

-------------------------------------------------------------------------------
\* Nothing has been billed at the start.
LEMMA InitIInv == Init => IInv
<1> USE ConstantFacts
<1> SUFFICES ASSUME Init
             PROVE  IInv
  OBVIOUS
<1>1. TypeOK
  <2>1. spent \in 0..GrowBound /\ limit \in 0..GrowBound /\ paid \in Nat /\ lost \in Nat
    BY DEF Init
  <2>2. /\ started \in [Actors -> Nat] /\ \A a \in Actors : started[a] <= MaxRuns[a]
        /\ seen \in [Actors -> Nat] /\ cost \in [Actors -> Nat] /\ due \in [Actors -> Nat]
    BY DEF Init
  <2> QED
    BY <2>1, <2>2 DEF Init, TypeOK
<1>2. BillInv
  <2> DEFINE f == due
  <2>1. \A a \in Actors : f[a] = 0
    BY DEF Init
  <2> HIDE DEF f
  <2>2. IsFiniteSet(Actors)
    OBVIOUS
  <2>3. SumOf(f, Actors) = 0
    BY <2>1, <2>2, SumZero
  <2>4. BillAccounted
    BY <2>3 DEF Init, BillAccounted, f
  <2> QED
    BY <2>4 DEF Init, BillInv
<1>3. UnchargedInv /\ LateInv /\ BegunInv
  BY DEF Init, UnchargedInv, LateInv, BegunInv
<1> QED
  BY <1>1, <1>2, <1>3 DEF IInv

\* The parts of the invariant together are inductive.
LEMMA NextIInv == IInv /\ [Next]_vars => IInv'
  BY TypeOKNext, BillInvNext, UnchargedInvNext, LateInvNext, BegunInvNext DEF IInv

\* The inductive invariant holds in every state.
THEOREM IInvAlways == Spec => []IInv
  BY InitIInv, NextIInv, PTL DEF Spec

\* The variables keep their types, and the spend its bound: charge never takes it
\* past the limit, whatever the table prices a turn at.
THEOREM TypeCorrect == Spec => []TypeOK
<1>1. IInv => TypeOK
  BY DEF IInv
<1> QED
  BY <1>1, IInvAlways, PTL

\* The spend is the provider's bill but for what is on its way and what was
\* refused, dropped or without a price, for any number of hooks and callers,
\* whichever APIs report the calls (Usage::from_value, BudgetHook::charge).
THEOREM BillAlways == Spec => []BillAccounted
<1>1. IInv => BillAccounted
  BY DEF IInv, BillInv
<1> QED
  BY <1>1, IInvAlways, PTL

\* A hook that kills on a refusal overruns the cap by one turn in all its runs,
\* any other hook by one in each run (on_model_turn_finished).
THEOREM OneUncharged == Spec => []OneUnchargedTurn
<1>1. IInv => OneUnchargedTurn
  BY ConstantFacts DEF IInv, TypeOK, UnchargedInv, OneUnchargedTurn, Solid
<1> QED
  BY <1>1, IInvAlways, PTL

\* After the kill every hook lets at most the one call return that was under way
\* (on_completion_call).
THEOREM OneLate == Spec => []OneLateTurn
<1>1. IInv => OneLateTurn
  BY DEF IInv, LateInv, OneLateTurn
<1> QED
  BY <1>1, IInvAlways, PTL

\* A run that finds the budget spent or killed makes no paid call
\* (on_completion_call).
THEOREM NothingPaid == Spec => []SpentOrKilledPaysNothing
<1>1. IInv => SpentOrKilledPaysNothing
  BY DEF IInv, TypeOK, BegunInv, SpentOrKilledPaysNothing
<1> QED
  BY <1>1, IInvAlways, PTL
===============================================================================
