------------------------------- MODULE Metering -------------------------------
(***************************************************************************)
(* From the usage block of a provider's response, or the texts of a call,  *)
(* to a price: src/usage.rs, src/tokens.rs, src/pricing.rs and the         *)
(* conversion of rig's usage in src/rig.rs.  A JSON                        *)
(* object is a function from the fields it has to their values, a nested   *)
(* "..._details" object is the value of its "cached_tokens", and a model   *)
(* name is the sequence of its parts between slashes.                      *)
(***************************************************************************)
EXTENDS Integers, Sequences

CONSTANT MaxU64   \* u64::MAX

ASSUME MeteringAssumption == MaxU64 \in Nat \ {0}

U64 == 0..MaxU64

SaturatingAdd(a, b) == IF a + b > MaxU64 THEN MaxU64 ELSE a + b
SaturatingSub(a, b) == IF a < b THEN 0 ELSE a - b
Lesser(a, b) == IF a <= b THEN a ELSE b

Usages == [input : U64, cached : U64, written : U64, output : U64]

Has(object, field) == field \in DOMAIN object

\* A field that is missing, or is no unsigned integer, counts as 0.
N(object, field) == IF Has(object, field) THEN object[field] ELSE 0

-------------------------------------------------------------------------------
(***************************************************************************)
(* Usage::from_value                                                       *)
(***************************************************************************)
\* The APIs whose prompt count includes the tokens read from the cache.
Inclusive(input, cached, output) ==
    [input |-> input, cached |-> Lesser(cached, input), written |-> 0, output |-> output]

FromChat(u) ==
    Inclusive(N(u, "prompt_tokens"), N(u, "prompt_tokens_details"), N(u, "completion_tokens"))

FromGemini(u) ==
    Inclusive(N(u, "promptTokenCount"), N(u, "cachedContentTokenCount"),
              SaturatingAdd(N(u, "candidatesTokenCount"), N(u, "thoughtsTokenCount")))

FromResponses(u) ==
    Inclusive(N(u, "input_tokens"), N(u, "input_tokens_details"), N(u, "output_tokens"))

\* Mutant: Anthropic's prompt count is taken to include the cache.
FromAnthropicInclusive(u) ==
    [input |-> N(u, "input_tokens"),
     cached |-> N(u, "cache_read_input_tokens"),
     written |-> N(u, "cache_creation_input_tokens"),
     output |-> N(u, "output_tokens")]

\* Cache reads and writes come on top of input_tokens.
FromAnthropic(u) ==
    LET read == N(u, "cache_read_input_tokens")
        write == N(u, "cache_creation_input_tokens")
    IN  [input |-> SaturatingAdd(SaturatingAdd(N(u, "input_tokens"), read), write),
         cached |-> read,
         written |-> write,
         output |-> N(u, "output_tokens")]

\* A block of none of the known shapes is an error.
Recognised(u) ==
    \E field \in {"prompt_tokens", "promptTokenCount", "candidatesTokenCount",
                  "input_tokens", "output_tokens"} : Has(u, field)

FromValue(u) ==
    IF Has(u, "prompt_tokens") THEN FromChat(u)
    ELSE IF Has(u, "promptTokenCount") \/ Has(u, "candidatesTokenCount") THEN FromGemini(u)
    ELSE IF Has(u, "input_tokens_details") THEN FromResponses(u)
    ELSE FromAnthropic(u)

\* The usage rig reports: cache reads and writes are parts of the input.
FromRig(u) ==
    LET input == N(u, "input_tokens")
        cached == Lesser(N(u, "cached_input_tokens"), input)
    IN  [input |-> input,
         cached |-> cached,
         written |-> Lesser(N(u, "cache_creation_input_tokens"), input - cached),
         output |-> N(u, "output_tokens")]

-------------------------------------------------------------------------------
(***************************************************************************)
(* ModelPrice: USD per million tokens here in nano-dollars per token, a    *)
(* cache price the table does not list being no field of the price.        *)
(***************************************************************************)
\* Prices with or without cache prices.
Prices ==
    [input : Nat, output : Nat] \cup [input : Nat, output : Nat, cacheRead : Nat]
        \cup [input : Nat, output : Nat, cacheWrite : Nat]
        \cup [input : Nat, output : Nat, cacheRead : Nat, cacheWrite : Nat]

CacheRead(price) == IF Has(price, "cacheRead") THEN price.cacheRead ELSE price.input
CacheWrite(price) == IF Has(price, "cacheWrite") THEN price.cacheWrite ELSE price.input

\* The three parts of the prompt that cost_usage bills.
FreshInput(u) == SaturatingSub(SaturatingSub(u.input, u.cached), u.written)
BilledRead(u) == Lesser(u.cached, u.input)
BilledWrite(u) == Lesser(u.written, SaturatingSub(u.input, u.cached))

CostUsage(price, u) ==
    FreshInput(u) * price.input + BilledRead(u) * CacheRead(price)
        + BilledWrite(u) * CacheWrite(price) + u.output * price.output

Cost(price, input, output) == input * price.input + output * price.output

CostWithCache(price, input, cached, output) ==
    LET read == Lesser(cached, input)
    IN  (input - read) * price.input + read * CacheRead(price) + output * price.output

-------------------------------------------------------------------------------
(***************************************************************************)
(* PriceTable: a function from model names to prices.                      *)
(***************************************************************************)
\* An entry without both an input and an output price is skipped.
FromLitellm(entries) ==
    [m \in {k \in DOMAIN entries : Has(entries[k], "input") /\ Has(entries[k], "output")}
        |-> entries[m]]

\* The names a lookup of model tries: itself, then without its provider.
Candidates(model) == {model} \cup IF Len(model) > 1 THEN {Tail(model)} ELSE {}

Knows(table, model) == Candidates(model) \cap DOMAIN table # {}

Get(table, model) ==
    IF model \in DOMAIN table THEN table[model] ELSE table[Tail(model)]

\* insert adds a price or replaces the one the table has.
Insert(table, model, price) ==
    [m \in DOMAIN table \cup {model} |-> IF m = model THEN price ELSE table[m]]

-------------------------------------------------------------------------------
(***************************************************************************)
(* count_tokens and cost_of_text.  The tokenizer is looked up by the last  *)
(* part of the name, the price by the whole name or all but its first part.*)
(* A text is the number of its tokens, by the model's own tokenizer (own)  *)
(* and by the one that stands in for an unknown tokenizer (standIn).       *)
(***************************************************************************)
CountTokens(tokenizers, model, text) ==
    IF <<model[Len(model)]>> \in tokenizers THEN text.own ELSE text.standIn

CostOfText(table, tokenizers, model, prompt, completion) ==
    Cost(Get(table, model), CountTokens(tokenizers, model, prompt),
         CountTokens(tokenizers, model, completion))
===============================================================================
