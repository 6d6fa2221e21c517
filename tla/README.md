# TLA+ verification of llm-budget

llm-budget keeps LLM spending under hard caps. Amounts are whole nano-dollars
in atomics, agents are shared by tasks of an async runtime, and a fleet splits
one total between agents. What has to be right is money under concurrency:
a cap is never exceeded, a counter is never off, nothing is billed twice,
nothing budgeted appears or disappears. These modules model that code and TLC
checks them on small instances. TLAPS proves the same for all instances, for
every invariant and every action property of the passing runs; liveness stays
with TLC.

Paths below are relative to the repository.

## The system

| Component | State | Operations | Interacts with |
|---|---|---|---|
| `AtomicBudget` (`src/budget/mod.rs` 52-167) | `spent_nanos`, `limit_nanos` (`AtomicU64`) | `charge`, `shrink_limit`, `grow_limit`, readers | any thread, no lock |
| `BudgetEnvelope` (`src/budget/mod.rs` 177-300) | an `AtomicBudget`, `killed`, `kill_reason`, `log` | `charge`, `kill`, readers | `AtomicBudget`; log behind an async `RwLock` |
| `AgentBudget` (`src/budget/mod.rs` 310-552) | an envelope and a `ModelCascade` behind an async `Mutex` | `charge*`, `kill`, `shrink_limit`, `grow_limit`, `snapshot` | envelope, cascade, `PriceTable`, `observe` |
| `ModelCascade` (`src/model.rs`) | `current`, `total_budget` | `evaluate`, `set_total_budget`, `force_downgrade` | called by `AgentBudget` |
| `FleetBudget` (`src/fleet/mod.rs` 11-87) | `allocated_nanos`, `spent_nanos` | `allocate`, `release`, `record_spend` | called by `FleetAllocator` |
| `FleetAllocator` (`src/fleet/mod.rs` 90-290) | a `DashMap` of `Arc<AgentBudget>` | `register_agent`, `get_agent`, `remove_agent`, `charge_agent*`, `kill_agent`, `kill_all`, `reallocate`, `fleet_snapshot` | agents, `FleetBudget` |
| `BudgetStore` (`src/persistence/mod.rs`) | files, a cache behind an async `RwLock` | `save`, `load`, `delete`, `list_sessions` | file system |
| `TokenRateLimiter` (`src/ratelimit.rs`) | two limiters of the crate governor | `check` | clock |
| `BudgetHook` (`src/rig.rs`) | a shared `AgentBudget`, a price table | before a model call, after a turn | rig agents |
| `Usage`, `PriceTable` (`src/usage.rs`, `src/pricing.rs`) | none | parse a usage block, price it | every charge |
| `tokens` (`src/tokens.rs`) | none | `count_tokens`, `cost_of_text`, `charge_model_text` | tokenizers, `PriceTable` |
| `observe` (`src/observe.rs`) | a counter and two gauges per agent | `charged`, `refused`, `downgraded` | called by `AgentBudget` |
| `error`, `prices_data` | none | error texts, data | - |

What is hard about each of them, and the property that would notice:

- **AtomicBudget.** A charge and a shrink write different atomics and then look
  at the other one. Both undo themselves when they lose, while further charges,
  shrinks and grows go on: `NeverOverspent`, `Ledger`, `ImplementsHardCap`. The
  loops must end: `CallsReturn`. Everything a reader or a refused caller is told
  is put together from loads made at different times: `RemainingNotOverstated`,
  `UtilizationAtMostOne`, `RefusalExplained`, `ShortfallReported`.
- **AgentBudget.** Between the steps of one charge there are awaits: the kill
  check is stale when the charge happens (`OneLateChargeEach`), the reason of a
  kill is read through another lock than its flag (`RefusalHasReason`), the log
  is written after the charge (`AuditComplete`, `AuditOrderedApart`), metrics are
  published without a lock, one gauge after the other (`AttemptsCounted`,
  `GaugeCurrent`), the remainder is judged after a wait for the cascade
  (`DowngradeJustified`, `PressureNoticed`). It is put together from two loads
  that may see charges and shrinks half done, those included that will be undone.
  A move changes the limit and the
  cascade's total in two steps (`TotalBudgetInStep`, violated by two moves at
  once). A future can be dropped at every await.
- **FleetAllocator.** Agents are looked up, cloned out of the map and then used,
  while others remove or register them (`FleetCap`); budget is in nobody's hands
  in the middle of `reallocate` and `remove_agent` (`AllocationExact`); fleet
  spend is recorded behind an await (`FleetSpendExact`); `kill_all` walks a
  changing map (`KillAllReaches`). `fleet_snapshot` awaits while it keeps a shard
  of the map locked, and others block their thread on that lock
  (`StuckForWantOfWorkers`, `EndsUnlessStuck`).
- **BudgetHook.** The provider is paid before the turn is charged, so the cap is
  overrun; by how much depends on what other runs do between the check, the
  answer, the charge and the kill (`OneUnchargedTurn`, `OneLateTurn`,
  `SpentOrKilledPaysNothing`). A run must end (`RunsEnd`).
- **Usage, prices and texts.** Each API counts cached tokens in its own way; each
  token must be billed once, at its own price. The tokenizer and the price of a
  model are looked up under differently shortened names (`BillAccounted`, theorem
  `BilledOnce`).
- **BudgetStore.** Crashes between write, rename and cache (`FileComplete`,
  `AckedSurvives`), a temporary file that all saves of a session share, a cache
  filled by a load that raced or missed by a save that was dropped between the
  rename and the cache (`CacheCoherentApart`), a directory listed while it changes
  (`ListFaithful`) and ids that look like file names (theorem
  `SuffixedNeverListed`).
- **TokenRateLimiter.** The clock is read before the limiter, two limiters are
  asked in turn, a refused call keeps its request slot (`QuotaKept`,
  `PatientCallerPasses`), the wait is rounded twice (`NeverTooEarly`).

`PROJECT.json` lists these hazards at their lines, with those no property covers.

## Modules

```
HardCap  <-- implemented by --  AtomicBudget <- AtomicBudgetInv <- AtomicBudgetProofs
   ^                              ^  ^                  ^
   |                              |  |          MCAtomicBudget
   |                              |  +-- BudgetReaders <- MCBudgetReaders
   |                              +-- AgentBudget <- MCAgentBudget
   +-- used by BudgetHook, level of FleetAllocator
Metering <- BudgetHook <- MCBudgetHook         FleetAllocator <- MCFleetAllocator
BudgetStore <- MCBudgetStore                   FleetSnapshots <- MCFleetSnapshots
Cascade <- AgentBudget                         RateLimiter <- MCRateLimiter

Sums <- AgentBudget, BudgetHook, FleetAllocator
Sums <- SumProofs <- AgentBudgetProofs, BudgetHookProofs, FleetAllocatorProofs,
                     RateLimiterProofs
AtomicBudgetProofs <- AgentBudgetProofs
HardCap  <-- implemented by --  FleetAllocator (FleetAllocatorProofs)
```

`X` with proofs has them in `XProofs`, which extends `X`; those of Cascade are in
AgentBudgetProofs, those of Metering in BudgetHookProofs and those of
BudgetReaders in AtomicBudgetProofs. The inductive invariants are defined there
too.

**HardCap** is what `AtomicBudget` promises: one number under one cap, where
every operation is one step. `Accept` is a `charge` that returns `Ok`, `Lower` a
`shrink_limit` that does, `Raise` a `grow_limit`; a refused call is no step.

**AtomicBudget** is `charge`, `shrink_limit` and `grow_limit` one atomic access
at a time. `pc[t]` is the access thread `t` makes next, `arg[t]` the amount it
was called with, `seen[t]` the value it loaded. All accesses in the code are
`SeqCst`, so an interleaving of accesses is all the memory model allows.
`ChargeSwap` and `ChargeRetry` are the two outcomes of `compare_exchange_weak`;
the failing one needs no reason, as the instruction may fail spuriously.
Additions saturate or wrap as in the code (`SaturatingAdd`, `FetchAdd`,
`FetchSub`). Two history variables say what the callers were told: `accepted`,
the sum of the charges that returned `Ok`, and `settled`, the initial limit with
every successful shrink and grow. Dollar amounts appear as the nano-dollars
`usd_to_nanos` makes of them.

**AtomicBudgetInv** has the inductive invariant and **AtomicBudgetProofs** the
proofs.

**BudgetReaders** puts readers next to AtomicBudget, whose actions it takes as
they are (`BudgetStep`). A reader makes the two loads of `remaining_usd` and then
the two of `utilization`, as a snapshot does, with anything in between; a charge
that was refused loads the limit for its error afterwards, and the spend in the
error is the one the refusal saw. `most`, `raised` and `eased` remember what was
true meanwhile, so that the properties can compare what is reported with it. A
shrink may also be by nothing, which a caller can ask for; while a charge that
lost against an earlier shrink is still to be undone it is refused with a
remainder of 0.

**Cascade** is the pure code of `src/model.rs`: tiers, prices, `estimate_cost`,
`new`, `evaluate`, `force_downgrade`, `set_total_budget`. The threshold is in
percent, so that `remaining / total <= threshold` compares integers.

**AgentBudget** is `charge_inner` with `BudgetEnvelope::charge` inlined, `kill`,
`shrink_limit` and `grow_limit`, from one shared access or lock to the next. All
public charge functions end in `charge_inner`; they differ in where the
cost comes from, which `ReadTier` chooses (the estimate of the current tier, or
an exact cost). The atomic budget is AtomicBudget itself, one access at a time:
`TryCharge`, `WriteTotal`, `UndoTotal` and `Accept` are the steps of a charge,
`BeginShrink`, `TryShrink`, `UndoLimit`, `Shrunk` and `ShrinkRefused` those of a
shrink. `ReadSpent` and `ReadLimit` are the two loads of `remaining_usd` and see
the raw counters, with whatever others have half done. `CountAccepted`,
`SetSpent` and `SetRemaining` are the three writes of `observe::charged` in their
order; the gauges are `Unset` before the first. `TellCascade` and `JudgePressure`
hold the cascade lock, and `Cancel` drops a future that waits for a lock.

History variables say what the properties except. `crowded`: two charges have
waited for the log at once. `crossed`: the half-done charges that met another
one, whose total is not the sum of accepted charges. `behind`: why the gauges may be
off. `timely` are the charges that loaded the spend since limit or total last moved
and since a charge was last dropped, `judged` says that one of them has been
evaluated; `firm` are those that loaded it since room was last made, by a grow or
an undo. `dropped` counts what was dropped before the log. A call refused before
it touches shared state (`UnknownModel`, `InvalidConfig`) is no step.

**FleetAllocator** is the registry and the two fleet counters over several
agents, each a pair `spent`, `limit` on the level of `HardCap`, and a kill flag.
Agents are numbered by registration, because a removed agent lives on in the
`Arc`s of tasks that looked it up; `from[t]` and `to[t]` are those `Arc`s. An
operation on the `DashMap` holds its shard's lock and is one step:
`RegisterAgent` has the vacancy check, `allocate` and the insert in one: between
the last two the entry is locked and the new agent is known to nobody, so that what
others do meanwhile (on other names, on other agents, on the fleet's counters) could
as well be done after the insert.
`ChargeDirect` charges the `Arc` that `get_agent` returned, past the fleet's
counter, which `unrecorded` remembers. `kill_all` visits names one by one
(`KillNext`). What happens inside an agent apart from its kill check and its
counters (log, cascade) is AgentBudget's.

**FleetSnapshots** is `fleet_snapshot` in a runtime with a few worker threads. A
task is polled by a worker until it awaits a lock that is taken or has used up
the budget of its poll (`PollBudget`; tokio then makes even a free lock
pending). `guard[t]` is the shard that the iterator of a snapshot keeps locked;
`ChangeRegistry`, an insert or a remove, cannot await and keeps its worker until
nobody reads the shard. `holder` and `queue` are the cascade mutexes, which are
handed over in order. The runtime, the mutex and the map are external code. A
charge takes the cascade lock twice and is over; its log lock, between the two, is
left out, since it is held without waiting for anything and by nobody that reads a
shard, and so are its refusals, which end it after the first lock.

**BudgetStore** is `save`, `load`, `delete` and `list_sessions` against a file
system of paths and inodes. `tokio::fs::write` is an open that truncates and a
write; an open file stays the same inode when its path is renamed. A file's
content is the set of saves whose bytes it holds, so that `{}` is a truncated
file and two elements are a mixture. Any write, rename or remove may fail, and
`Crash` may come at any point. `DropAtLock` is a call dropped while it waits for the
cache lock; a save has renamed its file by then, and if an older version is
cached it stays there (`behind`) until the next save or delete. Inside a file
system call a dropped future changes nothing at once, as tokio finishes the call on
another thread: when that is before the next call of the session, it is the step
followed by `DropAtLock` or by the step's failure. A session id is a base and the number of times it
ends in `.budget.json` (`FileName`, `ListedAs`), JSON is the number of the save.
`ListNext` comes to the directory's names in any order and may or may not see
those that appear or vanish meanwhile. `PlainIds` says that no id in use ends in
the suffix.

**Metering** has the pure code between a provider's response and a price:
`Usage::from_value` with its four shapes, rig's usage, the three price functions,
the lookup by name, `insert`, the LiteLLM reader, and `count_tokens` and
`cost_of_text` of `src/tokens.rs`. A JSON object is a function from its fields,
prices are nano-dollars per token (USD per million tokens times 1000), a name is
the sequence of the parts between its slashes, a text its number of tokens.

**BudgetHook** composes Metering and HardCap. A run is a slot with its hook: `ask`
is `on_completion_call`, three loads from the kill check to the limit; `model` is
the call of the provider, which answers with a turn and is paid in the same step;
then comes the charge, and `kill` if it was refused. Callers of `charge_usage`
get the block of one of the APIs instead, callers of `charge_model_text` count
the tokens of prompt and answer (`ChargeText`, for calls without a cache, as a
text says nothing of one). The provider's bill is worked out from the tokens of
the call, independently of how the API reports them and the code prices the
report, and `paid`, `lost` and `due` keep the books. Hooks have a table of
their own, the built-in one with a private model inserted. A cost that comes with
the response counts if it is an amount (`CostGiven`); a negative one, like none,
leaves the turn to the table. Every charge goes
through `charge_inner`; its log and cascade are AgentBudget's. Nothing here
shrinks the limit, so a charge is refused exactly when it does not fit.

**RateLimiter** is `check` from one clock reading or limiter access to the next.
A limiter of governor (external) keeps the theoretical arrival time of the next
cell and replaces it by compare-and-swap; `Admit` and `Earliest` are its cell rate
algorithm. `tokens[c]` is what the caller asks for, `clock[c]` the time it read,
`until[c]` when it was told to retry; `refusals[c]` counts how often it was
refused in a row although it waited as told and nobody else called.

Each `MC` module extends its module with the values its configurations use and a
symmetry set over threads or tasks where there is no liveness to check. Operators
marked "Mutant" are broken forms of the definition that follows them, for trying
the properties out.

## Runs

| Run | Shows | Bounds |
|---|---|---|
| `AtomicBudget` | type invariant, `NeverOverspent`, `Ledger`, `ImplementsHardCap`, `CallsReturn` | 3 threads, limit 2, charges of 1 and 2, shrinks of 1, grows of 1 back to 2, integers up to 4 (165 thousand states) |
| `AtomicBudgetRefusals` | `FittingChargeAccepted` is violated | 3 threads, limit 3, charges 1 and 2, shrinks of 2 |
| `BudgetReaders` | what readers and refused callers are told | 2 threads, 1 reader, limit 2, charges of 1 and 2, shrinks of 0 and 2, grows of 1 up to 3 (2.4 million states) |
| `AgentBudget` | kill switch, audit log, metrics, tier | 2 callers, 1 mover, limit 6000 that shrinks by 3000, to nothing even, and grows back, costs of one token and 3600, threshold 40 %, 2 charges, futures dropped (1.3 million states) |
| `AgentBudgetTotals` | `TotalBudgetInStep` is violated by two moves | 2 movers, limit 6000, shrinks and grows of 3000 |
| `BudgetHook` | provider's bill, overrun of the cap, runs end | 2 runs (one kills on refusal; one does not and has no output price), 1 caller, limit 3 growing to 4, turns of 2 and 3, futures dropped (153 thousand states) |
| `FleetAllocator` | fleet cap, both fleet counters, `kill_all` | 2 tasks, 2 names, 3 registrations, total 2, caps 1 and 2, futures dropped (1.4 million states) |
| `FleetRemoveCharging` | `FleetCap` is violated when an agent in use is removed | 2 tasks, total 2 |
| `FleetSnapshots` | calls wait in no circle and end unless every worker is blocked | 2 workers, 2 snapshots, 1 charge of any agent, 2 changes of any shard, 3 agents in 2 shards, 2 locks a poll (0.8 million states) |
| `BudgetStore` | files, acknowledged saves, lists, cache | 2 tasks, 2 sessions with plain ids, 3 saves, crashes and failures without bound, calls dropped at the cache lock (1.8 million states) |
| `BudgetStoreTruncated` | `FileComplete` is violated by overlapping saves | 2 tasks, 1 session, 2 saves |
| `RateLimiter` | quotas, `retry_after_ms` | 2 callers, 3 tokens and 2 requests in 6 ticks, 2 ticks a microsecond, 2 microseconds a millisecond, 7 ticks, calls of 0, 2 and 4 tokens (1.5 million states) |

Why these bounds are enough. Three threads are two opponents and one that
profits from their confusion: with two, no undo ever meets a third party's swap.
The charge of 2 fills the whole limit, so it collides with any shrink; 1 leaves
room for both. The integers are wide enough for nothing to saturate, which is
the regime the proofs assume, and a wrapping undo would still be seen as a value
near the top. A reader changes nothing, so one is as good as many, and the two
threads next to it can refuse, undo and raise between its loads. In AgentBudget,
the limit of 6000 with costs 250 (one token on tier Economy) and 3600, and moves
of 3000, puts the remaining 40 % exactly on a value that occurs (2400); a charge
of 3600 does not fit a limit of 3000 and collides with the shrink to it, two of them
are refused even without one, and a limit of 0 is one for which the cascade keeps
its old total. Two charges are enough for one to read, publish and judge what
the other has half done or undone, and for one to overtake the other on its way
to the log, the gauges and the cascade. The atomics do not saturate here. More movers
than one are left to the theorem. In BudgetHook, two turns never fit a limit of 3, one of 3 uses it up exactly and the raised limit takes two of 2; the
slot that kills can begin two runs before the kill, and any number after it. In
FleetAllocator, three registrations
on two names make one name be registered twice, and a total of 2 is used up by
one agent or by two. Three saves on two sessions give one session an old
version, a new version and the other a competitor. In FleetSnapshots two changes
block both workers, a third agent in a shard of its own makes a snapshot let go
of one shard and take the next, and its poll ends at the last agent, with that
agent's shard locked.
In RateLimiter a tick is half a microsecond and a millisecond is two of them,
so that cutting off and rounding up both lose something and do so differently;
one call of 4 tokens is impossible, two of 2 exceed the quota, and a cell comes
back every 2 or 3 ticks, a minute passing within the run. `GrowBound`,
`MaxAttempts`, `MaxRuns`, `MaxAgents`, `MaxSaves` and `MaxTime` bound the models
only; the code has no such limits.

Deadlock is checked in every run but `FleetSnapshots`, whose tasks end, and
whose workers may all stand still (below); the other models cannot stop.

### Disagreements between code and documentation

Four are runs that expect a violation, so the trace can be looked at.

- `FleetRemoveCharging`: `remove_agent` reads what an agent has left while
  another task, which has looked the agent up before, may still charge it. What
  was released is handed out again, and the agents together spend more than the
  fleet total, against the comment at `src/fleet/mod.rs:150`. In the same way an
  agent removed during a `reallocate` out of it leaves caps above the total.
  With no agent removed while in use (`RemoveInUse = FALSE`) all fleet
  properties hold.
- `AtomicBudgetRefusals`: `charge` adds its cost before the second look at the
  limit; until it is undone, other charges are measured against money that is not
  spent, and one that fits is refused (`src/budget/mod.rs:75`). It takes a racing
  `shrink_limit`.
- `BudgetStoreTruncated`: two overlapping saves of a session can leave a
  truncated file (`src/persistence/mod.rs:62`).
- `AgentBudgetTotals`: two reallocations of one agent can leave its cascade with a
  total that is not its limit, for good: each sets the limit it was given, and the
  older one may be set last (`src/budget/mod.rs:528`, against `src/model.rs:93`).

Others are the conditions of properties that hold, and show there what it takes:

- The audit log is in the order of the log lock, not "oldest first"
  (`src/budget/mod.rs:292`), when two charges have waited for it at once
  (`crowded`), and the gauges may stay on the older of two racing charges, each on
  another one, or on what a charge or shrink that was later undone had made of the
  counters (`behind`, `crossed`).
- A session deleted while it is being loaded can still be loaded afterwards
  (`src/persistence/mod.rs:92`), and a save dropped between the rename and the
  cache leaves the old version to be loaded until the process ends
  (`src/persistence/mod.rs:70`): `CacheCoherentApart` leaves out sessions whose
  calls have overlapped (`raced`) or were dropped there (`behind`).
- A charge may read the limit while a shrink has lowered it and not yet found out
  that it must give it back, or the spend with a charge that will be undone
  (`src/budget/mod.rs:145`). It then goes down a tier, for good, with plenty left
  (against "downgrade if under pressure", `src/model.rs:100`): one charge of 1000
  and one refused shrink by 6000 of a limit of 6000 are enough.
  `DowngradeJustified` excepts charges during whose reading or waiting room was
  made, by an undo too.
- A session id that itself ends in `.budget.json` is listed as what is left when
  the suffix is taken off as often as it is there (`src/persistence/mod.rs:124`): as
  `a` where only `a.budget.json` was saved, and never under its own id, against "List
  all session IDs that have persisted state" (line 110). `ListFaithful` is violated
  as soon as such an id is in use; theorem `SuffixedNeverListed` says that it goes
  wrong for all of them, `ListsFaithful` that it does for no other.
- `utilization` exceeds the "0.0 to 1.0" of its doc while a charge or a shrink is
  half done, or when the limit is raised between its loads
  (`UtilizationAtMostOne`).
- `retry_after_ms` is early by less than a microsecond, against the comment at
  `src/ratelimit.rs:101` (`NeverTooEarly`); and since a refused call keeps its
  request slot, a caller that waits as told may be refused again, by the request
  limit it has itself used up (`PatientCallerPasses`: three times at most).
- When as many calls change the registry as there are worker threads, each
  blocked on a shard that suspended snapshots keep locked, no thread is left to go
  on with the snapshots (`src/fleet/mod.rs:281`). `EndsUnlessStuck` says that
  nothing else keeps the calls from ending.

Dropped futures are built into the passing runs: the log then misses exactly
what was dropped while it waited (`dropped`), the counter of charges misses the
same calls, fleet spend misses `unrecorded`, and the fleet total has lost `lost`.
Never more, and no budget is created.

## Fairness

Three runs need it. In `AtomicBudget`, the scheduler keeps running a thread
that is inside a call (weak fairness of its steps), and `compare_exchange_weak`
does not fail spuriously for ever: a swap that keeps becoming possible is made
(strong fairness of the swaps). No thread is obliged to start a call.
`CallsReturn` is stated for executions in which new calls stop: the loops are
lock-free, not wait-free, and one thread can be overtaken for ever by others that
keep coming.

In `BudgetHook` the runtime polls each run that can go on, and a model call
returns (weak fairness of `Running`); nothing makes a run end of its own accord
(`EndRun` has no fairness) or begin. `RunsEnd` rests on every turn costing
something: turns that are free at the table's prices can go on for ever.

In `FleetSnapshots` every worker thread that can go on does (weak fairness of
`Work(w)`): it runs its task or takes up some task that can run. That is less
than what tokio gives, whose queues are served in order.

## Proofs

Each theorem holds for any number of threads, tasks, sessions, agents or runs,
any amounts and any bound, under the assumptions its module states of the
constants; what a theorem assumes beyond those is in its statement and below.
Every inductive invariant was checked by TLC on the instance of the run before it
was proved. They are in no run: the proofs cover every instance a run could have.

### Sums

Several properties say that a counter is the sum of something over a set of
tasks or agents. `SumOf` (module Sums) is the fold of the community modules, whose
value depends on the order in which `CHOOSE` picks elements until one shows that
it does not. `SumProofs` does so: `SubsetInduction` derives induction over the
subsets of a finite set from the well-foundedness of `StrictSubsetOrdering`, with
the induction predicate given as a set; by it the fold exists (`FoldExists`), is
determined (`FoldAgrees`) and can be taken apart at any element (`SumRemove`). What
the other modules use is `SumStep`, how a sum changes when one element of the set
or its summand does, and `SizeStep`, the same of cardinalities. This is why sets
that are summed over are assumed to be finite (`IsFiniteSet` of tasks, callers,
runs, names): a program has finitely many of each.

### AtomicBudget

| Theorem | Says |
|---|---|
| `InvariantHolds` | `Spec => []IInv` |
| `TypeCorrect` | `Spec => []TypeOK` |
| `HardCapHolds` | `Spec => []NeverOverspent` |
| `LedgerHolds` | `Spec => []Ledger` |
| `UndoSafe` | `Spec => []UndoNeverWraps`: no undo wraps |
| `Refinement` | `Spec => HC!Spec`: AtomicBudget implements HardCap |
| `ReadersInvariant` | `ReadersSpec => []ReadersInv` |
| `RemainingTrue`, `UtilizationTrue` | what readers are told: `RemainingNotOverstated`, `UtilizationAtMostOne` |
| `RefusalTrue`, `ShortfallTrue` | what refused callers are told: `RefusalExplained`, `ShortfallReported` |

Assumed are `ConstantsAssumption` (amounts fit the integers) and
`NoWrapAssumption`: limits never grow to the last value of a `u64`, which is
1.8e10 USD. Beyond it `saturating_add` lets charges pass uncounted and
`fetch_add` wraps, so the theorems would be false.

`accepted <= settled` is far from inductive: in the middle of a race
`spent_nanos` may be above `limit_nanos`, and an undo is safe only because
everybody else's amounts are still there. The invariant pictures the
nano-dollars as positions on a line. `[0, accepted)` is spent for good, and the
intervals of the pending charges, one each, tile `[accepted, spent)`; likewise
pending shrinks tile `[limit, settled)`. That gives `Ledger` (nothing pending,
no gap) and `UndoNeverWraps` (a pending interval lies inside). For the cap there
is a mark `cov` below which every pending charge may be accepted and a mark
`clim` above which every pending shrink may be, with `cov <= clim`. A charge
above `cov` has written a total that reaches its top and looks at the limit after
that: if it passes, the limit is at least its top, and `cov` can move there. A
shrink below `clim` is the mirror image. This is the argument of the comment
"Store-then-load on both sides" in the code. One lemma per moving action shows
how the layout changes, and `NextIInv` puts them together.

For the readers the step of AtomicBudget is summed up by which way it moves the
two counters, and each report gets an invariant for the time between the loads it
is made of (`ReadingInv`, `RefusalInv`, `ShortfallInv`): until the limit is
raised, what was loaded first bounds what is there. `UtilizationAtMostOne` needs
the hard cap itself. The attempt to prove that a refused shrink reports less than
its amount failed on a shrink by nothing: one that meets a charge which lost
against an earlier shrink and has not undone itself yet is refused with a
remainder of 0, which is not less. The property says so now, and the run has that
amount; the doc of `shrink_limit` ("if there is not enough left") does not.

### AgentBudget and Cascade

| Theorem | Says |
|---|---|
| `DowngradeNeverDearer` | the estimate that prices the next charge only falls with a downgrade |
| `SpentBudgetDowngrades` | with nothing left `evaluate` goes down a tier, whatever the total and the threshold; it never changes either |
| `TotalStaysPositive` | what `new` accepts and `set_total_budget` leaves has a positive total, by which `evaluate` divides |
| `ShapeAlways`, `AgentTypeCorrect` | types, and which step of AtomicBudget a call may be at |
| `AgentUsesAtomics` | to the atomics the agent is a behaviour of AtomicBudget, whose theorems hold in it |
| `KillStops`, `ReasonKnown` | `OneLateChargeEach`, `RefusalHasReason` |
| `AuditAlways`, `AuditOrdered`, `AttemptsAlways` | `AuditComplete`, `AuditOrderedApart`, `AttemptsCounted` |
| `GaugesAlways` | `GaugeCurrent` |
| `DowngradesJustified` | `DowngradeJustified`, an action property |
| `PressureAlways` | `PressureNoticed`, for any number of movers |

All rest on the invariant of AtomicBudget, and so on `NoWrapAssumption`: the layout
of pending charges and shrinks is what tells a raw counter from what was accepted
and settled. On top of it and of `Shape`, each property has the invariant it needs
and no more. `KillInv` says that a task whose charge was late will meet the switch
when it next looks. `Books`, the sums of `AuditComplete` over `accepted` in place of
`spent`, and `AttemptsCounted` are inductive themselves. `OrderInv` follows the one
record that is on its way to the log. `CrossInv` says of a half-done charge that met
no other that it is the only one, so that its total is right; `GaugeInv` follows
such a charge to the gauges.

`ReadInv` says which way a remainder can be wrong: half-done charges and shrinks
only make it smaller, and while no room is made what is left only falls, so a
`firm` charge errs towards plenty, never towards pressure. Room is made by a grow
and by an undo; without the latter exception TLC finds the downgrade described among
the disagreements. `PressureNoticed` is the other direction: among racing
charges there is always one that is `Fresh`, whose reading is at most what is left;
when it judges, pressure is noticed, and when another spends in between, that one
becomes the fresh one (`NoticeInv`). Here half-done calls do no harm, since they
only add pressure, and so any number of movers may be under way.

### BudgetHook and Metering

| Theorem | Says |
|---|---|
| `BilledOnce` | the prompt parts of `cost_usage` add up to the prompt, even when the public fields of a `Usage` contradict each other |
| `ParsedUsage`, `RigUsage` | `from_value`, and rig's usage, yield `u64` counts, cached and written tokens being parts of the input |
| `PricesAgree` | `cost`, `cost_with_cache` and `cost_usage` agree |
| `UsageCostsTheBill`, `TurnCostsTheBill` | what `charge_usage`, and a hook, charges for a call is the provider's bill, for every API |
| `IInvAlways`, `TypeCorrect` | `Spec => []IInv`, `Spec => []TypeOK` |
| `BillAlways` | `BillAccounted` |
| `OneUncharged`, `OneLate`, `NothingPaid` | `OneUnchargedTurn`, `OneLateTurn`, `SpentOrKilledPaysNothing` |

`BillAccounted` is a sum over runs and callers that rests on arithmetic: that the
amount charged and the amount billed agree is worked out API by API from how each
of them counts cached tokens, and then carried along by `cost[a] = due[a]`. It
assumes that the prices in the table are the provider's, which is a matter of
data (`HookAssumption`), and that the prompt tokens of one call fit a `u64`.
`ParsedUsage` assumes the latter of Anthropic's three prompt counts; where it
does not hold, `from_value` saturates the input and the parts may exceed it, which
`BilledOnce` allows for.

The bounds on overruns are not inductive: that a hook has one uncharged turn at
most needs to know where the run is that has it. `UnchargedInv` says that for a
hook that kills, the turn is followed by the kill and then by questions only,
because the flag is never taken back; `LateInv` and `BegunInv` are like it.

### FleetAllocator

| Theorem | Says |
|---|---|
| `InvAlways`, `TypeCorrect` | `Spec => []Inv`, `Spec => []TypeOK` |
| `KillAllComplete` | `KillAllReaches` |
| `SpendAlways` | `FleetSpendExact` |
| `AllocationAlways` | `AllocationExact`, if no agent in use is removed |
| `FleetCapped` | `FleetCap`, if no agent in use is removed |
| `FleetRefinement` | the fleet implements HardCap, if no agent in use is removed |

`Inv` knows which Arcs a call holds at which step, that an agent is registered
under one name at most and never again once removed, that no agent spends past
its cap, and how far a `kill_all` has come. `AllocationExact` compares a counter
with three sums over sets that a step may all change: an agent leaves the live
ones and joins the retired ones when its remainder is released, an amount goes
from a cap to a task and on to another cap. It needs `UsageInv`: an agent that is
being removed is used by nobody else, so that what is released is what was
measured. `FleetCap` follows, since what was spent is part of what was promised.

`~RemoveInUse` is an assumption on the callers which the code does not enforce;
without it `AllocationExact` and `FleetCap` are false, which `FleetRemoveCharging`
shows. `InvAlways`, `KillAllComplete` and `SpendAlways` do without it.

`FleetRefinement` puts the two levels together. AtomicBudget implements HardCap,
FleetAllocator takes its agents as HardCaps, and is itself one, whose `accepted`
is the spend of all agents, removed ones included, and whose `cap` is the fleet
total: a charge that its agent accepts fits what the whole fleet has left, and
registering, removing and reallocating is no step at all. TLC agrees on the
instance of the run and finds a counterexample with `RemoveInUse = TRUE`.

### FleetSnapshots

`StuckOnlyForWorkers` proves `StuckForWantOfWorkers` for any number of workers,
calls, agents and shards, from `SnapshotsInv` (`SnapshotsInvAlways`): every task
that is not done is run by one worker, can be taken up or waits in one queue, and
whoever waits in a queue waits for a holder that is past its own wait. So chains of
waiting have length one, and a task that cannot go on waits, in the end, for a
worker. `SnapshotsAssumption` says that there are workers and agents and that a
task has one kind of call.

### BudgetStore

| Theorem | Says |
|---|---|
| `IInvAlways`, `TypeCorrect` | `Spec => []IInv`, `Spec => []TypeOK` |
| `FilesComplete` | `FileComplete`, for serial saves |
| `AckedAlways` | `AckedSurvives`, for serial saves |
| `ListsFaithful` | `ListFaithful`, for serial saves and plain ids |
| `SuffixedNeverListed` | a session whose id ends in the suffix is never listed |
| `CacheCoherentAlways` | `CacheCoherentApart` |
| `SessionsStaySeparate` | `SessionsSeparate`: what one session saves never shows up in another's file, cache entry or load, however callers overlap |

`InodesOwned` is what rename keeps: an inode is only ever reached through the
paths of one session, and never through both. `SaveInv` says what a save finds
under the temporary name at each step, `DiskInv` that the file holds one save not
older than the last one acknowledged, `CacheInv` and `ListInv` what the cache and a
list have come to. A crash only takes calls away, so that every part survives it.
`OwnData`, inductive on top of `IInv`, says of every inode, cache entry and load
under way that what it holds was saved for its session; it is stated in the proof
module and no run checks it.

`SerialSaves` says that callers do not save or delete a session while another
save or delete of it is under way. The code leaves that to them;
`BudgetStoreTruncated` shows what happens otherwise. `PlainIds` says that no id
ends in the suffix, which the code does not ask either; `SuffixedNeverListed` shows
that lists need it.
`CacheCoherentAlways` does without both, as its property leaves out sessions whose
calls overlapped or left the cache behind, and so does `SessionsStaySeparate`: overlapping saves can spoil a session's own file but
no other's.

### RateLimiter

| Theorem | Says |
|---|---|
| `RateInvAlways` | `Spec => []RateInv` |
| `QuotaHolds` | `QuotaKept` |
| `PatienceRewarded` | `PatientCallerPasses` |
| `WaitLongEnough` | `NeverTooEarly`, an action property |

`QuotaInv`: the arrival time of a limiter is paid for by every cell it has let pass,
those of calls still under way included, and is never further ahead of the clock
than a whole quota; the quotas follow by division. `Patience` says of a caller
with refusals to its count which of the limiters would let it pass at the time
it will ask. `WaitLongEnough` is the arithmetic of the two roundings.
`RateLimiterAssumption` has quotas that fit into a minute's ticks, so that a cell
costs at least one.

### Only model-checked

`CallsReturn`, `RunsEnd` and `EndsUnlessStuck`: liveness under fairness is out of
TLAPS's reach.

## Not modelled

- A model call that is dropped while it runs: what the provider bills then is not
  known to the code.
- Rounding: prices and thresholds are `f64`, and a charge is rounded to whole
  nano-dollars; and the conversion of dollars to nano-dollars beyond its results.
  Limits near 1.8e10 USD, where `grow_limit` wraps and `saturating_add` lets
  charges pass uncounted, are outside `NoWrapAssumption`.
- Power loss (files are not synced; a process crash keeps what was written), and
  futures dropped inside a file system call that goes on in the background while
  the session's next call has begun.
- The counter of downgrades and the tracing events of `observe`, which follow a
  downgrade and change nothing; the wording in `error`.
- The tokenizers, governor, rig, tokio and DashMap: external; the modules say what
  of them they assume. Texts for models of which no tokenizer is known.
- `per_minute`'s refusal of a limit of zero, which is an assumption on the
  constants of RateLimiter. The arrival time there is a number without the width
  of governor's.
- `prices_data` (generated data), the price script, examples, benches.

## Plan

Done: AtomicBudget with HardCap, its readers; Cascade and AgentBudget with its
metrics; FleetAllocator and FleetSnapshots; BudgetStore with lists; Metering and
BudgetHook; RateLimiter; and the proofs of every safety property of theirs.

Left:

- AgentBudget: a theorem that says how far the cascade's total can be from the
  limit, where `TotalBudgetInStep` fails, and how many tiers a refused shrink can
  cost.
- FleetAllocator with `RemoveInUse = TRUE`: by how much `FleetCap` can be missed,
  namely by what was spent on an agent after `remove_agent` measured it.
- The two limits of AtomicBudget's width (`NoWrapAssumption`), by a model of the
  wrap of its own.
