---------------------------- MODULE FleetAllocator ----------------------------
(***************************************************************************)
(* FleetBudget and FleetAllocator of src/fleet/mod.rs: tasks register,     *)
(* remove, charge and kill agents and move budget between them.  A step    *)
(* runs from one shared access to the next; an operation on the DashMap    *)
(* holds its shard's lock and is one step, and so are the charge, shrink   *)
(* and grow of one agent's AtomicBudget (HardCap).                         *)
(*                                                                         *)
(* An agent that is removed lives on as long as a task holds its Arc, so   *)
(* agents are numbered in the order they are registered and the registry   *)
(* maps a name to a number.                                                *)
(***************************************************************************)
EXTENDS Sums, Functions

CONSTANTS Tasks,          \* tasks that share the allocator
          Names,          \* agent ids; Names = 1..n in kill_all's shard order
          FleetLimit,     \* fleet_limit_nanos
          AgentLimits,    \* limit_usd of register_agent
          Costs,          \* costs of one charge
          Amounts,        \* amounts of one reallocate
          MaxAgents,      \* bound of the model: registrations in all
          MayCancel,      \* TRUE when a future may be dropped at an await
          RemoveInUse     \* TRUE when an agent may be removed while tasks use it

ASSUME FleetAssumption ==
    /\ FleetLimit \in Nat \ {0}
    /\ MaxAgents \in Nat
    /\ IsFiniteSet(Tasks)
    /\ IsFiniteSet(Names) /\ Names # {} /\ Names = 1..Cardinality(Names)
    /\ AgentLimits \subseteq Nat \ {0}
    /\ Costs \subseteq Nat
    /\ Amounts \subseteq Nat
    /\ MayCancel \in BOOLEAN /\ RemoveInUse \in BOOLEAN

Agents == 1..MaxAgents
None == 0

VARIABLES allocated,      \* FleetBudget.allocated_nanos
          fleetSpent,     \* FleetBudget.spent_nanos
          registry,       \* FleetAllocator.agents: name -> agent or None
          registered,     \* number of agents registered so far
          spent, limit,   \* AtomicBudget of each agent
          killed,         \* kill switch of each agent
          pc,             \* pc[t]: what task t does next
          arg,            \* arg[t]: cost, amount or remainder t works with
          from, to,       \* the agents whose Arcs t holds, or None
          name,           \* name[t]: the name t works on; kill_all's next one
          targets,        \* history: the agents registered when kill_all began
          lost,           \* history: amounts of moves dropped half-way
          unrecorded      \* history: cost of the charges the fleet has not heard of

fleet == <<allocated, fleetSpent>>
book == <<spent, limit>>
locals == <<arg, from, to, name, targets>>
dropped == <<lost, unrecorded>>
vars == <<fleet, registry, registered, book, killed, pc, locals, dropped>>

Goto(t, p) == pc' = [pc EXCEPT ![t] = p]

\* t's call is over and its Arcs are dropped.
Done(t) ==
    /\ Goto(t, "idle")
    /\ arg' = [arg EXCEPT ![t] = 0]
    /\ from' = [from EXCEPT ![t] = None]
    /\ to' = [to EXCEPT ![t] = None]
    /\ name' = [name EXCEPT ![t] = 0]
    /\ targets' = [targets EXCEPT ![t] = {}]

Holds(t, a) == a \in {from[t], to[t]}

\* Another call is at work on the atomics of agent a; a charge or a shrink may
\* then be turned down although it fits (see AtomicBudget).
Racing(t, a) == \E u \in Tasks \ {t} : Holds(u, a) /\ pc[u] \in {"charge", "shrink"}

RegisteredAgents == {registry[n] : n \in Names} \ {None}

Init ==
    /\ allocated = 0 /\ fleetSpent = 0
    /\ registry = [n \in Names |-> None]
    /\ registered = 0
    /\ spent = [a \in Agents |-> 0]
    /\ limit = [a \in Agents |-> 0]
    /\ killed = [a \in Agents |-> FALSE]
    /\ pc = [t \in Tasks |-> "idle"]
    /\ arg = [t \in Tasks |-> 0]
    /\ from = [t \in Tasks |-> None]
    /\ to = [t \in Tasks |-> None]
    /\ name = [t \in Tasks |-> 0]
    /\ targets = [t \in Tasks |-> {}]
    /\ lost = 0 /\ unrecorded = 0

-------------------------------------------------------------------------------
(***************************************************************************)
(* register_agent: the vacancy check, allocate's fetch_update and the      *)
(* insert all happen under the entry's lock.                               *)
(***************************************************************************)
Allocate(amount) ==
    /\ allocated + amount <= FleetLimit
    /\ allocated' = allocated + amount

RegisterAgent(t, n, amount) ==
    /\ pc[t] = "idle"
    /\ registered < MaxAgents
    /\ registry[n] = None
    /\ Allocate(amount)
    /\ registered' = registered + 1
    /\ registry' = [registry EXCEPT ![n] = registered + 1]
    /\ limit' = [limit EXCEPT ![registered + 1] = amount]
    /\ UNCHANGED <<fleetSpent, spent, killed, pc, locals, dropped>>

(***************************************************************************)
(* remove_agent: take the agent out, read what it has left (spent_nanos,   *)
(* then limit_nanos), release that.                                        *)
(***************************************************************************)
RemoveAgent(t, n) ==
    /\ pc[t] = "idle"
    /\ registry[n] # None
    /\ RemoveInUse \/ \A u \in Tasks : ~Holds(u, registry[n])
    /\ from' = [from EXCEPT ![t] = registry[n]]
    /\ registry' = [registry EXCEPT ![n] = None]
    /\ Goto(t, "removeSpent")
    /\ UNCHANGED <<fleet, registered, book, killed, arg, to, name, targets, dropped>>

RemoveReadSpent(t) ==
    /\ pc[t] = "removeSpent"
    /\ arg' = [arg EXCEPT ![t] = spent[from[t]]]
    /\ Goto(t, "removeLimit")
    /\ UNCHANGED <<fleet, registry, registered, book, killed, from, to, name, targets, dropped>>

\* Mutant: the whole cap is released, the spent part too.
RemoveReadWholeLimit(t) ==
    /\ pc[t] = "removeLimit"
    /\ arg' = [arg EXCEPT ![t] = limit[from[t]]]
    /\ Goto(t, "release")
    /\ UNCHANGED <<fleet, registry, registered, book, killed, from, to, name, targets, dropped>>

RemoveReadLimit(t) ==
    /\ pc[t] = "removeLimit"
    /\ arg' = [arg EXCEPT ![t] = IF arg[t] <= limit[from[t]] THEN limit[from[t]] - arg[t] ELSE 0]
    /\ Goto(t, "release")
    /\ UNCHANGED <<fleet, registry, registered, book, killed, from, to, name, targets, dropped>>

\* Mutant: release without saturating_sub, of the cap on top of the remainder.
ReleaseTwice(t) ==
    /\ pc[t] = "release"
    /\ allocated' = allocated - 2 * arg[t]
    /\ Done(t)
    /\ UNCHANGED <<fleetSpent, registry, registered, book, killed, dropped>>

\* Mutant: nothing is given back.
ReleaseNothing(t) ==
    /\ pc[t] = "release"
    /\ Done(t)
    /\ UNCHANGED <<fleet, registry, registered, book, killed, dropped>>

Release(t) ==
    /\ pc[t] = "release"
    /\ allocated' = IF arg[t] <= allocated THEN allocated - arg[t] ELSE 0
    /\ Done(t)
    /\ UNCHANGED <<fleetSpent, registry, registered, book, killed, dropped>>

-------------------------------------------------------------------------------
(***************************************************************************)
(* charge_agent, charge_agent_model, charge_agent_usage, and the charges   *)
(* made directly on an agent that get_agent has handed out.                *)
(***************************************************************************)
StartCharge(t, n, cost) ==
    /\ pc[t] = "idle"
    /\ registry[n] # None
    /\ from' = [from EXCEPT ![t] = registry[n]]
    /\ arg' = [arg EXCEPT ![t] = cost]
    /\ Goto(t, "killCheck")
    /\ UNCHANGED <<fleet, registry, registered, book, killed, to, name, targets, dropped>>

PassKillCheck(t) ==
    /\ pc[t] = "killCheck"
    /\ ~killed[from[t]]
    /\ Goto(t, "charge")
    /\ UNCHANGED <<fleet, registry, registered, book, killed, locals, dropped>>

RefuseKilled(t) ==
    /\ pc[t] = "killCheck"
    /\ killed[from[t]]
    /\ Done(t)
    /\ UNCHANGED <<fleet, registry, registered, book, killed, dropped>>

Charge(t) ==
    /\ pc[t] = "charge"
    /\ spent[from[t]] + arg[t] <= limit[from[t]]
    /\ spent' = [spent EXCEPT ![from[t]] = @ + arg[t]]
    /\ Goto(t, "record")
    /\ UNCHANGED <<fleet, registry, registered, limit, killed, locals, dropped>>

\* A charge made on the Arc that get_agent hands out is not recorded in the
\* fleet's spend.
ChargeDirect(t) ==
    /\ pc[t] = "charge"
    /\ spent[from[t]] + arg[t] <= limit[from[t]]
    /\ spent' = [spent EXCEPT ![from[t]] = @ + arg[t]]
    /\ unrecorded' = unrecorded + arg[t]
    /\ Done(t)
    /\ UNCHANGED <<fleet, registry, registered, limit, killed, lost>>

\* Mutant: a refused charge is recorded in the fleet's spend.
RefuseRecorded(t) ==
    /\ pc[t] = "charge"
    /\ spent[from[t]] + arg[t] > limit[from[t]] \/ Racing(t, from[t])
    /\ fleetSpent' = fleetSpent + arg[t]
    /\ Done(t)
    /\ UNCHANGED <<allocated, registry, registered, book, killed, dropped>>

RefuseExhausted(t) ==
    /\ pc[t] = "charge"
    /\ spent[from[t]] + arg[t] > limit[from[t]] \/ Racing(t, from[t])
    /\ Done(t)
    /\ UNCHANGED <<fleet, registry, registered, book, killed, dropped>>

RecordSpend(t) ==
    /\ pc[t] = "record"
    /\ fleetSpent' = fleetSpent + arg[t]
    /\ Done(t)
    /\ UNCHANGED <<allocated, registry, registered, book, killed, dropped>>

-------------------------------------------------------------------------------
(***************************************************************************)
(* reallocate: look both agents up, shrink one, grow the other.            *)
(***************************************************************************)
StartReallocate(t, n, amount) ==
    /\ pc[t] = "idle"
    /\ registry[n] # None
    /\ from' = [from EXCEPT ![t] = registry[n]]
    /\ name' = [name EXCEPT ![t] = n]
    /\ arg' = [arg EXCEPT ![t] = amount]
    /\ Goto(t, "findTo")
    /\ UNCHANGED <<fleet, registry, registered, book, killed, to, targets, dropped>>

\* The second name differs from the first.
FindTo(t) ==
    /\ pc[t] = "findTo"
    /\ \E n \in Names \ {name[t]} :
         /\ registry[n] # None
         /\ to' = [to EXCEPT ![t] = registry[n]]
    /\ Goto(t, "shrink")
    /\ UNCHANGED <<fleet, registry, registered, book, killed, arg, from, name, targets, dropped>>

NoTo(t) ==
    /\ pc[t] = "findTo"
    /\ \E n \in Names \ {name[t]} : registry[n] = None
    /\ Done(t)
    /\ UNCHANGED <<fleet, registry, registered, book, killed, dropped>>

ShrinkFrom(t) ==
    /\ pc[t] = "shrink"
    /\ spent[from[t]] + arg[t] <= limit[from[t]]
    /\ limit' = [limit EXCEPT ![from[t]] = @ - arg[t]]
    /\ Goto(t, "grow")
    /\ UNCHANGED <<fleet, registry, registered, spent, killed, locals, dropped>>

ReallocationFailed(t) ==
    /\ pc[t] = "shrink"
    /\ spent[from[t]] + arg[t] > limit[from[t]] \/ Racing(t, from[t])
    /\ Done(t)
    /\ UNCHANGED <<fleet, registry, registered, book, killed, dropped>>

GrowTo(t) ==
    /\ pc[t] = "grow"
    /\ limit' = [limit EXCEPT ![to[t]] = @ + arg[t]]
    /\ Done(t)
    /\ UNCHANGED <<fleet, registry, registered, spent, killed, dropped>>

\* The future is dropped at an await inside charge_inner or shrink_limit, after
\* the agent's atomics were changed.
Cancel(t) ==
    /\ MayCancel
    /\ \/ pc[t] = "record" /\ unrecorded' = unrecorded + arg[t] /\ UNCHANGED lost
       \/ pc[t] = "grow" /\ lost' = lost + arg[t] /\ UNCHANGED unrecorded
    /\ Done(t)
    /\ UNCHANGED <<fleet, registry, registered, book, killed>>

-------------------------------------------------------------------------------
(***************************************************************************)
(* kill_agent, and kill_all, which walks the shards one after the other.   *)
(***************************************************************************)
KillAgent(t, n) ==
    /\ pc[t] = "idle"
    /\ registry[n] # None
    /\ killed' = [killed EXCEPT ![registry[n]] = TRUE]
    /\ UNCHANGED <<fleet, registry, registered, book, pc, locals, dropped>>

StartKillAll(t) ==
    /\ pc[t] = "idle"
    /\ name' = [name EXCEPT ![t] = Min(Names)]
    /\ targets' = [targets EXCEPT ![t] = RegisteredAgents]
    /\ Goto(t, "killNext")
    /\ UNCHANGED <<fleet, registry, registered, book, killed, arg, from, to, dropped>>

\* Mutant: the walk ends at the first vacant name.
KillUntilVacant(t) ==
    /\ pc[t] = "killNext"
    /\ name[t] \in Names
    /\ killed' = IF registry[name[t]] = None THEN killed
                 ELSE [killed EXCEPT ![registry[name[t]]] = TRUE]
    /\ name' = [name EXCEPT ![t] = IF registry[name[t]] = None THEN Max(Names) + 1 ELSE @ + 1]
    /\ UNCHANGED <<fleet, registry, registered, book, pc, arg, from, to, targets, dropped>>

KillNext(t) ==
    /\ pc[t] = "killNext"
    /\ name[t] \in Names
    /\ killed' = IF registry[name[t]] = None THEN killed
                 ELSE [killed EXCEPT ![registry[name[t]]] = TRUE]
    /\ name' = [name EXCEPT ![t] = @ + 1]
    /\ UNCHANGED <<fleet, registry, registered, book, pc, arg, from, to, targets, dropped>>

KillAllDone(t) ==
    /\ pc[t] = "killNext"
    /\ name[t] \notin Names
    /\ Done(t)
    /\ UNCHANGED <<fleet, registry, registered, book, killed, dropped>>

Next ==
    \E t \in Tasks :
        \/ \E n \in Names, amount \in AgentLimits : RegisterAgent(t, n, amount)
        \/ \E n \in Names : RemoveAgent(t, n)
        \/ RemoveReadSpent(t) \/ RemoveReadLimit(t) \/ Release(t)
        \/ \E n \in Names, cost \in Costs : StartCharge(t, n, cost)
        \/ PassKillCheck(t) \/ RefuseKilled(t)
        \/ Charge(t) \/ ChargeDirect(t) \/ RefuseExhausted(t) \/ RecordSpend(t)
        \/ \E n \in Names, amount \in Amounts : StartReallocate(t, n, amount)
        \/ FindTo(t) \/ NoTo(t) \/ ShrinkFrom(t) \/ ReallocationFailed(t) \/ GrowTo(t)
        \/ Cancel(t)
        \/ \E n \in Names : KillAgent(t, n)
        \/ StartKillAll(t) \/ KillNext(t) \/ KillAllDone(t)

Spec == Init /\ [][Next]_vars
-------------------------------------------------------------------------------
TypeOK ==
    /\ allocated \in 0..FleetLimit /\ fleetSpent \in Nat
    /\ registry \in [Names -> Agents \cup {None}]
    /\ registered \in 0..MaxAgents
    /\ spent \in [Agents -> Nat] /\ limit \in [Agents -> Nat]
    /\ killed \in [Agents -> BOOLEAN]
    /\ pc \in [Tasks -> {"idle", "removeSpent", "removeLimit", "release", "killCheck",
                        "charge", "record", "findTo", "shrink", "grow", "killNext"}]
    /\ arg \in [Tasks -> Nat]
    /\ from \in [Tasks -> Agents \cup {None}] /\ to \in [Tasks -> Agents \cup {None}]
    /\ name \in [Tasks -> Nat]
    /\ targets \in [Tasks -> SUBSET Agents]
    /\ lost \in Nat /\ unrecorded \in Nat

Removing(a) ==
    \E t \in Tasks : from[t] = a /\ pc[t] \in {"removeSpent", "removeLimit", "release"}

\* Agents whose whole cap counts against the fleet, and agents of which only
\* the money spent does.
LiveAgents == {a \in 1..registered : a \in RegisteredAgents \/ Removing(a)}
RetiredAgents == (1..registered) \ LiveAgents

\* What the fleet has promised: caps in force, money spent by agents that are
\* gone, and amounts on their way from one agent to another.
Committed ==
    SumOf(limit, LiveAgents) + SumOf(spent, RetiredAgents)
        + SumOf(arg, {t \in Tasks : pc[t] = "grow"})

\* All agents together, those that have been removed included, never spend more
\* than the fleet total.
FleetCap == SumOf(spent, Agents) <= FleetLimit

\* allocated_nanos is exactly what the fleet has promised, in the middle of a
\* removal or a reallocation too (doc of reallocate: "The fleet total is
\* unchanged"); a reallocate that is dropped half-way loses its amount, and
\* nothing ever creates budget.
AllocationExact == allocated = Committed + lost

\* The fleet's own spend counter is what the agents spent, but for charges that
\* are about to be recorded, were dropped before that or were made on the agent
\* directly (doc of spent_usd: "Sum of what all agents actually spent"; doc of
\* get_agent).
FleetSpendExact ==
    fleetSpent + unrecorded + SumOf(arg, {t \in Tasks : pc[t] = "record"})
        = SumOf(spent, Agents)

\* When kill_all has walked all shards, every agent that was registered when it
\* began and still is has been killed, whatever was registered, removed or
\* moved meanwhile.
KillAllReaches ==
    \A t \in Tasks :
        pc[t] = "killNext" /\ name[t] \notin Names
            => \A a \in targets[t] \cap RegisteredAgents : killed[a]
===============================================================================
