---------------------------- MODULE FleetSnapshots ----------------------------
(***************************************************************************)
(* fleet_snapshot of src/fleet/mod.rs in a tokio runtime: a task that      *)
(* takes a snapshot keeps a shard of the registry locked for reading while *)
(* it awaits the cascade lock of an agent in that shard, and a call that   *)
(* registers or removes an agent blocks its worker thread, not its task,   *)
(* until nobody reads the shard.  Charges only await cascade locks.        *)
(*                                                                         *)
(* The runtime, its fair Mutex and the shard locks of DashMap are          *)
(* external.  A task that has used up the budget of its poll has to yield  *)
(* at its next await even if the lock is free.                             *)
(***************************************************************************)
EXTENDS Integers, Sequences, FiniteSets

CONSTANTS Workers,      \* worker threads of the runtime
          Snapshots,    \* tasks that call fleet_snapshot
          Charges,      \* tasks that charge an agent
          Changes,      \* tasks that register or remove an agent
          Agents,       \* registered agents, 1..n in the map's order
          ShardOf,      \* ShardOf[a]: the shard of agent a
          PollBudget    \* locks a task may take in one poll

Tasks == Snapshots \cup Charges \cup Changes
Shards == {ShardOf[a] : a \in Agents}
None == 0
NoShard == "none"
NoTask == "none"

ASSUME SnapshotsAssumption ==
    /\ Workers # {}
    /\ Agents # {} /\ IsFiniteSet(Agents) /\ Agents = 1..Cardinality(Agents)
    /\ DOMAIN ShardOf = Agents /\ NoShard \notin Shards
    /\ Snapshots \cap Charges = {} /\ (Snapshots \cup Charges) \cap Changes = {}
    /\ NoTask \notin Tasks
    /\ PollBudget \in Nat \ {0}

VARIABLES running,      \* running[w]: the task worker w polls, or "none"
          runnable,     \* tasks in the runtime's queues
          pc,           \* pc[t]: what t does next when it runs
          at,           \* at[t]: the agent t is at, None before the first one
          left,         \* left[t]: locks t may still take in this poll
          charging,     \* charging[t]: cascade locks the charge t has still to take
          holder,       \* holder[a]: the task that has agent a's cascade lock
          queue,        \* queue[a]: the tasks that wait for it, in order
          guard         \* guard[t]: the shard that t keeps locked for reading

vars == <<running, runnable, pc, at, left, charging, holder, queue, guard>>
tasks == <<at, left, charging>>
locks == <<holder, queue, guard>>

Init ==
    /\ running = [w \in Workers |-> NoTask]
    /\ runnable = Tasks
    /\ pc = [t \in Tasks |-> IF t \in Snapshots THEN "next"
                             ELSE IF t \in Charges THEN "find" ELSE "change"]
    /\ at \in [Tasks -> Agents \cup {None}]
    /\ \A t \in Tasks : at[t] = None <=> t \in Snapshots
    /\ left = [t \in Tasks |-> 0]
    /\ charging = [t \in Tasks |-> IF t \in Charges THEN 2 ELSE 0]
    /\ holder = [a \in Agents |-> NoTask]
    /\ queue = [a \in Agents |-> <<>>]
    /\ guard = [t \in Tasks |-> NoShard]

-------------------------------------------------------------------------------
\* A worker takes up a task that can go on.
Poll(w, t) ==
    /\ running[w] = NoTask
    /\ t \in runnable
    /\ running' = [running EXCEPT ![w] = t]
    /\ runnable' = runnable \ {t}
    /\ left' = [left EXCEPT ![t] = IF pc[t] = "held" THEN PollBudget - 1 ELSE PollBudget]
    /\ UNCHANGED <<pc, at, charging, locks>>

\* The poll of w's task ends; the tasks woken can be taken up.
Pending(w, woken) ==
    /\ running' = [running EXCEPT ![w] = NoTask]
    /\ runnable' = runnable \cup woken

Goto(t, p) == pc' = [pc EXCEPT ![t] = p]

-------------------------------------------------------------------------------
(***************************************************************************)
(* fleet_snapshot: the iterator locks the shard of the entry it gives out, *)
(* in place of the last one.                                               *)
(***************************************************************************)
NextEntry(w, t) ==
    /\ pc[t] = "next"
    /\ at[t] + 1 \in Agents
    /\ at' = [at EXCEPT ![t] = @ + 1]
    /\ guard' = [guard EXCEPT ![t] = ShardOf[at[t] + 1]]
    /\ Goto(t, "lock")
    /\ UNCHANGED <<running, runnable, left, charging, holder, queue>>

\* Mutant: the iterator outlives the walk.
NoEntryLeaked(w, t) ==
    /\ pc[t] = "next"
    /\ at[t] + 1 \notin Agents
    /\ Goto(t, "done")
    /\ Pending(w, {})
    /\ UNCHANGED <<tasks, locks>>

NoEntry(w, t) ==
    /\ pc[t] = "next"
    /\ at[t] + 1 \notin Agents
    /\ guard' = [guard EXCEPT ![t] = NoShard]
    /\ Goto(t, "done")
    /\ Pending(w, {})
    /\ UNCHANGED <<tasks, holder, queue>>

\* charge_agent: the agent's Arc is cloned under the shard's lock, which is given
\* back before the first await.
FindAgent(w, t) ==
    /\ pc[t] = "find"
    /\ Goto(t, "lock")
    /\ UNCHANGED <<running, runnable, tasks, locks>>

\* register_agent and remove_agent: the worker stands still until no task reads
\* the shard.
ChangeRegistry(w, t) ==
    /\ pc[t] = "change"
    /\ \A u \in Tasks : guard[u] # ShardOf[at[t]]
    /\ Goto(t, "done")
    /\ Pending(w, {})
    /\ UNCHANGED <<tasks, locks>>

-------------------------------------------------------------------------------
(***************************************************************************)
(* cascade.lock().await of snapshot and of charge_inner.                   *)
(***************************************************************************)
TakeCascade(w, t) ==
    /\ pc[t] = "lock"
    /\ left[t] > 0
    /\ holder[at[t]] = NoTask
    /\ holder' = [holder EXCEPT ![at[t]] = t]
    /\ left' = [left EXCEPT ![t] = @ - 1]
    /\ Goto(t, "held")
    /\ UNCHANGED <<running, runnable, at, charging, queue, guard>>

AwaitCascade(w, t) ==
    /\ pc[t] = "lock"
    /\ left[t] > 0
    /\ holder[at[t]] # NoTask
    /\ queue' = [queue EXCEPT ![at[t]] = Append(@, t)]
    /\ Goto(t, "held")
    /\ Pending(w, {})
    /\ UNCHANGED <<tasks, holder, guard>>

OutOfBudget(w, t) ==
    /\ pc[t] = "lock"
    /\ left[t] = 0
    /\ Pending(w, {t})
    /\ UNCHANGED <<pc, tasks, locks>>

\* Where t goes once it has given the cascade lock back.
AfterLock(t) ==
    IF t \in Snapshots THEN "next" ELSE IF charging[t] > 1 THEN "lock" ELSE "done"

\* Mutant: charge_inner keeps the guard it read the tier under.
ReleaseLate(w, t) ==
    LET a == at[t]
        keep == charging[t] > 1
        heir == IF queue[a] = <<>> \/ keep THEN {} ELSE {Head(queue[a])}
    IN  /\ pc[t] = "held"
        /\ holder' = [holder EXCEPT ![a] =
                IF keep THEN t ELSE IF heir = {} THEN NoTask ELSE Head(queue[a])]
        /\ queue' = [queue EXCEPT ![a] = IF heir = {} THEN @ ELSE Tail(@)]
        /\ charging' = [charging EXCEPT ![t] = IF @ > 0 THEN @ - 1 ELSE @]
        /\ Goto(t, AfterLock(t))
        /\ IF AfterLock(t) = "done" THEN Pending(w, heir)
           ELSE runnable' = runnable \cup heir /\ UNCHANGED running
        /\ UNCHANGED <<at, left, guard>>

\* The lock goes to the task that has waited longest, which can then go on.
ReleaseCascade(w, t) ==
    LET a == at[t]
        heir == IF queue[a] = <<>> THEN {} ELSE {Head(queue[a])}
    IN  /\ pc[t] = "held"
        /\ holder' = [holder EXCEPT ![a] = IF heir = {} THEN NoTask ELSE Head(queue[a])]
        /\ queue' = [queue EXCEPT ![a] = IF heir = {} THEN @ ELSE Tail(@)]
        /\ charging' = [charging EXCEPT ![t] = IF @ > 0 THEN @ - 1 ELSE @]
        /\ Goto(t, AfterLock(t))
        /\ IF AfterLock(t) = "done" THEN Pending(w, heir)
           ELSE runnable' = runnable \cup heir /\ UNCHANGED running
        /\ UNCHANGED <<at, left, guard>>

Run(w, t) ==
    /\ running[w] = t
    /\ \/ NextEntry(w, t) \/ NoEntry(w, t) \/ FindAgent(w, t) \/ ChangeRegistry(w, t)
       \/ TakeCascade(w, t) \/ AwaitCascade(w, t) \/ OutOfBudget(w, t)
       \/ ReleaseCascade(w, t)

Work(w) == \E t \in Tasks : Poll(w, t) \/ Run(w, t)

Next == \E w \in Workers : Work(w)

\* Every worker thread that can go on does.
Spec == Init /\ [][Next]_vars /\ \A w \in Workers : WF_vars(Work(w))
-------------------------------------------------------------------------------
AllDone == \A t \in Tasks : pc[t] = "done"

\* Worker w stands still in a call that waits for a shard.
Blocked(w) ==
    /\ running[w] \in Changes
    /\ \E u \in Tasks : guard[u] = ShardOf[at[running[w]]]

AllBlocked == \A w \in Workers : Blocked(w)

\* Calls never wait for each other in a circle: when all workers stand still for
\* a shard, a task that would free it, or that has what such a task waits for,
\* could go on if there were one more worker.
StuckForWantOfWorkers == AllBlocked => runnable # {}

\* Unless all worker threads stand still for ever behind a suspended snapshot,
\* every snapshot, charge, registration and removal comes to its end; with a
\* worker to spare for each call that changes the registry they always do.
EndsUnlessStuck == []<>~AllBlocked => <>AllDone
===============================================================================
