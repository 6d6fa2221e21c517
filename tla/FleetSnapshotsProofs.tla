------------------------- MODULE FleetSnapshotsProofs -------------------------
(***************************************************************************)
(* Proofs about FleetSnapshots, for any number of workers, tasks, agents   *)
(* and shards, and any budget of a poll.                                   *)
(***************************************************************************)
EXTENDS FleetSnapshots, FiniteSetTheorems, TLAPS

\* The tasks that wait in a queue, each of them once.
Members(q) == {q[i] : i \in 1..Len(q)}
Once(q) == \A i, j \in 1..Len(q) : q[i] = q[j] => i = j

TypeOK ==
    /\ running \in [Workers -> Tasks \cup {NoTask}]
    /\ runnable \subseteq Tasks
    /\ pc \in [Tasks -> {"next", "find", "change", "lock", "held", "done"}]
    /\ at \in [Tasks -> Agents \cup {None}]
    /\ left \in [Tasks -> 0..PollBudget]
    /\ charging \in [Tasks -> 0..2]
    /\ holder \in [Agents -> Tasks \cup {NoTask}]
    /\ queue \in [Agents -> Seq(Tasks)]
    /\ guard \in [Tasks -> Shards \cup {NoShard}]

\* What kind of task can be where, and only a snapshot on its way reads a shard.
Places ==
    \A t \in Tasks :
        /\ pc[t] \in {"lock", "held"} => at[t] \in Agents /\ t \notin Changes
        /\ pc[t] = "next" => t \in Snapshots
        /\ pc[t] = "find" => t \in Charges
        /\ pc[t] = "change" => t \in Changes
        /\ t \notin Snapshots => at[t] \in Agents
        /\ guard[t] # NoShard => t \in Snapshots /\ pc[t] # "done"

\* A task that is not done has one worker, can be taken up, or waits for a lock.
Turns ==
    /\ \A w, v \in Workers : running[w] = running[v] /\ running[w] # NoTask => w = v
    /\ \A w \in Workers : running[w] \notin runnable
    /\ \A t \in Tasks : t \in runnable \/ (\E w \in Workers : running[w] = t) =>
         pc[t] # "done" /\ \A a \in Agents : t \notin Members(queue[a])
    /\ \A t \in Tasks : pc[t] # "done" =>
         \/ t \in runnable
         \/ \E w \in Workers : running[w] = t
         \/ at[t] \in Agents /\ t \in Members(queue[at[t]])

\* Who waits has asked for that lock and nothing else, and somebody else has it.
Locks ==
    \A a \in Agents :
        /\ Once(queue[a])
        /\ Members(queue[a]) # {} => holder[a] # NoTask
        /\ \A t \in Members(queue[a]) : pc[t] = "held" /\ at[t] = a
        /\ holder[a] # NoTask =>
             /\ pc[holder[a]] = "held" /\ at[holder[a]] = a
             /\ holder[a] \notin Members(queue[a])
        /\ \A t \in Tasks : pc[t] = "held" /\ at[t] = a =>
             t \in Members(queue[a]) \/ holder[a] = t

SnapshotsInv == TypeOK /\ Places /\ Turns /\ Locks

-------------------------------------------------------------------------------
(***************************************************************************)
(* Queues                                                                  *)
(***************************************************************************)
\* Who comes last in a queue waits in it.
LEMMA JoinQueue ==
    ASSUME NEW S, NEW q \in Seq(S), NEW t \in S, Once(q), t \notin Members(q)
    PROVE  /\ Append(q, t) \in Seq(S) /\ Once(Append(q, t))
           /\ Members(Append(q, t)) = Members(q) \cup {t}
<1> DEFINE n == Len(q)
           r == Append(q, t)
<1>1. n \in Nat /\ r \in Seq(S) /\ Len(r) = n + 1
  OBVIOUS
<1>2. \A i \in 1..(n + 1) : r[i] = IF i = n + 1 THEN t ELSE q[i]
  OBVIOUS
<1> HIDE DEF r
<1>3. \A i \in 1..n : q[i] # t
  BY DEF Members
<1>4. Once(r)
  BY <1>1, <1>2, <1>3 DEF Once
<1>5. Members(r) = Members(q) \cup {t}
  <2>1. ASSUME NEW x \in Members(r)
        PROVE  x \in Members(q) \cup {t}
    BY <1>1, <1>2, <2>1 DEF Members
  <2>2. t \in Members(r)
    <3>1. n + 1 \in 1..Len(r) /\ r[n + 1] = t
      BY <1>1, <1>2
    <3> QED
      BY <3>1 DEF Members
  <2>3. ASSUME NEW i \in 1..n
        PROVE  q[i] \in Members(r)
    <3>1. i \in 1..Len(r) /\ r[i] = q[i]
      BY <1>1, <1>2
    <3> QED
      BY <3>1 DEF Members
  <2> QED
    BY <2>1, <2>2, <2>3 DEF Members
<1> QED
  BY <1>1, <1>4, <1>5 DEF r

\* Who comes first in a queue waits in it no more once it has gone.
LEMMA LeaveQueue ==
    ASSUME NEW S, NEW q \in Seq(S), q # <<>>, Once(q)
    PROVE  /\ Head(q) \in Members(q) /\ Head(q) \in S
           /\ Tail(q) \in Seq(S) /\ Once(Tail(q))
           /\ Members(Tail(q)) = Members(q) \ {Head(q)}
<1> DEFINE n == Len(q)
           r == Tail(q)
<1>1. n \in Nat /\ n > 0 /\ r \in Seq(S) /\ Len(r) = n - 1 /\ Head(q) = q[1]
  OBVIOUS
<1>2. \A i \in 1..(n - 1) : r[i] = q[i + 1]
  OBVIOUS
<1> HIDE DEF r
<1>3. 1 \in 1..n /\ q[1] \in S
  BY <1>1
<1>4. Head(q) \in Members(q) /\ Head(q) \in S
  BY <1>1, <1>3 DEF Members
<1>5. Once(r)
  BY <1>1, <1>2 DEF Once
<1>6. ASSUME NEW i \in 1..(n - 1)
      PROVE  r[i] \in Members(q) \ {Head(q)}
  <2>1. r[i] = q[i + 1] /\ i + 1 \in 1..n /\ i + 1 # 1
    BY <1>1, <1>2
  <2>2. q[i + 1] # q[1]
    BY <1>3, <2>1 DEF Once
  <2> QED
    BY <1>1, <2>1, <2>2 DEF Members
<1>7. ASSUME NEW i \in 1..n, q[i] # Head(q)
      PROVE  q[i] \in Members(r)
  <2>1. i # 1
    BY <1>1, <1>7
  <2>2. i - 1 \in 1..(n - 1) /\ i - 1 \in 1..Len(r)
    BY <1>1, <2>1
  <2>3. r[i - 1] = q[i]
    BY <1>2, <2>2
  <2> QED
    BY <2>2, <2>3 DEF Members
<1>8. Members(r) = Members(q) \ {Head(q)}
  BY <1>1, <1>6, <1>7 DEF Members
<1> QED
  BY <1>1, <1>4, <1>5, <1>8 DEF r

\* Nobody waits in an empty queue.
LEMMA NoQueue ==
    ASSUME NEW S, NEW q \in Seq(S)
    PROVE  q = <<>> <=> Members(q) = {}
<1>1. CASE q = <<>>
  BY <1>1 DEF Members
<1>2. CASE q # <<>>
  <2>1. 1 \in 1..Len(q)
    BY <1>2
  <2> QED
    BY <1>2, <2>1 DEF Members
<1> QED
  BY <1>1, <1>2

-------------------------------------------------------------------------------
(***************************************************************************)
(* What steps have in common                                               *)
(***************************************************************************)
\* The task a worker polls is polled by no other, can be taken up by none and
\* waits for nothing; if it is at a lock it asked for, it has it.
LEMMA Polled ==
    ASSUME SnapshotsInv, NEW w \in Workers, NEW t \in Tasks, running[w] = t
    PROVE  /\ t # NoTask /\ t \notin runnable /\ pc[t] # "done"
           /\ \A v \in Workers \ {w} : running[v] # t
           /\ \A a \in Agents : t \notin Members(queue[a])
           /\ pc[t] = "held" => at[t] \in Agents /\ holder[at[t]] = t
           /\ pc[t] # "held" => \A a \in Agents : holder[a] # t
<1>1. t # NoTask
  BY SnapshotsAssumption
<1> QED
  BY <1>1 DEF SnapshotsInv, Turns, Locks, Places

\* A step of a task that has no lock and gets none.
LEMMA QuietLocks ==
    ASSUME SnapshotsInv, NEW t \in Tasks, UNCHANGED <<holder, queue>>,
           pc[t] # "held", pc'[t] # "held",
           \A u \in Tasks \ {t} : pc'[u] = pc[u] /\ at'[u] = at[u]
    PROVE  Locks'
<1>1. ASSUME NEW a \in Agents
      PROVE  t \notin Members(queue[a]) /\ holder[a] # t /\ holder[a] \in Tasks \cup {NoTask}
  BY SnapshotsAssumption DEF SnapshotsInv, TypeOK, Locks
<1>2. \A a \in Agents : \A u \in Members(queue[a]) : u \in Tasks
  BY DEF SnapshotsInv, TypeOK, Members
<1> QED
  BY <1>1, <1>2 DEF SnapshotsInv, Locks

\* A step in which a task goes on running.
LEMMA GoesOn ==
    ASSUME SnapshotsInv, NEW w \in Workers, NEW t \in Tasks, running[w] = t,
           UNCHANGED <<running, runnable, queue>>, pc'[t] # "done",
           \A u \in Tasks \ {t} : pc'[u] = pc[u] /\ at'[u] = at[u]
    PROVE  Turns'
<1> USE DEF SnapshotsInv, Turns
<1>1. \A v, x \in Workers : running'[v] = running'[x] /\ running'[v] # NoTask => v = x
  OBVIOUS
<1>2. \A v \in Workers : running'[v] \notin runnable'
  OBVIOUS
<1>3. ASSUME NEW u \in Tasks, u \in runnable' \/ \E v \in Workers : running'[v] = u
      PROVE  pc'[u] # "done" /\ \A a \in Agents : u \notin Members(queue'[a])
  BY <1>3
<1>4. ASSUME NEW u \in Tasks, pc'[u] # "done"
      PROVE  \/ u \in runnable'
             \/ \E v \in Workers : running'[v] = u
             \/ at'[u] \in Agents /\ u \in Members(queue'[at'[u]])
  <2>1. CASE u = t
    BY <2>1
  <2>2. CASE u # t
    BY <1>4, <2>2
  <2> QED
    BY <2>1, <2>2
<1> QED
  BY <1>1, <1>2, <1>3, <1>4

\* A step that ends a task's poll and wakes nobody else: the task is done or can
\* be taken up again.
LEMMA EndsPoll ==
    ASSUME SnapshotsInv, NEW w \in Workers, NEW t \in Tasks, running[w] = t,
           running' = [running EXCEPT ![w] = NoTask], queue' = queue,
           \A u \in Tasks \ {t} : pc'[u] = pc[u] /\ at'[u] = at[u],
           \/ runnable' = runnable /\ pc'[t] = "done"
           \/ runnable' = runnable \cup {t} /\ pc'[t] # "done"
    PROVE  Turns'
<1> USE DEF SnapshotsInv
<1>0. /\ \A v \in Workers : running'[v] = IF v = w THEN NoTask ELSE running[v]
      /\ NoTask \notin runnable'
  BY SnapshotsAssumption DEF TypeOK
<1>00. /\ t \notin runnable /\ \A v \in Workers \ {w} : running[v] # t
       /\ \A a \in Agents : t \notin Members(queue[a])
  BY Polled
<1>1. \A v, x \in Workers : running'[v] = running'[x] /\ running'[v] # NoTask => v = x
  BY <1>0 DEF Turns
<1>2. \A v \in Workers : running'[v] \notin runnable'
  BY <1>0, <1>00 DEF Turns
<1>3. ASSUME NEW u \in Tasks, u \in runnable' \/ \E v \in Workers : running'[v] = u
      PROVE  pc'[u] # "done" /\ \A a \in Agents : u \notin Members(queue'[a])
  <2>1. CASE u = t
    <3>1. u # NoTask
      BY SnapshotsAssumption
    <3> QED
      BY <1>0, <1>00, <1>3, <2>1, <3>1
  <2>2. CASE u # t
    <3>1. u # NoTask
      BY SnapshotsAssumption
    <3>2. u \in runnable \/ \E v \in Workers : running[v] = u
      BY <1>0, <1>3, <2>2, <3>1
    <3> QED
      BY <2>2, <3>2 DEF Turns
  <2> QED
    BY <2>1, <2>2
<1>4. ASSUME NEW u \in Tasks, pc'[u] # "done"
      PROVE  \/ u \in runnable'
             \/ \E v \in Workers : running'[v] = u
             \/ at'[u] \in Agents /\ u \in Members(queue'[at'[u]])
  <2>1. CASE u = t
    BY <1>4, <2>1
  <2>2. CASE u # t
    <3>1. \/ u \in runnable
          \/ \E v \in Workers : running[v] = u
          \/ at[u] \in Agents /\ u \in Members(queue[at[u]])
      BY <1>4, <2>2 DEF Turns
    <3>2. \A v \in Workers : running[v] = u => running'[v] = u
      BY <1>0, <2>2
    <3> QED
      BY <2>2, <3>1, <3>2
  <2> QED
    BY <2>1, <2>2
<1> QED
  BY <1>1, <1>2, <1>3, <1>4 DEF Turns

-------------------------------------------------------------------------------
(***************************************************************************)
(* The steps                                                               *)
(***************************************************************************)
\* A worker that takes a task up.
LEMMA PollKeeps ==
    ASSUME SnapshotsInv, NEW w \in Workers, NEW t \in Tasks, Poll(w, t)
    PROVE  SnapshotsInv'
<1> USE DEF SnapshotsInv, Poll, locks
<1>0. PollBudget \in Nat \ {0} /\ t # NoTask
  BY SnapshotsAssumption
<1>1. TypeOK'
  BY <1>0 DEF TypeOK
<1>2. Places' /\ Locks'
  BY DEF Places, Locks
<1>3. \A v \in Workers : running'[v] = IF v = w THEN t ELSE running[v]
  BY DEF TypeOK
<1>4. \A v \in Workers : running[v] # t
  BY DEF Turns
<1>5. Turns'
  <2>1. \A v, x \in Workers : running'[v] = running'[x] /\ running'[v] # NoTask => v = x
    BY <1>3, <1>4 DEF Turns
  <2>2. \A v \in Workers : running'[v] \notin runnable'
    BY <1>3 DEF Turns
  <2>3. ASSUME NEW u \in Tasks, u \in runnable' \/ \E v \in Workers : running'[v] = u
        PROVE  pc'[u] # "done" /\ \A a \in Agents : u \notin Members(queue'[a])
    <3>1. u \in runnable \/ \E v \in Workers : running[v] = u
      BY <1>3, <2>3
    <3> QED
      BY <3>1 DEF Turns
  <2>4. ASSUME NEW u \in Tasks, pc'[u] # "done"
        PROVE  \/ u \in runnable'
               \/ \E v \in Workers : running'[v] = u
               \/ at'[u] \in Agents /\ u \in Members(queue'[at'[u]])
    <3>1. \/ u \in runnable
          \/ \E v \in Workers : running[v] = u
          \/ at[u] \in Agents /\ u \in Members(queue[at[u]])
      BY <2>4 DEF Turns
    <3>2. \A v \in Workers : running[v] = u => running'[v] = u
      <4>1. u # NoTask
        BY SnapshotsAssumption
      <4> QED
        BY <1>3, <4>1
    <3>3. u \in runnable => u \in runnable' \/ running'[w] = u
      BY <1>3
    <3> QED
      BY <3>1, <3>2, <3>3
  <2> QED
    BY <2>1, <2>2, <2>3, <2>4 DEF Turns
<1> QED
  BY <1>1, <1>2, <1>5

\* A snapshot that goes to the next entry, and a charge that finds its agent.
LEMMA WalkKeeps ==
    ASSUME SnapshotsInv, NEW w \in Workers, NEW t \in Tasks, running[w] = t,
           NextEntry(w, t) \/ FindAgent(w, t)
    PROVE  SnapshotsInv'
<1> USE DEF SnapshotsInv
<1>1. /\ pc[t] \in {"next", "find"} /\ pc' = [pc EXCEPT ![t] = "lock"]
      /\ UNCHANGED <<running, runnable, left, charging, holder, queue>>
      /\ \/ /\ pc[t] = "next" /\ at[t] + 1 \in Agents
            /\ at' = [at EXCEPT ![t] = at[t] + 1]
            /\ guard' = [guard EXCEPT ![t] = ShardOf[at[t] + 1]]
         \/ pc[t] = "find" /\ UNCHANGED <<at, guard>>
  BY DEF NextEntry, FindAgent, Goto, tasks, locks
<1>2. TypeOK'
  <2>1. \A a \in Agents : ShardOf[a] \in Shards
    BY DEF Shards
  <2> DEFINE b == at[t] + 1
  <2>2. \/ /\ b \in Agents /\ ShardOf[b] \in Shards
           /\ at' = [at EXCEPT ![t] = b] /\ guard' = [guard EXCEPT ![t] = ShardOf[b]]
        \/ UNCHANGED <<at, guard>>
    BY <1>1, <2>1
  <2> HIDE DEF b
  <2>3. at' \in [Tasks -> Agents \cup {None}] /\ guard' \in [Tasks -> Shards \cup {NoShard}]
    <3>1. CASE UNCHANGED <<at, guard>>
      BY <3>1 DEF TypeOK
    <3>2. ASSUME b \in Agents, at' = [at EXCEPT ![t] = b]
          PROVE  at' \in [Tasks -> Agents \cup {None}]
      BY <3>2 DEF TypeOK
    <3>3. ASSUME NEW s \in Shards, guard' = [guard EXCEPT ![t] = s]
          PROVE  guard' \in [Tasks -> Shards \cup {NoShard}]
      BY <3>3 DEF TypeOK
    <3> QED
      BY <2>2, <3>1, <3>2, <3>3
  <2> QED
    BY <1>1, <2>3 DEF TypeOK
<1>3. pc'[t] = "lock" /\ \A u \in Tasks \ {t} : pc'[u] = pc[u] /\ at'[u] = at[u] /\ guard'[u] = guard[u]
  BY <1>1 DEF TypeOK
<1>4. Places'
  <2>1. ASSUME NEW u \in Tasks \ {t}
        PROVE  /\ pc'[u] \in {"lock", "held"} => at'[u] \in Agents /\ u \notin Changes
               /\ pc'[u] = "next" => u \in Snapshots
               /\ pc'[u] = "find" => u \in Charges
               /\ pc'[u] = "change" => u \in Changes
               /\ u \notin Snapshots => at'[u] \in Agents
               /\ guard'[u] # NoShard => u \in Snapshots /\ pc'[u] # "done"
    BY <1>3 DEF Places
  <2>2. CASE pc[t] = "next"
    <3>1. t \in Snapshots /\ t \notin Changes /\ at'[t] \in Agents
      BY <1>1, <2>2, SnapshotsAssumption DEF Places, TypeOK
    <3> QED
      BY <1>3, <2>1, <3>1 DEF Places
  <2>3. CASE pc[t] = "find"
    <3>1. t \in Charges /\ t \notin Snapshots /\ t \notin Changes /\ at'[t] \in Agents
      BY <1>1, <2>3, SnapshotsAssumption DEF Places
    <3>2. guard'[t] = NoShard
      BY <1>1, <2>3, <3>1 DEF Places
    <3> QED
      BY <1>3, <2>1, <3>1, <3>2 DEF Places
  <2> QED
    BY <1>1, <2>2, <2>3
<1>5. Turns'
  BY <1>1, <1>3, GoesOn
<1>6. Locks'
  BY <1>1, <1>3, QuietLocks
<1> QED
  BY <1>2, <1>4, <1>5, <1>6

\* A walk or a change of the registry that is over, and a poll that has to yield.
LEMMA EndKeeps ==
    ASSUME SnapshotsInv, NEW w \in Workers, NEW t \in Tasks, running[w] = t,
           NoEntry(w, t) \/ ChangeRegistry(w, t) \/ OutOfBudget(w, t)
    PROVE  SnapshotsInv'
<1> USE DEF SnapshotsInv
<1>1. /\ running' = [running EXCEPT ![w] = NoTask]
      /\ UNCHANGED <<left, charging, holder, queue, at>>
      /\ \/ /\ pc[t] = "next" /\ pc' = [pc EXCEPT ![t] = "done"] /\ runnable' = runnable
            /\ guard' = [guard EXCEPT ![t] = NoShard]
         \/ /\ pc[t] = "change" /\ pc' = [pc EXCEPT ![t] = "done"] /\ runnable' = runnable
            /\ guard' = guard
         \/ /\ pc[t] = "lock" /\ pc' = pc /\ runnable' = runnable \cup {t} /\ guard' = guard
  BY DEF NoEntry, ChangeRegistry, OutOfBudget, Pending, Goto, tasks, locks
<1>2. TypeOK'
  BY <1>1 DEF TypeOK
<1>3. /\ \A u \in Tasks \ {t} : pc'[u] = pc[u] /\ at'[u] = at[u] /\ guard'[u] = guard[u]
      /\ pc[t] # "held" /\ pc'[t] # "held"
      /\ \/ runnable' = runnable /\ pc'[t] = "done"
         \/ runnable' = runnable \cup {t} /\ pc'[t] # "done"
  BY <1>1 DEF TypeOK
<1>4. Places'
  <2>1. ASSUME NEW u \in Tasks \ {t}
        PROVE  /\ pc'[u] \in {"lock", "held"} => at'[u] \in Agents /\ u \notin Changes
               /\ pc'[u] = "next" => u \in Snapshots
               /\ pc'[u] = "find" => u \in Charges
               /\ pc'[u] = "change" => u \in Changes
               /\ u \notin Snapshots => at'[u] \in Agents
               /\ guard'[u] # NoShard => u \in Snapshots /\ pc'[u] # "done"
    BY <1>3 DEF Places
  <2>2. CASE pc[t] = "next"
    <3>1. pc'[t] = "done" /\ guard'[t] = NoShard /\ at'[t] = at[t]
      BY <1>1, <2>2 DEF TypeOK
    <3> QED
      BY <2>1, <3>1 DEF Places
  <2>3. CASE pc[t] = "change"
    <3>1. t \in Changes /\ t \notin Snapshots
      BY <2>3, SnapshotsAssumption DEF Places
    <3>2. pc'[t] = "done" /\ guard'[t] = NoShard /\ at'[t] = at[t]
      BY <1>1, <2>3, <3>1 DEF Places, TypeOK
    <3> QED
      BY <2>1, <3>2 DEF Places
  <2>4. CASE pc[t] = "lock"
    <3>1. pc' = pc /\ guard' = guard /\ at' = at
      BY <1>1, <2>4
    <3> QED
      BY <3>1 DEF Places
  <2> QED
    BY <1>1, <2>2, <2>3, <2>4
<1>5. Turns'
  BY <1>1, <1>3, EndsPoll
<1>6. Locks'
  BY <1>1, <1>3, QuietLocks
<1> QED
  BY <1>2, <1>4, <1>5, <1>6

\* A task that finds the lock free.
LEMMA TakeKeeps ==
    ASSUME SnapshotsInv, NEW w \in Workers, NEW t \in Tasks, running[w] = t,
           TakeCascade(w, t)
    PROVE  SnapshotsInv'
<1> USE DEF SnapshotsInv
<1> DEFINE a == at[t]
<1>0. PollBudget \in Nat /\ t # NoTask
  BY SnapshotsAssumption
<1>1. /\ pc[t] = "lock" /\ left[t] > 0 /\ holder[a] = NoTask
      /\ holder' = [holder EXCEPT ![a] = t] /\ left' = [left EXCEPT ![t] = @ - 1]
      /\ pc' = [pc EXCEPT ![t] = "held"]
      /\ UNCHANGED <<running, runnable, at, charging, queue, guard>>
  BY DEF TakeCascade, Goto
<1>2. a \in Agents /\ t \notin Changes
  BY <1>1 DEF Places
<1>3. TypeOK'
  <2>1. left[t] - 1 \in 0..PollBudget
    BY <1>0, <1>1 DEF TypeOK
  <2>2. left' \in [Tasks -> 0..PollBudget]
    BY <1>1, <2>1 DEF TypeOK
  <2> QED
    BY <1>1, <2>2 DEF TypeOK
<1>4. pc'[t] = "held" /\ \A u \in Tasks \ {t} : pc'[u] = pc[u]
  BY <1>1 DEF TypeOK
<1>5. Places'
  BY <1>1, <1>2, <1>4 DEF Places
<1>6. Turns'
  BY <1>1, <1>4, GoesOn
<1>7. Locks'
  <2>1. \A b \in Agents : holder'[b] = IF b = a THEN t ELSE holder[b]
    BY <1>1 DEF TypeOK
  <2>2. \A b \in Agents : t \notin Members(queue[b]) /\ holder[b] # t
    BY <1>1, Polled
  <2>3. \A b \in Agents : \A u \in Members(queue[b]) : u \in Tasks
    BY DEF TypeOK, Members
  <2>4. \A b \in Agents : holder[b] \in Tasks \cup {NoTask}
    BY DEF TypeOK
  <2>5. ASSUME NEW b \in Agents
        PROVE  /\ Once(queue'[b])
               /\ Members(queue'[b]) # {} => holder'[b] # NoTask
               /\ \A u \in Members(queue'[b]) : pc'[u] = "held" /\ at'[u] = b
    BY <1>0, <1>1, <1>4, <2>1, <2>2, <2>3 DEF Locks
  <2>6. ASSUME NEW b \in Agents, holder'[b] # NoTask
        PROVE  /\ pc'[holder'[b]] = "held" /\ at'[holder'[b]] = b
               /\ holder'[b] \notin Members(queue'[b])
    <3>1. CASE b = a
      BY <1>1, <1>4, <2>1, <2>2, <3>1
    <3>2. CASE b # a
      <4>1. holder'[b] = holder[b] /\ holder[b] \in Tasks \ {t}
        BY <2>1, <2>2, <2>4, <2>6, <3>2
      <4> QED
        BY <1>1, <1>4, <2>6, <4>1 DEF Locks
    <3> QED
      BY <3>1, <3>2
  <2>7. ASSUME NEW b \in Agents, NEW u \in Tasks, pc'[u] = "held", at'[u] = b
        PROVE  u \in Members(queue'[b]) \/ holder'[b] = u
    <3>1. CASE u = t
      BY <1>1, <2>1, <2>7, <3>1
    <3>2. CASE u # t
      <4>1. u \in Members(queue[b]) \/ holder[b] = u
        BY <1>1, <1>4, <2>7, <3>2 DEF Locks
      <4>2. holder[b] = u => b # a
        BY <1>1, SnapshotsAssumption
      <4> QED
        BY <1>1, <2>1, <4>1, <4>2
    <3> QED
      BY <3>1, <3>2
  <2> QED
    BY <2>5, <2>6, <2>7 DEF Locks
<1> QED
  BY <1>3, <1>5, <1>6, <1>7

\* A task that finds the lock taken.
LEMMA AwaitKeeps ==
    ASSUME SnapshotsInv, NEW w \in Workers, NEW t \in Tasks, running[w] = t,
           AwaitCascade(w, t)
    PROVE  SnapshotsInv'
<1> USE DEF SnapshotsInv
<1> DEFINE a == at[t]
<1>0. t # NoTask
  BY SnapshotsAssumption
<1>1. /\ pc[t] = "lock" /\ holder[a] # NoTask
      /\ queue' = [queue EXCEPT ![a] = Append(@, t)]
      /\ pc' = [pc EXCEPT ![t] = "held"]
      /\ running' = [running EXCEPT ![w] = NoTask] /\ runnable' = runnable
      /\ UNCHANGED <<left, at, charging, holder, guard>>
  BY DEF AwaitCascade, Goto, Pending, tasks
<1>2. a \in Agents /\ t \notin Changes
  BY <1>1 DEF Places
<1>3. /\ t \notin runnable /\ \A v \in Workers \ {w} : running[v] # t
      /\ \A b \in Agents : t \notin Members(queue[b]) /\ holder[b] # t
  BY <1>1, Polled
<1>4. /\ Append(queue[a], t) \in Seq(Tasks) /\ Once(Append(queue[a], t))
      /\ Members(Append(queue[a], t)) = Members(queue[a]) \cup {t}
  <2>1. queue[a] \in Seq(Tasks) /\ Once(queue[a])
    BY <1>2 DEF TypeOK, Locks
  <2> QED
    BY <1>2, <1>3, <2>1, JoinQueue
<1>5. TypeOK'
  BY <1>1, <1>4 DEF TypeOK
<1>6. pc'[t] = "held" /\ \A u \in Tasks \ {t} : pc'[u] = pc[u]
  BY <1>1 DEF TypeOK
<1>7. /\ \A b \in Agents \ {a} : queue'[b] = queue[b]
      /\ Once(queue'[a]) /\ Members(queue'[a]) = Members(queue[a]) \cup {t}
  BY <1>1, <1>2, <1>4 DEF TypeOK
<1>8. Places'
  BY <1>1, <1>2, <1>6 DEF Places
<1>9. Turns'
  <2>1. \A v \in Workers : running'[v] = IF v = w THEN NoTask ELSE running[v]
    BY <1>1 DEF TypeOK
  <2>2. NoTask \notin runnable
    BY SnapshotsAssumption DEF TypeOK
  <2>3. /\ \A v, x \in Workers : running'[v] = running'[x] /\ running'[v] # NoTask => v = x
        /\ \A v \in Workers : running'[v] \notin runnable'
    BY <1>1, <2>1, <2>2 DEF Turns
  <2>4. ASSUME NEW u \in Tasks, u \in runnable' \/ \E v \in Workers : running'[v] = u
        PROVE  pc'[u] # "done" /\ \A b \in Agents : u \notin Members(queue'[b])
    <3>1. u # t /\ (u \in runnable \/ \E v \in Workers : running[v] = u)
      BY <1>1, <1>3, <2>1, <2>4, SnapshotsAssumption
    <3>2. pc[u] # "done" /\ \A b \in Agents : u \notin Members(queue[b])
      BY <3>1 DEF Turns
    <3> QED
      BY <1>6, <1>7, <3>1, <3>2
  <2>5. ASSUME NEW u \in Tasks, pc'[u] # "done"
        PROVE  \/ u \in runnable'
               \/ \E v \in Workers : running'[v] = u
               \/ at'[u] \in Agents /\ u \in Members(queue'[at'[u]])
    <3>1. CASE u = t
      BY <1>1, <1>2, <1>7, <3>1
    <3>2. CASE u # t
      <4>1. \/ u \in runnable
            \/ \E v \in Workers : running[v] = u
            \/ at[u] \in Agents /\ u \in Members(queue[at[u]])
        BY <1>6, <2>5, <3>2 DEF Turns
      <4>2. \A v \in Workers : running[v] = u => running'[v] = u
        BY <2>1, <3>2
      <4> QED
        BY <1>1, <1>7, <4>1, <4>2
    <3> QED
      BY <3>1, <3>2
  <2> QED
    BY <2>3, <2>4, <2>5 DEF Turns
<1>10. Locks'
  <2>1. \A b \in Agents : \A u \in Members(queue[b]) : u \in Tasks
    BY DEF TypeOK, Members
  <2>2. \A b \in Agents : holder'[b] = holder[b] /\ holder[b] \in Tasks \cup {NoTask}
    BY <1>1 DEF TypeOK
  <2>3. ASSUME NEW b \in Agents
        PROVE  /\ Once(queue'[b])
               /\ Members(queue'[b]) # {} => holder'[b] # NoTask
               /\ \A u \in Members(queue'[b]) : pc'[u] = "held" /\ at'[u] = b
    <3>1. CASE b = a
      BY <1>1, <1>2, <1>6, <1>7, <2>1, <3>1 DEF Locks
    <3>2. CASE b # a
      BY <1>1, <1>3, <1>6, <1>7, <2>1, <3>2 DEF Locks
    <3> QED
      BY <3>1, <3>2
  <2>4. ASSUME NEW b \in Agents, holder'[b] # NoTask
        PROVE  /\ pc'[holder'[b]] = "held" /\ at'[holder'[b]] = b
               /\ holder'[b] \notin Members(queue'[b])
    <3>1. holder'[b] = holder[b] /\ holder[b] \in Tasks \ {t}
      BY <1>3, <2>2, <2>4
    <3>2. pc[holder[b]] = "held" /\ at[holder[b]] = b /\ holder[b] \notin Members(queue[b])
      BY <2>4, <3>1 DEF Locks
    <3> QED
      BY <1>1, <1>6, <1>7, <3>1, <3>2
  <2>5. ASSUME NEW b \in Agents, NEW u \in Tasks, pc'[u] = "held", at'[u] = b
        PROVE  u \in Members(queue'[b]) \/ holder'[b] = u
    <3>1. CASE u = t
      BY <1>1, <1>7, <2>5, <3>1
    <3>2. CASE u # t
      <4>1. u \in Members(queue[b]) \/ holder[b] = u
        BY <1>1, <1>6, <2>5, <3>2 DEF Locks
      <4> QED
        BY <1>7, <2>2, <4>1
    <3> QED
      BY <3>1, <3>2
  <2> QED
    BY <2>3, <2>4, <2>5 DEF Locks
<1> QED
  BY <1>5, <1>8, <1>9, <1>10

\* A task that gives its lock to the one that has waited longest.
LEMMA ReleaseKeeps ==
    ASSUME SnapshotsInv, NEW w \in Workers, NEW t \in Tasks, running[w] = t,
           ReleaseCascade(w, t)
    PROVE  SnapshotsInv'
<1> USE DEF SnapshotsInv
<1> DEFINE a == at[t]
           h == IF queue[a] = <<>> THEN NoTask ELSE Head(queue[a])
<1>0. t # NoTask /\ NoTask \notin Tasks
  BY SnapshotsAssumption
<1>1. pc[t] = "held" /\ pc' = [pc EXCEPT ![t] = AfterLock(t)]
  BY DEF ReleaseCascade, Goto
<1>2. a \in Agents /\ t \notin Changes
  BY <1>1 DEF Places
<1>3. /\ t \notin runnable /\ \A v \in Workers \ {w} : running[v] # t
      /\ \A b \in Agents : t \notin Members(queue[b])
      /\ holder[a] = t
  BY <1>1, Polled
<1>4. queue[a] \in Seq(Tasks) /\ Once(queue[a])
  BY <1>2 DEF TypeOK, Locks
<1>5. /\ holder' = [holder EXCEPT ![a] = h]
      /\ h # NoTask => h \in Tasks /\ h \in Members(queue[a])
      /\ queue' = [queue EXCEPT ![a] = queue'[a]] /\ queue'[a] \in Seq(Tasks) /\ Once(queue'[a])
      /\ Members(queue'[a]) = Members(queue[a]) \ {h}
      /\ h = NoTask => Members(queue[a]) = {}
  <2>1. CASE queue[a] = <<>>
    <3>1. h = NoTask /\ holder' = [holder EXCEPT ![a] = NoTask]
          /\ queue' = [queue EXCEPT ![a] = queue[a]]
      BY <2>1 DEF ReleaseCascade
    <3>2. queue'[a] = queue[a] /\ Members(queue[a]) = {}
      BY <1>2, <1>4, <2>1, <3>1, NoQueue DEF TypeOK
    <3> QED
      BY <1>4, <3>1, <3>2
  <2>2. CASE queue[a] # <<>>
    <3>1. h = Head(queue[a]) /\ holder' = [holder EXCEPT ![a] = Head(queue[a])]
          /\ queue' = [queue EXCEPT ![a] = Tail(queue[a])]
      BY <2>2 DEF ReleaseCascade
    <3>2. queue'[a] = Tail(queue[a])
      BY <1>2, <3>1 DEF TypeOK
    <3>3. /\ Head(queue[a]) \in Members(queue[a]) /\ Head(queue[a]) \in Tasks
          /\ Tail(queue[a]) \in Seq(Tasks) /\ Once(Tail(queue[a]))
          /\ Members(Tail(queue[a])) = Members(queue[a]) \ {Head(queue[a])}
      BY <1>4, <2>2, LeaveQueue
    <3> QED
      BY <1>0, <3>1, <3>2, <3>3
  <2> QED
    BY <2>1, <2>2
<1>6. /\ h # NoTask => runnable' = runnable \cup {h}
      /\ h = NoTask => runnable' = runnable
      /\ \/ AfterLock(t) = "done" /\ running' = [running EXCEPT ![w] = NoTask]
         \/ AfterLock(t) # "done" /\ running' = running
      /\ charging' = [charging EXCEPT ![t] = IF @ > 0 THEN @ - 1 ELSE @]
      /\ UNCHANGED <<at, left, guard>>
  <2>1. (IF queue[a] = <<>> THEN {} ELSE {Head(queue[a])}) = IF h = NoTask THEN {} ELSE {h}
    <3>1. CASE queue[a] = <<>>
      BY <3>1
    <3>2. CASE queue[a] # <<>>
      <4>1. Head(queue[a]) \in Tasks
        BY <1>4, <3>2, LeaveQueue
      <4> QED
        BY <1>0, <3>2, <4>1
    <3> QED
      BY <3>1, <3>2
  <2> QED
    BY <2>1 DEF ReleaseCascade, Pending
<1> HIDE DEF h
<1>7. /\ AfterLock(t) \in {"next", "lock", "done"}
      /\ AfterLock(t) = "next" => t \in Snapshots
      /\ AfterLock(t) = "done" => t \notin Snapshots
  BY DEF AfterLock
<1>8. TypeOK'
  <2>1. charging' \in [Tasks -> 0..2]
    <3>1. (IF charging[t] > 0 THEN charging[t] - 1 ELSE charging[t]) \in 0..2
      BY DEF TypeOK
    <3> QED
      BY <1>6, <3>1 DEF TypeOK
  <2>2. runnable' \subseteq Tasks /\ running' \in [Workers -> Tasks \cup {NoTask}]
    BY <1>5, <1>6 DEF TypeOK
  <2>3. pc' \in [Tasks -> {"next", "find", "change", "lock", "held", "done"}]
    BY <1>1, <1>7 DEF TypeOK
  <2>4. holder' \in [Agents -> Tasks \cup {NoTask}] /\ queue' \in [Agents -> Seq(Tasks)]
    BY <1>5 DEF TypeOK
  <2> QED
    BY <1>6, <2>1, <2>2, <2>3, <2>4 DEF TypeOK
<1>9. pc'[t] = AfterLock(t) /\ \A u \in Tasks \ {t} : pc'[u] = pc[u]
  BY <1>1 DEF TypeOK
<1>10. /\ \A b \in Agents \ {a} : queue'[b] = queue[b] /\ holder'[b] = holder[b]
       /\ holder'[a] = h
  BY <1>2, <1>5 DEF TypeOK
<1>11. h # t /\ (h # NoTask => /\ pc[h] = "held" /\ at[h] = a
                               /\ \A b \in Agents \ {a} : h \notin Members(queue[b]))
  BY <1>0, <1>2, <1>3, <1>5 DEF Locks
<1>12. Places'
  <2>1. guard[t] # NoShard => t \in Snapshots
    BY DEF Places
  <2> QED
    BY <1>2, <1>6, <1>7, <1>9, <2>1 DEF Places
<1>13. \A v \in Workers : running'[v] = IF v = w /\ AfterLock(t) = "done" THEN NoTask ELSE running[v]
  BY <1>6 DEF TypeOK
<1>14. Turns'
  <2>1. h # NoTask => h \notin runnable /\ \A v \in Workers : running[v] # h
    BY <1>2, <1>5 DEF Turns
  <2>2. /\ \A v, x \in Workers : running'[v] = running'[x] /\ running'[v] # NoTask => v = x
        /\ \A v \in Workers : running'[v] \notin runnable'
    <3>1. NoTask \notin runnable'
      BY <1>0, <1>8 DEF TypeOK
    <3> QED
      BY <1>6, <1>13, <2>1, <3>1 DEF Turns
  <2>3. ASSUME NEW u \in Tasks, u \in runnable' \/ \E v \in Workers : running'[v] = u
        PROVE  pc'[u] # "done" /\ \A b \in Agents : u \notin Members(queue'[b])
    <3>1. CASE u = t
      <4>1. t \notin runnable'
        BY <1>3, <1>6, <1>11
      <4>2. AfterLock(t) # "done"
        BY <1>0, <1>3, <1>13, <2>3, <3>1, <4>1
      <4> QED
        BY <1>3, <1>5, <1>9, <1>10, <3>1, <4>2
    <3>2. CASE u = h
      BY <1>0, <1>5, <1>9, <1>10, <1>11, <3>2
    <3>3. CASE u # t /\ u # h
      <4>1. u \in runnable \/ \E v \in Workers : running[v] = u
        BY <1>0, <1>6, <1>13, <2>3, <3>3
      <4>2. pc[u] # "done" /\ \A b \in Agents : u \notin Members(queue[b])
        BY <4>1 DEF Turns
      <4> QED
        BY <1>5, <1>9, <1>10, <3>3, <4>2
    <3> QED
      BY <3>1, <3>2, <3>3
  <2>4. ASSUME NEW u \in Tasks, pc'[u] # "done"
        PROVE  \/ u \in runnable'
               \/ \E v \in Workers : running'[v] = u
               \/ at'[u] \in Agents /\ u \in Members(queue'[at'[u]])
    <3>1. CASE u = t
      BY <1>9, <1>13, <2>4, <3>1
    <3>2. CASE u = h
      BY <1>0, <1>6, <3>2
    <3>3. CASE u # t /\ u # h
      <4>1. \/ u \in runnable
            \/ \E v \in Workers : running[v] = u
            \/ at[u] \in Agents /\ u \in Members(queue[at[u]])
        BY <1>9, <2>4, <3>3 DEF Turns
      <4>2. \A v \in Workers : running[v] = u => running'[v] = u
        BY <1>13, <3>3
      <4>3. \A b \in Agents : u \in Members(queue[b]) => u \in Members(queue'[b])
        BY <1>5, <1>10, <3>3
      <4>4. u \in runnable => u \in runnable'
        BY <1>6
      <4> QED
        BY <1>6, <4>1, <4>2, <4>3, <4>4
    <3> QED
      BY <3>1, <3>2, <3>3
  <2> QED
    BY <2>2, <2>3, <2>4 DEF Turns
<1>15. Locks'
  <2>1. \A b \in Agents : \A u \in Members(queue[b]) : u \in Tasks \ {t}
    BY <1>3 DEF TypeOK, Members
  <2>2. \A b \in Agents \ {a} : holder[b] \in Tasks \cup {NoTask} /\ holder[b] # t
    BY <1>0, <1>3 DEF TypeOK, Locks
  <2>3. ASSUME NEW b \in Agents
        PROVE  /\ Once(queue'[b])
               /\ Members(queue'[b]) # {} => holder'[b] # NoTask
               /\ \A u \in Members(queue'[b]) : pc'[u] = "held" /\ at'[u] = b
    <3>1. CASE b = a
      BY <1>2, <1>5, <1>6, <1>9, <1>10, <2>1, <3>1 DEF Locks
    <3>2. CASE b # a
      BY <1>6, <1>9, <1>10, <2>1, <3>2 DEF Locks
    <3> QED
      BY <3>1, <3>2
  <2>4. ASSUME NEW b \in Agents, holder'[b] # NoTask
        PROVE  /\ pc'[holder'[b]] = "held" /\ at'[holder'[b]] = b
               /\ holder'[b] \notin Members(queue'[b])
    <3>1. CASE b = a
      BY <1>5, <1>6, <1>9, <1>10, <1>11, <2>4, <3>1
    <3>2. CASE b # a
      <4>1. holder'[b] = holder[b] /\ holder[b] \in Tasks \ {t}
        BY <1>10, <2>2, <2>4, <3>2
      <4>2. pc[holder[b]] = "held" /\ at[holder[b]] = b /\ holder[b] \notin Members(queue[b])
        BY <2>4, <4>1 DEF Locks
      <4> QED
        BY <1>6, <1>9, <1>10, <3>2, <4>1, <4>2
    <3> QED
      BY <3>1, <3>2
  <2>5. ASSUME NEW b \in Agents, NEW u \in Tasks, pc'[u] = "held", at'[u] = b
        PROVE  u \in Members(queue'[b]) \/ holder'[b] = u
    <3>1. u # t /\ pc[u] = "held" /\ at[u] = b
      BY <1>6, <1>7, <1>9, <2>5
    <3>2. u \in Members(queue[b]) \/ holder[b] = u
      BY <3>1 DEF Locks
    <3> QED
      BY <1>3, <1>5, <1>10, <3>1, <3>2
  <2> QED
    BY <2>3, <2>4, <2>5 DEF Locks
<1> QED
  BY <1>8, <1>12, <1>14, <1>15

-------------------------------------------------------------------------------
\* At the start every task can be taken up and no lock is taken.
LEMMA SnapshotsInit == Init => SnapshotsInv
<1> SUFFICES ASSUME Init
             PROVE  SnapshotsInv
  OBVIOUS
<1>0. /\ PollBudget \in Nat /\ NoTask \notin Tasks
      /\ Snapshots \cap Charges = {} /\ (Snapshots \cup Charges) \cap Changes = {}
  BY SnapshotsAssumption
<1>1. \A a \in Agents : queue[a] = <<>> /\ Members(queue[a]) = {} /\ Once(queue[a])
  BY DEF Init, Members, Once
<1>2. TypeOK
  BY <1>0 DEF Init, TypeOK
<1>3. Places
  <2>1. \A t \in Tasks : at[t] \in Agents \cup {None} /\ (at[t] = None <=> t \in Snapshots)
    BY DEF Init
  <2>2. \A t \in Tasks : /\ guard[t] = NoShard
                         /\ pc[t] = IF t \in Snapshots THEN "next"
                                    ELSE IF t \in Charges THEN "find" ELSE "change"
    BY DEF Init
  <2> QED
    BY <2>1, <2>2 DEF Places, Tasks
<1>4. Turns
  BY <1>0, <1>1 DEF Init, Turns
<1>5. Locks
  BY <1>1 DEF Init, Locks
<1> QED
  BY <1>2, <1>3, <1>4, <1>5 DEF SnapshotsInv

\* Who runs, who waits and who has which lock fit together after every step.
THEOREM SnapshotsInvAlways == Spec => []SnapshotsInv
<1>1. SnapshotsInv /\ [Next]_vars => SnapshotsInv'
  <2> SUFFICES ASSUME SnapshotsInv, [Next]_vars
               PROVE  SnapshotsInv'
    OBVIOUS
  <2>1. CASE UNCHANGED vars
    BY <2>1 DEF vars, SnapshotsInv, TypeOK, Places, Turns, Locks
  <2>2. ASSUME NEW w \in Workers, NEW t \in Tasks, Poll(w, t)
        PROVE  SnapshotsInv'
    BY <2>2, PollKeeps
  <2>3. ASSUME NEW w \in Workers, NEW t \in Tasks, Run(w, t)
        PROVE  SnapshotsInv'
    BY <2>3, WalkKeeps, EndKeeps, TakeKeeps, AwaitKeeps, ReleaseKeeps DEF Run
  <2> QED
    BY <2>1, <2>2, <2>3 DEF Next, Work
<1> QED
  BY <1>1, SnapshotsInit, PTL DEF Spec

\* When all workers stand still for a shard a task could go on if there were one
\* more: the snapshot that reads the shard, or the task that has the lock it waits
\* for.  Calls that wait for a shard have no locks, so there is no circle.
THEOREM StuckOnlyForWorkers == Spec => []StuckForWantOfWorkers
<1>1. SnapshotsInv => StuckForWantOfWorkers
  <2> SUFFICES ASSUME SnapshotsInv, AllBlocked
               PROVE  runnable # {}
    BY DEF StuckForWantOfWorkers
  <2> USE DEF SnapshotsInv
  <2>1. PICK w \in Workers : Blocked(w)
    BY SnapshotsAssumption DEF AllBlocked
  <2>2. PICK u \in Tasks : guard[u] = ShardOf[at[running[w]]]
    BY <2>1 DEF Blocked
  <2>3. running[w] \in Changes /\ running[w] \in Tasks
    BY <2>1 DEF Blocked, Tasks
  <2>4. at[running[w]] \in Agents
    BY <2>3, SnapshotsAssumption DEF Places
  <2>5. guard[u] # NoShard
    BY <2>2, <2>4, SnapshotsAssumption DEF Shards
  <2>6. u \in Snapshots /\ pc[u] # "done"
    BY <2>5 DEF Places
  <2>7. \A v \in Workers : running[v] \in Changes
    BY DEF AllBlocked, Blocked
  <2>8. \A v \in Workers : running[v] # u
    BY <2>6, <2>7, SnapshotsAssumption
  <2>9. u \in runnable \/ (at[u] \in Agents /\ u \in Members(queue[at[u]]))
    BY <2>6, <2>8 DEF Turns
  <2>10. ASSUME at[u] \in Agents, u \in Members(queue[at[u]])
         PROVE  holder[at[u]] \in runnable
    <3> DEFINE h == holder[at[u]]
    <3>1. h # NoTask /\ h \in Tasks
      BY <2>10 DEF Locks, TypeOK
    <3>2. pc[h] = "held" /\ at[h] = at[u] /\ h \notin Members(queue[at[u]])
      BY <2>10, <3>1 DEF Locks
    <3>3. h \notin Changes
      BY <3>1, <3>2 DEF Places
    <3> QED
      BY <2>7, <3>1, <3>2, <3>3 DEF Turns
  <2> QED
    BY <2>9, <2>10
<1> QED
  BY <1>1, SnapshotsInvAlways, PTL
===============================================================================
