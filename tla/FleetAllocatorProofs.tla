-------------------------- MODULE FleetAllocatorProofs --------------------------
(***************************************************************************)
(* Proofs about FleetAllocator, for any number of tasks, names and         *)
(* registrations, any caps and any costs.                                  *)
(***************************************************************************)
EXTENDS FleetAllocator, SumProofs

\* What a call holds while it is under way.
Removals == {"removeSpent", "removeLimit", "release"}
Moves == {"shrink", "grow"}
Charges == {"killCheck", "charge", "record"}

CallShape ==
    \A t \in Tasks :
        /\ from[t] # None <=> pc[t] \in Removals \cup Charges \cup {"findTo"} \cup Moves
        /\ to[t] # None <=> pc[t] \in Moves
        /\ from[t] <= registered /\ to[t] <= registered

\* An agent is registered under one name at most, and never again once removed.
RegistryShape ==
    /\ \A n \in Names : registry[n] <= registered
    /\ \A m, n \in Names : registry[m] = registry[n] => m = n \/ registry[n] = None
    /\ \A t \in Tasks, n \in Names : pc[t] \in Removals => registry[n] # from[t]

\* No agent spends past its cap, and agents still to come have none.
Solvent ==
    \A a \in Agents : spent[a] <= limit[a] /\ (registered < a => limit[a] = 0)

\* The agents that kill_all set out to kill and has not come to are registered
\* under names it has not come to.
KillWalk ==
    \A t \in Tasks :
        /\ targets[t] \subseteq 1..registered
        /\ pc[t] = "killNext" =>
             /\ 1 <= name[t]
             /\ \A n \in Names :
                  registry[n] \in targets[t] => killed[registry[n]] \/ name[t] <= n

Inv == TypeOK /\ CallShape /\ RegistryShape /\ Solvent /\ KillWalk

\* When agents in use are not removed: a removal has its agent to itself, every
\* other call works on registered agents, and a removal reads what it then
\* releases from an agent that stands still.
RemovedAlone ==
    \A t, u \in Tasks : pc[t] \in Removals /\ u # t => ~Holds(u, from[t])

UsedRegistered ==
    \A t \in Tasks :
        /\ pc[t] \notin Removals /\ from[t] # None => from[t] \in RegisteredAgents
        /\ to[t] # None => to[t] \in RegisteredAgents

Measured ==
    \A t \in Tasks :
        /\ pc[t] = "removeLimit" => arg[t] = spent[from[t]]
        /\ pc[t] = "release" => arg[t] = limit[from[t]] - spent[from[t]]

UsageInv == RemovedAlone /\ UsedRegistered /\ Measured

-------------------------------------------------------------------------------
LEMMA ConstantFacts ==
    /\ FleetLimit \in Nat /\ MaxAgents \in Nat
    /\ Names \subseteq Nat /\ \A n \in Names : 1 <= n
    /\ AgentLimits \subseteq Nat /\ Costs \subseteq Nat /\ Amounts \subseteq Nat
    /\ \A a \in Agents : a \in Nat /\ 1 <= a /\ a <= MaxAgents
    /\ None = 0 /\ None \notin Agents
<1>1. Cardinality(Names) \in Nat
  BY FleetAssumption, FS_CardinalityType
<1>2. Names \subseteq Nat /\ \A n \in Names : 1 <= n
  BY <1>1, FleetAssumption
<1>3. FleetLimit \in Nat /\ MaxAgents \in Nat
  BY FleetAssumption
<1>4. AgentLimits \subseteq Nat /\ Costs \subseteq Nat /\ Amounts \subseteq Nat
  BY FleetAssumption
<1> QED
  BY <1>2, <1>3, <1>4 DEF Agents, None

LEMMA FirstName == Min(Names) = 1
<1>1. Cardinality(Names) \in Nat
  BY FleetAssumption, FS_CardinalityType
<1>2. 1 \in Names /\ \A n \in Names : n \in Nat /\ 1 <= n
  BY <1>1, FleetAssumption
<1> QED
  BY <1>2 DEF Min

LEMMA InitInv == Init => Inv
  BY FleetAssumption
  DEF Init, Inv, TypeOK, CallShape, RegistryShape, Solvent, KillWalk, Agents, None,
      Removals, Charges, Moves

LEMMA InvNext ==
    ASSUME Inv, [Next]_vars
    PROVE  Inv'
<1> USE ConstantFacts DEF Removals, Charges, Moves, Goto, Done, fleet, book, locals, dropped
<1>1. ASSUME NEW t \in Tasks, NEW n \in Names, NEW amount \in AgentLimits, RegisterAgent(t, n, amount)
      PROVE  Inv'
  <2>0. registered + 1 \in Agents /\ registered \in Nat /\ amount \in Nat
    BY <1>1, FirstName DEF Inv, TypeOK, Agents, RegisterAgent
  <2>1. TypeOK'
    BY <1>1, <2>0 DEF Inv, TypeOK, Allocate, RegisterAgent
  <2>2. CallShape'
    BY <1>1, <2>0 DEF Inv, TypeOK, CallShape, RegisterAgent
  <2>3. RegistryShape'
    BY <1>1, <2>0 DEF Inv, TypeOK, CallShape, RegistryShape, RegisterAgent
  <2>4. Solvent'
    BY <1>1, <2>0 DEF Inv, TypeOK, CallShape, Solvent, RegisterAgent
  <2>5. KillWalk'
    BY <1>1, <2>0 DEF Inv, TypeOK, CallShape, RegistryShape, KillWalk, RegisteredAgents, RegisterAgent
  <2> QED
    BY <2>1, <2>2, <2>3, <2>4, <2>5 DEF Inv
<1>2. ASSUME NEW t \in Tasks, NEW n \in Names, RemoveAgent(t, n)
      PROVE  Inv'
  <2>1. TypeOK'
    BY <1>2 DEF Inv, TypeOK, RemoveAgent
  <2>2. CallShape'
    BY <1>2 DEF Inv, TypeOK, CallShape, RegistryShape, RemoveAgent
  <2>3. RegistryShape'
    BY <1>2 DEF Inv, TypeOK, CallShape, RegistryShape, RemoveAgent
  <2>4. Solvent'
    BY <1>2 DEF Inv, TypeOK, CallShape, Solvent, RemoveAgent
  <2>5. KillWalk'
    BY <1>2 DEF Inv, TypeOK, CallShape, RegistryShape, KillWalk, RegisteredAgents, RemoveAgent
  <2> QED
    BY <2>1, <2>2, <2>3, <2>4, <2>5 DEF Inv
<1>3. ASSUME NEW t \in Tasks, RemoveReadSpent(t)
      PROVE  Inv'
  BY <1>3 DEF Inv, TypeOK, CallShape, RegistryShape, Solvent, KillWalk, RemoveReadSpent
<1>4. ASSUME NEW t \in Tasks, RemoveReadLimit(t)
      PROVE  Inv'
  <2>1. TypeOK'
    BY <1>4 DEF Inv, TypeOK, CallShape, RemoveReadLimit
  <2>2. CallShape'
    BY <1>4 DEF Inv, TypeOK, CallShape, RemoveReadLimit
  <2>3. RegistryShape'
    BY <1>4 DEF Inv, TypeOK, CallShape, RegistryShape, RemoveReadLimit
  <2>4. Solvent'
    BY <1>4 DEF Inv, TypeOK, CallShape, Solvent, RemoveReadLimit
  <2>5. KillWalk'
    BY <1>4 DEF Inv, TypeOK, CallShape, RegistryShape, KillWalk, RegisteredAgents, RemoveReadLimit
  <2> QED
    BY <2>1, <2>2, <2>3, <2>4, <2>5 DEF Inv
<1>5. ASSUME NEW t \in Tasks, Release(t)
      PROVE  Inv'
  <2>1. TypeOK'
    BY <1>5 DEF Inv, TypeOK, Release
  <2>2. CallShape'
    BY <1>5 DEF Inv, TypeOK, CallShape, Release
  <2>3. RegistryShape'
    BY <1>5 DEF Inv, TypeOK, CallShape, RegistryShape, Release
  <2>4. Solvent'
    BY <1>5 DEF Inv, TypeOK, CallShape, Solvent, Release
  <2>5. KillWalk'
    BY <1>5 DEF Inv, TypeOK, CallShape, RegistryShape, KillWalk, RegisteredAgents, Release
  <2> QED
    BY <2>1, <2>2, <2>3, <2>4, <2>5 DEF Inv
<1>6. ASSUME NEW t \in Tasks, NEW n \in Names, NEW cost \in Costs, StartCharge(t, n, cost)
      PROVE  Inv'
  <2>1. TypeOK'
    BY <1>6 DEF Inv, TypeOK, StartCharge
  <2>2. CallShape'
    BY <1>6 DEF Inv, TypeOK, CallShape, RegistryShape, StartCharge
  <2>3. RegistryShape'
    BY <1>6 DEF Inv, TypeOK, CallShape, RegistryShape, StartCharge
  <2>4. Solvent'
    BY <1>6 DEF Inv, TypeOK, CallShape, Solvent, StartCharge
  <2>5. KillWalk'
    BY <1>6 DEF Inv, TypeOK, CallShape, RegistryShape, KillWalk, RegisteredAgents, StartCharge
  <2> QED
    BY <2>1, <2>2, <2>3, <2>4, <2>5 DEF Inv
<1>7. ASSUME NEW t \in Tasks, PassKillCheck(t)
      PROVE  Inv'
  BY <1>7 DEF Inv, TypeOK, CallShape, RegistryShape, Solvent, KillWalk, PassKillCheck
<1>8. ASSUME NEW t \in Tasks, RefuseKilled(t)
      PROVE  Inv'
  BY <1>8 DEF Inv, TypeOK, CallShape, RegistryShape, Solvent, KillWalk, RefuseKilled
<1>9. ASSUME NEW t \in Tasks, Charge(t)
      PROVE  Inv'
  <2>1. TypeOK'
    BY <1>9 DEF Inv, TypeOK, CallShape, Charge
  <2>2. CallShape'
    BY <1>9 DEF Inv, TypeOK, CallShape, Charge
  <2>3. RegistryShape'
    BY <1>9 DEF Inv, TypeOK, CallShape, RegistryShape, Charge
  <2>4. Solvent'
    BY <1>9 DEF Inv, TypeOK, CallShape, Solvent, Charge
  <2>5. KillWalk'
    BY <1>9 DEF Inv, TypeOK, CallShape, RegistryShape, KillWalk, RegisteredAgents, Charge
  <2> QED
    BY <2>1, <2>2, <2>3, <2>4, <2>5 DEF Inv
<1>10. ASSUME NEW t \in Tasks, ChargeDirect(t)
      PROVE  Inv'
  <2>1. TypeOK'
    BY <1>10 DEF Inv, TypeOK, CallShape, ChargeDirect
  <2>2. CallShape'
    BY <1>10 DEF Inv, TypeOK, CallShape, ChargeDirect
  <2>3. RegistryShape'
    BY <1>10 DEF Inv, TypeOK, CallShape, RegistryShape, ChargeDirect
  <2>4. Solvent'
    BY <1>10 DEF Inv, TypeOK, CallShape, Solvent, ChargeDirect
  <2>5. KillWalk'
    BY <1>10 DEF Inv, TypeOK, CallShape, RegistryShape, KillWalk, RegisteredAgents, ChargeDirect
  <2> QED
    BY <2>1, <2>2, <2>3, <2>4, <2>5 DEF Inv
<1>11. ASSUME NEW t \in Tasks, RefuseExhausted(t)
      PROVE  Inv'
  BY <1>11 DEF Inv, TypeOK, CallShape, RegistryShape, Solvent, KillWalk, RefuseExhausted
<1>12. ASSUME NEW t \in Tasks, RecordSpend(t)
      PROVE  Inv'
  BY <1>12 DEF Inv, TypeOK, CallShape, RegistryShape, Solvent, KillWalk, RecordSpend
<1>13. ASSUME NEW t \in Tasks, NEW n \in Names, NEW amount \in Amounts, StartReallocate(t, n, amount)
      PROVE  Inv'
  <2>1. TypeOK'
    BY <1>13 DEF Inv, TypeOK, StartReallocate
  <2>2. CallShape'
    BY <1>13 DEF Inv, TypeOK, CallShape, RegistryShape, StartReallocate
  <2>3. RegistryShape'
    BY <1>13 DEF Inv, TypeOK, CallShape, RegistryShape, StartReallocate
  <2>4. Solvent'
    BY <1>13 DEF Inv, TypeOK, CallShape, Solvent, StartReallocate
  <2>5. KillWalk'
    BY <1>13 DEF Inv, TypeOK, CallShape, RegistryShape, KillWalk, RegisteredAgents, StartReallocate
  <2> QED
    BY <2>1, <2>2, <2>3, <2>4, <2>5 DEF Inv
<1>14. ASSUME NEW t \in Tasks, FindTo(t)
      PROVE  Inv'
  <2>1. TypeOK'
    BY <1>14 DEF Inv, TypeOK, FindTo
  <2>2. CallShape'
    BY <1>14 DEF Inv, TypeOK, CallShape, RegistryShape, FindTo
  <2>3. RegistryShape'
    BY <1>14 DEF Inv, TypeOK, CallShape, RegistryShape, FindTo
  <2>4. Solvent'
    BY <1>14 DEF Inv, TypeOK, CallShape, Solvent, FindTo
  <2>5. KillWalk'
    BY <1>14 DEF Inv, TypeOK, CallShape, RegistryShape, KillWalk, RegisteredAgents, FindTo
  <2> QED
    BY <2>1, <2>2, <2>3, <2>4, <2>5 DEF Inv
<1>15. ASSUME NEW t \in Tasks, NoTo(t)
      PROVE  Inv'
  BY <1>15 DEF Inv, TypeOK, CallShape, RegistryShape, Solvent, KillWalk, NoTo
<1>16. ASSUME NEW t \in Tasks, ShrinkFrom(t)
      PROVE  Inv'
  <2>1. TypeOK'
    BY <1>16 DEF Inv, TypeOK, CallShape, ShrinkFrom
  <2>2. CallShape'
    BY <1>16 DEF Inv, TypeOK, CallShape, ShrinkFrom
  <2>3. RegistryShape'
    BY <1>16 DEF Inv, TypeOK, CallShape, RegistryShape, ShrinkFrom
  <2>4. Solvent'
    BY <1>16 DEF Inv, TypeOK, CallShape, Solvent, ShrinkFrom
  <2>5. KillWalk'
    BY <1>16 DEF Inv, TypeOK, CallShape, RegistryShape, KillWalk, RegisteredAgents, ShrinkFrom
  <2> QED
    BY <2>1, <2>2, <2>3, <2>4, <2>5 DEF Inv
<1>17. ASSUME NEW t \in Tasks, ReallocationFailed(t)
      PROVE  Inv'
  BY <1>17 DEF Inv, TypeOK, CallShape, RegistryShape, Solvent, KillWalk, ReallocationFailed
<1>18. ASSUME NEW t \in Tasks, GrowTo(t)
      PROVE  Inv'
  <2>1. TypeOK'
    BY <1>18 DEF Inv, TypeOK, CallShape, GrowTo
  <2>2. CallShape'
    BY <1>18 DEF Inv, TypeOK, CallShape, GrowTo
  <2>3. RegistryShape'
    BY <1>18 DEF Inv, TypeOK, CallShape, RegistryShape, GrowTo
  <2>4. Solvent'
    BY <1>18 DEF Inv, TypeOK, CallShape, Solvent, GrowTo
  <2>5. KillWalk'
    BY <1>18 DEF Inv, TypeOK, CallShape, RegistryShape, KillWalk, RegisteredAgents, GrowTo
  <2> QED
    BY <2>1, <2>2, <2>3, <2>4, <2>5 DEF Inv
<1>19. ASSUME NEW t \in Tasks, Cancel(t)
      PROVE  Inv'
  BY <1>19 DEF Inv, TypeOK, CallShape, RegistryShape, Solvent, KillWalk, Cancel
<1>20. ASSUME NEW t \in Tasks, NEW n \in Names, KillAgent(t, n)
      PROVE  Inv'
  <2>1. TypeOK'
    BY <1>20 DEF Inv, TypeOK, KillAgent
  <2>2. CallShape'
    BY <1>20 DEF Inv, TypeOK, CallShape, KillAgent
  <2>3. RegistryShape'
    BY <1>20 DEF Inv, TypeOK, CallShape, RegistryShape, KillAgent
  <2>4. Solvent'
    BY <1>20 DEF Inv, TypeOK, CallShape, Solvent, KillAgent
  <2>5. KillWalk'
    BY <1>20 DEF Inv, TypeOK, CallShape, RegistryShape, KillWalk, RegisteredAgents, KillAgent
  <2> QED
    BY <2>1, <2>2, <2>3, <2>4, <2>5 DEF Inv
<1>21. ASSUME NEW t \in Tasks, StartKillAll(t)
      PROVE  Inv'
  <2>0. RegisteredAgents \subseteq 1..registered /\ RegisteredAgents \subseteq Agents /\ Min(Names) = 1
    BY <1>21, FirstName DEF Inv, TypeOK, RegistryShape, RegisteredAgents, Agents, StartKillAll
  <2>1. TypeOK'
    BY <1>21, <2>0 DEF Inv, TypeOK, StartKillAll
  <2>2. CallShape'
    BY <1>21, <2>0 DEF Inv, TypeOK, CallShape, StartKillAll
  <2>3. RegistryShape'
    BY <1>21, <2>0 DEF Inv, TypeOK, CallShape, RegistryShape, StartKillAll
  <2>4. Solvent'
    BY <1>21, <2>0 DEF Inv, TypeOK, CallShape, Solvent, StartKillAll
  <2>5. KillWalk'
    <3> SUFFICES ASSUME NEW u \in Tasks
                 PROVE  /\ targets'[u] \subseteq 1..registered'
                        /\ pc'[u] = "killNext" =>
                             /\ 1 <= name'[u]
                             /\ \A n \in Names : registry'[n] \in targets'[u] =>
                                  killed'[registry'[n]] \/ name'[u] <= n
      BY DEF KillWalk
    <3>1. CASE u = t
      <4>1. name'[t] = 1 /\ targets'[t] = RegisteredAgents /\ registered' = registered
        BY <1>21, <2>0 DEF Inv, TypeOK, StartKillAll
      <4> QED
        BY <2>0, <3>1, <4>1
    <3>2. CASE u # t
      BY <1>21, <3>2 DEF Inv, TypeOK, KillWalk, StartKillAll
    <3> QED
      BY <3>1, <3>2
  <2> QED
    BY <2>1, <2>2, <2>3, <2>4, <2>5 DEF Inv
<1>22. ASSUME NEW t \in Tasks, KillNext(t)
      PROVE  Inv'
  <2>1. TypeOK'
    BY <1>22 DEF Inv, TypeOK, KillNext
  <2>2. CallShape'
    BY <1>22 DEF Inv, TypeOK, CallShape, KillNext
  <2>3. RegistryShape'
    BY <1>22 DEF Inv, TypeOK, CallShape, RegistryShape, KillNext
  <2>4. Solvent'
    BY <1>22 DEF Inv, TypeOK, CallShape, Solvent, KillNext
  <2>5. KillWalk'
    BY <1>22 DEF Inv, TypeOK, CallShape, RegistryShape, KillWalk, RegisteredAgents, KillNext
  <2> QED
    BY <2>1, <2>2, <2>3, <2>4, <2>5 DEF Inv
<1>23. ASSUME NEW t \in Tasks, KillAllDone(t)
      PROVE  Inv'
  BY <1>23 DEF Inv, TypeOK, CallShape, RegistryShape, Solvent, KillWalk, KillAllDone
<1>24. CASE UNCHANGED vars
  BY <1>24 DEF vars, Inv, TypeOK, CallShape, RegistryShape, Solvent, KillWalk
<1> QED
  BY <1>1, <1>2, <1>3, <1>4, <1>5, <1>6, <1>7, <1>8, <1>9, <1>10, <1>11, <1>12, <1>13, <1>14, <1>15, <1>16, <1>17, <1>18, <1>19, <1>20, <1>21, <1>22, <1>23, <1>24 DEF Next
-------------------------------------------------------------------------------
\* Agents in use stay registered and agents being removed stay untouched.
LEMMA UsageNext ==
    ASSUME ~RemoveInUse, Inv, UsageInv, [Next]_vars
    PROVE  UsageInv'
<1> USE ConstantFacts
    DEF Inv, TypeOK, CallShape, Solvent, UsageInv, RemovedAlone, UsedRegistered, Measured,
        RegisteredAgents, Holds, Removals, Charges, Moves, Goto, Done, fleet, book, locals, dropped
<1>1. ASSUME NEW t \in Tasks, NEW n \in Names, NEW amount \in AgentLimits, RegisterAgent(t, n, amount)
      PROVE  UsageInv'
  BY <1>1 DEF RegisterAgent
<1>2. ASSUME NEW t \in Tasks, NEW n \in Names, RemoveAgent(t, n)
      PROVE  UsageInv'
  BY <1>2 DEF RemoveAgent
<1>3. ASSUME NEW t \in Tasks, RemoveReadSpent(t)
      PROVE  UsageInv'
  BY <1>3 DEF RemoveReadSpent
<1>4. ASSUME NEW t \in Tasks, RemoveReadLimit(t)
      PROVE  UsageInv'
  BY <1>4 DEF RemoveReadLimit
<1>5. ASSUME NEW t \in Tasks, Release(t)
      PROVE  UsageInv'
  BY <1>5 DEF Release
<1>6. ASSUME NEW t \in Tasks, NEW n \in Names, NEW cost \in Costs, StartCharge(t, n, cost)
      PROVE  UsageInv'
  <2>1. RemovedAlone'
    BY <1>6 DEF StartCharge, RegistryShape
  <2>2. UsedRegistered'
    BY <1>6 DEF StartCharge
  <2>3. Measured'
    BY <1>6 DEF StartCharge
  <2> QED
    BY <2>1, <2>2, <2>3
<1>7. ASSUME NEW t \in Tasks, PassKillCheck(t)
      PROVE  UsageInv'
  BY <1>7 DEF PassKillCheck
<1>8. ASSUME NEW t \in Tasks, RefuseKilled(t)
      PROVE  UsageInv'
  BY <1>8 DEF RefuseKilled
<1>9. ASSUME NEW t \in Tasks, Charge(t)
      PROVE  UsageInv'
  BY <1>9 DEF Charge
<1>10. ASSUME NEW t \in Tasks, ChargeDirect(t)
      PROVE  UsageInv'
  BY <1>10 DEF ChargeDirect
<1>11. ASSUME NEW t \in Tasks, RefuseExhausted(t)
      PROVE  UsageInv'
  BY <1>11 DEF RefuseExhausted
<1>12. ASSUME NEW t \in Tasks, RecordSpend(t)
      PROVE  UsageInv'
  BY <1>12 DEF RecordSpend
<1>13. ASSUME NEW t \in Tasks, NEW n \in Names, NEW amount \in Amounts, StartReallocate(t, n, amount)
      PROVE  UsageInv'
  <2>1. RemovedAlone'
    BY <1>13 DEF StartReallocate, RegistryShape
  <2>2. UsedRegistered'
    BY <1>13 DEF StartReallocate
  <2>3. Measured'
    BY <1>13 DEF StartReallocate
  <2> QED
    BY <2>1, <2>2, <2>3
<1>14. ASSUME NEW t \in Tasks, FindTo(t)
      PROVE  UsageInv'
  <2>1. RemovedAlone'
    BY <1>14 DEF FindTo, RegistryShape
  <2>2. UsedRegistered'
    BY <1>14 DEF FindTo
  <2>3. Measured'
    BY <1>14 DEF FindTo
  <2> QED
    BY <2>1, <2>2, <2>3
<1>15. ASSUME NEW t \in Tasks, NoTo(t)
      PROVE  UsageInv'
  BY <1>15 DEF NoTo
<1>16. ASSUME NEW t \in Tasks, ShrinkFrom(t)
      PROVE  UsageInv'
  BY <1>16 DEF ShrinkFrom
<1>17. ASSUME NEW t \in Tasks, ReallocationFailed(t)
      PROVE  UsageInv'
  BY <1>17 DEF ReallocationFailed
<1>18. ASSUME NEW t \in Tasks, GrowTo(t)
      PROVE  UsageInv'
  BY <1>18 DEF GrowTo
<1>19. ASSUME NEW t \in Tasks, Cancel(t)
      PROVE  UsageInv'
  BY <1>19 DEF Cancel
<1>20. ASSUME NEW t \in Tasks, NEW n \in Names, KillAgent(t, n)
      PROVE  UsageInv'
  BY <1>20 DEF KillAgent
<1>21. ASSUME NEW t \in Tasks, StartKillAll(t)
      PROVE  UsageInv'
  BY <1>21 DEF StartKillAll
<1>22. ASSUME NEW t \in Tasks, KillNext(t)
      PROVE  UsageInv'
  BY <1>22 DEF KillNext
<1>23. ASSUME NEW t \in Tasks, KillAllDone(t)
      PROVE  UsageInv'
  BY <1>23 DEF KillAllDone
<1>24. CASE UNCHANGED vars
  BY <1>24 DEF vars
<1> QED
  BY <1>1, <1>2, <1>3, <1>4, <1>5, <1>6, <1>7, <1>8, <1>9, <1>10, <1>11, <1>12, <1>13, <1>14, <1>15, <1>16, <1>17, <1>18, <1>19, <1>20, <1>21, <1>22, <1>23, <1>24 DEF Next
-------------------------------------------------------------------------------
InStage(p) == {u \in Tasks : pc[u] = p}

\* What a step of task t does to the sum of the amounts in a stage of a call.
LEMMA ArgStep ==
    ASSUME TypeOK, TypeOK', NEW p, NEW t \in Tasks,
           \A u \in Tasks \ {t} : pc'[u] = pc[u] /\ arg'[u] = arg[u]
    PROVE  /\ SumOf(arg, InStage(p)) \in Nat
           /\ SumOf(arg, InStage(p))'
                = SumOf(arg, InStage(p)) - (IF pc[t] = p THEN arg[t] ELSE 0)
                                         + (IF pc'[t] = p THEN arg'[t] ELSE 0)
<1> DEFINE S == InStage(p)
           T == InStage(p)'
           g == arg'
<1>1. IsFiniteSet(S) /\ IsFiniteSet(T)
  BY FleetAssumption, FS_Subset DEF InStage
<1>2. /\ S \ {t} = T \ {t}
      /\ \A u \in S : arg[u] \in Nat
      /\ \A u \in T : g[u] \in Nat
      /\ \A u \in S \ {t} : arg[u] = g[u]
  BY DEF TypeOK, InStage
<1>3. (t \in S <=> pc[t] = p) /\ (t \in T <=> pc'[t] = p)
  BY DEF InStage
<1>4. SumOf(arg, InStage(p))' = SumOf(g, T)
  OBVIOUS
<1> HIDE DEF S, T, g
<1>5. SumOf(arg, S) \in Nat
  BY <1>1, <1>2, SumNat
<1>6. SumOf(g, T) = SumOf(arg, S) - (IF t \in S THEN arg[t] ELSE 0)
                                  + (IF t \in T THEN g[t] ELSE 0)
  BY <1>1, <1>2, SumStep
<1> QED
  BY <1>3, <1>4, <1>5, <1>6 DEF S, g

\* What a charge of agent a does to the sum of all spends.
LEMMA SpentStep ==
    ASSUME TypeOK, NEW a \in Agents, NEW c \in Nat, spent' = [spent EXCEPT ![a] = @ + c]
    PROVE  /\ SumOf(spent, Agents) \in Nat
           /\ SumOf(spent', Agents) = SumOf(spent, Agents) + c
<1>1. IsFiniteSet(Agents)
  BY FS_Interval, ConstantFacts DEF Agents
<1>2. \A b \in Agents : spent[b] \in Nat /\ spent'[b] \in Nat /\ (b # a => spent[b] = spent'[b])
  BY DEF TypeOK
<1>3. SumOf(spent, Agents) \in Nat
  BY <1>1, <1>2, SumNat
<1>4. SumOf(spent', Agents) = SumOf(spent, Agents) - spent[a] + spent'[a]
  <2> DEFINE S == Agents
             g == spent'
  <2>1. IsFiniteSet(S) /\ a \in S /\ \A y \in S : spent[y] \in Nat /\ g[y] \in Nat /\ (y # a => spent[y] = g[y])
    BY <1>1, <1>2
  <2> HIDE DEF S, g
  <2>2. SumOf(g, S) = SumOf(spent, S) - spent[a] + g[a]
    BY <2>1, SumChange
  <2> QED
    BY <2>2 DEF S, g
<1>5. spent'[a] = spent[a] + c
  BY DEF TypeOK
<1> QED
  BY <1>2, <1>3, <1>4, <1>5

\* The fleet's counter, with what it has not heard of, follows the agents' spends.
LEMMA SpendNext ==
    ASSUME Inv, Inv', FleetSpendExact, [Next]_vars
    PROVE  FleetSpendExact'
<1> DEFINE Recording == SumOf(arg, InStage("record"))
           Total == SumOf(spent, Agents)
           Still(t) == \A u \in Tasks \ {t} : pc'[u] = pc[u] /\ arg'[u] = arg[u]
           Quiet(t) == /\ Still(t) /\ pc[t] # "record" /\ pc'[t] # "record"
                       /\ spent' = spent /\ fleetSpent' = fleetSpent /\ unrecorded' = unrecorded
<1> USE DEF Goto, Done, fleet, book, locals, dropped
<1>1. TypeOK /\ TypeOK'
  BY DEF Inv
<1>2. ASSUME NEW t \in Tasks, Still(t)
      PROVE  /\ Recording \in Nat
             /\ Recording' = Recording - (IF pc[t] = "record" THEN arg[t] ELSE 0)
                                      + (IF pc'[t] = "record" THEN arg'[t] ELSE 0)
  BY <1>1, <1>2, ArgStep
<1>3. ASSUME NEW t \in Tasks, from[t] \in Agents, arg[t] \in Nat,
             spent' = [spent EXCEPT ![from[t]] = @ + arg[t]]
      PROVE  Total \in Nat /\ Total' = Total + arg[t]
  BY <1>1, <1>3, SpentStep
<1>4. fleetSpent + unrecorded + Recording = Total
  BY DEF FleetSpendExact, InStage
<1>5. SUFFICES fleetSpent' + unrecorded' + Recording' = Total'
  BY DEF FleetSpendExact, InStage
<1>6. fleetSpent \in Nat /\ unrecorded \in Nat
  BY <1>1 DEF TypeOK
<1>7. spent' = spent => Total' = Total
  OBVIOUS
<1> HIDE DEF Recording, Total
<1>8. ASSUME NEW t \in Tasks, Quiet(t)
      PROVE  fleetSpent' + unrecorded' + Recording' = Total'
  BY <1>2, <1>4, <1>6, <1>7, <1>8
<1>9. ASSUME NEW t \in Tasks, Charge(t)
      PROVE  fleetSpent' + unrecorded' + Recording' = Total'
  <2>1. /\ Still(t) /\ pc[t] = "charge" /\ pc'[t] = "record" /\ arg'[t] = arg[t] /\ arg[t] \in Nat
        /\ from[t] \in Agents /\ spent' = [spent EXCEPT ![from[t]] = @ + arg[t]]
        /\ fleetSpent' = fleetSpent /\ unrecorded' = unrecorded
    BY <1>1, <1>9 DEF TypeOK, Inv, CallShape, Charges, Charge, None
  <2>2. Total' = Total + arg[t]
    BY <2>1, <1>3
  <2>3. Recording' = Recording + arg[t] /\ Recording \in Nat
    BY <2>1, <1>2
  <2> QED
    BY <2>1, <2>2, <2>3, <1>4, <1>6
<1>10. ASSUME NEW t \in Tasks, ChargeDirect(t)
       PROVE  fleetSpent' + unrecorded' + Recording' = Total'
  <2>1. /\ Still(t) /\ pc[t] = "charge" /\ pc'[t] = "idle" /\ arg[t] \in Nat
        /\ from[t] \in Agents /\ spent' = [spent EXCEPT ![from[t]] = @ + arg[t]]
        /\ fleetSpent' = fleetSpent /\ unrecorded' = unrecorded + arg[t]
    BY <1>1, <1>10 DEF TypeOK, Inv, CallShape, Charges, ChargeDirect, None
  <2>2. Total' = Total + arg[t]
    BY <2>1, <1>3
  <2>3. Recording' = Recording /\ Recording \in Nat
    BY <2>1, <1>2
  <2> QED
    BY <2>1, <2>2, <2>3, <1>4, <1>6
<1>11. ASSUME NEW t \in Tasks, RecordSpend(t)
       PROVE  fleetSpent' + unrecorded' + Recording' = Total'
  <2>1. /\ Still(t) /\ pc[t] = "record" /\ pc'[t] = "idle" /\ arg[t] \in Nat
        /\ spent' = spent /\ fleetSpent' = fleetSpent + arg[t] /\ unrecorded' = unrecorded
    BY <1>1, <1>11 DEF TypeOK, RecordSpend
  <2>2. Recording' = Recording - arg[t] /\ Recording \in Nat
    BY <2>1, <1>2
  <2> QED
    BY <2>1, <2>2, <1>4, <1>6, <1>7
<1>12. ASSUME NEW t \in Tasks, Cancel(t)
       PROVE  fleetSpent' + unrecorded' + Recording' = Total'
  <2>1. /\ Still(t) /\ pc'[t] = "idle" /\ arg[t] \in Nat
        /\ spent' = spent /\ fleetSpent' = fleetSpent
    BY <1>1, <1>12 DEF TypeOK, Cancel
  <2>2. CASE pc[t] = "record" /\ unrecorded' = unrecorded + arg[t]
    <3>1. Recording' = Recording - arg[t] /\ Recording \in Nat
      BY <2>1, <2>2, <1>2
    <3> QED
      BY <2>1, <2>2, <3>1, <1>4, <1>6, <1>7
  <2>3. CASE pc[t] = "grow" /\ unrecorded' = unrecorded
    <3>1. Quiet(t)
      BY <2>1, <2>3
    <3> QED
      BY <3>1, <1>8
  <2> QED
    BY <1>12, <2>2, <2>3 DEF Cancel
<1>13. ASSUME NEW t \in Tasks,
              \/ \E n \in Names, amount \in AgentLimits : RegisterAgent(t, n, amount)
              \/ \E n \in Names : RemoveAgent(t, n)
              \/ RemoveReadSpent(t)
              \/ RemoveReadLimit(t)
              \/ Release(t)
       PROVE  Quiet(t)
  BY <1>1, <1>13 DEF TypeOK, RegisterAgent, RemoveAgent, RemoveReadSpent, RemoveReadLimit, Release
<1>14. ASSUME NEW t \in Tasks,
              \/ \E n \in Names, cost \in Costs : StartCharge(t, n, cost)
              \/ PassKillCheck(t)
              \/ RefuseKilled(t)
              \/ RefuseExhausted(t)
       PROVE  Quiet(t)
  BY <1>1, <1>14 DEF TypeOK, StartCharge, PassKillCheck, RefuseKilled, RefuseExhausted
<1>15. ASSUME NEW t \in Tasks,
              \/ \E n \in Names, amount \in Amounts : StartReallocate(t, n, amount)
              \/ FindTo(t)
              \/ NoTo(t)
              \/ ShrinkFrom(t)
              \/ ReallocationFailed(t)
              \/ GrowTo(t)
       PROVE  Quiet(t)
  BY <1>1, <1>15 DEF TypeOK, StartReallocate, FindTo, NoTo, ShrinkFrom, ReallocationFailed, GrowTo
<1>16. ASSUME NEW t \in Tasks,
              \/ \E n \in Names : KillAgent(t, n)
              \/ StartKillAll(t)
              \/ KillNext(t)
              \/ KillAllDone(t)
       PROVE  Quiet(t)
  BY <1>1, <1>16 DEF TypeOK, KillAgent, StartKillAll, KillNext, KillAllDone
<1>17. CASE UNCHANGED vars
  <2>1. Recording' = Recording
    BY <1>17 DEF vars, Recording, InStage
  <2> QED
    BY <2>1, <1>17, <1>4, <1>7 DEF vars
<1> QED
  BY <1>8, <1>9, <1>10, <1>11, <1>12, <1>13, <1>14, <1>15, <1>16, <1>17 DEF Next

\* What a step that touches one agent does to the caps in force and to the
\* money the removed agents spent.
LEMMA BookStep ==
    ASSUME Inv, Inv', NEW a, LiveAgents' \ {a} = LiveAgents \ {a},
           RetiredAgents' \ {a} = RetiredAgents \ {a},
           \A b \in Agents \ {a} : spent'[b] = spent[b] /\ limit'[b] = limit[b]
    PROVE  /\ SumOf(limit, LiveAgents) \in Nat /\ SumOf(spent, RetiredAgents) \in Nat
           /\ SumOf(limit, LiveAgents)'
                = SumOf(limit, LiveAgents) - (IF a \in LiveAgents THEN limit[a] ELSE 0)
                                           + (IF a \in LiveAgents' THEN limit'[a] ELSE 0)
           /\ SumOf(spent, RetiredAgents)'
                = SumOf(spent, RetiredAgents) - (IF a \in RetiredAgents THEN spent[a] ELSE 0)
                                              + (IF a \in RetiredAgents' THEN spent'[a] ELSE 0)
<1> DEFINE L == LiveAgents  L2 == LiveAgents'  R == RetiredAgents  R2 == RetiredAgents'
           f == limit  f2 == limit'  g == spent  g2 == spent'
<1>1. L \subseteq Agents /\ R \subseteq Agents /\ L2 \subseteq Agents /\ R2 \subseteq Agents
  BY ConstantFacts DEF Inv, TypeOK, LiveAgents, RetiredAgents, Agents
<1>2. IsFiniteSet(Agents)
  BY FS_Interval, ConstantFacts DEF Agents
<1>3. /\ IsFiniteSet(L) /\ IsFiniteSet(L2) /\ IsFiniteSet(R) /\ IsFiniteSet(R2)
      /\ L \ {a} = L2 \ {a} /\ R \ {a} = R2 \ {a}
  BY <1>1, <1>2, FS_Subset
<1>4. \A b \in Agents : f[b] \in Nat /\ f2[b] \in Nat /\ g[b] \in Nat /\ g2[b] \in Nat
  BY DEF Inv, TypeOK
<1>5. \A b \in Agents \ {a} : f[b] = f2[b] /\ g[b] = g2[b]
  OBVIOUS
<1>6. SumOf(limit, LiveAgents)' = SumOf(f2, L2) /\ SumOf(spent, RetiredAgents)' = SumOf(g2, R2)
  OBVIOUS
<1> HIDE DEF L, L2, R, R2, f, f2, g, g2
<1>7. SumOf(f, L) \in Nat /\ SumOf(g, R) \in Nat
  BY <1>1, <1>3, <1>4, SumNat
<1>8. SumOf(f2, L2) = SumOf(f, L) - (IF a \in L THEN f[a] ELSE 0) + (IF a \in L2 THEN f2[a] ELSE 0)
  <2>1. /\ \A y \in L : f[y] \in Nat
        /\ \A y \in L2 : f2[y] \in Nat
        /\ \A y \in L \ {a} : f[y] = f2[y]
    BY <1>1, <1>4, <1>5
  <2> QED
    BY <1>3, <2>1, SumStep
<1>9. SumOf(g2, R2) = SumOf(g, R) - (IF a \in R THEN g[a] ELSE 0) + (IF a \in R2 THEN g2[a] ELSE 0)
  <2>1. /\ \A y \in R : g[y] \in Nat
        /\ \A y \in R2 : g2[y] \in Nat
        /\ \A y \in R \ {a} : g[y] = g2[y]
    BY <1>1, <1>4, <1>5
  <2> QED
    BY <1>3, <2>1, SumStep
<1> QED
  BY <1>6, <1>7, <1>8, <1>9 DEF L, L2, R, R2, f, f2, g, g2

\* The caps in force and the removed agents' spends are not touched by a step
\* that removes, registers, charges and resizes nothing.
LEMMA LiveKept ==
    ASSUME TypeOK, NEW t \in Tasks, registry' = registry, registered' = registered,
           \A u \in Tasks : pc'[u] \in Removals <=> pc[u] \in Removals,
           \A u \in Tasks : pc[u] \in Removals => from'[u] = from[u]
    PROVE  LiveAgents' = LiveAgents /\ RetiredAgents' = RetiredAgents
<1>1. \A a : Removing(a)' <=> Removing(a)
  BY DEF Removing, Removals
<1>2. RegisteredAgents' = RegisteredAgents
  BY DEF RegisteredAgents
<1>3. LiveAgents' = LiveAgents
  BY <1>1, <1>2 DEF LiveAgents
<1> QED
  BY <1>3 DEF RetiredAgents

\* A call other than a removal works on live agents.
LEMMA UsedLive ==
    ASSUME Inv, UsageInv, NEW t \in Tasks
    PROVE  /\ pc[t] \notin Removals /\ from[t] # None
                => from[t] \in LiveAgents /\ from[t] \notin RetiredAgents
           /\ to[t] # None => to[t] \in LiveAgents /\ to[t] \notin RetiredAgents
<1>1. /\ from[t] # None => from[t] \in 1..registered
      /\ to[t] # None => to[t] \in 1..registered
  BY ConstantFacts DEF Inv, TypeOK, CallShape, Agents
<1> QED
  BY <1>1 DEF UsageInv, UsedRegistered, LiveAgents, RetiredAgents

\* No promise is lost or made twice, in the middle of a removal or a move too.
LEMMA AllocationNext ==
    ASSUME ~RemoveInUse, Inv, Inv', UsageInv, UsageInv', AllocationExact, [Next]_vars
    PROVE  AllocationExact'
<1> DEFINE Live == SumOf(limit, LiveAgents)
           Gone == SumOf(spent, RetiredAgents)
           Moving == SumOf(arg, InStage("grow"))
           Exact == allocated = Live + Gone + Moving + lost
           Still(t) == \A u \in Tasks \ {t} : pc'[u] = pc[u] /\ arg'[u] = arg[u]
           SameSets == LiveAgents' = LiveAgents /\ RetiredAgents' = RetiredAgents
           Quiet(t) == /\ Still(t) /\ pc[t] # "grow" /\ pc'[t] # "grow"
                       /\ limit' = limit /\ spent' = spent
                       /\ allocated' = allocated /\ lost' = lost
<1> USE DEF Goto, Done, fleet, book, locals, dropped
<1>1. TypeOK /\ TypeOK' /\ allocated \in Nat /\ lost \in Nat
  BY ConstantFacts DEF Inv, TypeOK
<1>2. ASSUME NEW t \in Tasks, Still(t)
      PROVE  /\ Moving \in Nat
             /\ Moving' = Moving - (IF pc[t] = "grow" THEN arg[t] ELSE 0)
                                + (IF pc'[t] = "grow" THEN arg'[t] ELSE 0)
  BY <1>1, <1>2, ArgStep
<1>3. ASSUME NEW a, LiveAgents' \ {a} = LiveAgents \ {a},
             RetiredAgents' \ {a} = RetiredAgents \ {a},
             \A b \in Agents \ {a} : spent'[b] = spent[b] /\ limit'[b] = limit[b]
      PROVE  /\ Live \in Nat /\ Gone \in Nat
             /\ Live' = Live - (IF a \in LiveAgents THEN limit[a] ELSE 0)
                            + (IF a \in LiveAgents' THEN limit'[a] ELSE 0)
             /\ Gone' = Gone - (IF a \in RetiredAgents THEN spent[a] ELSE 0)
                            + (IF a \in RetiredAgents' THEN spent'[a] ELSE 0)
  BY <1>3, BookStep
<1>4. Exact
  BY DEF AllocationExact, Committed, InStage
<1>5. SUFFICES Exact'
  BY DEF AllocationExact, Committed, InStage
<1>6. SameSets /\ limit' = limit /\ spent' = spent => Live' = Live /\ Gone' = Gone
  OBVIOUS
<1> HIDE DEF Live, Gone, Moving
<1>7. ASSUME NEW t \in Tasks, Quiet(t), SameSets
      PROVE  Exact'
  <2>1. Moving' = Moving
    BY <1>2, <1>7
  <2> QED
    BY <2>1, <1>4, <1>6, <1>7

\* Registration, removal.
<1>8. ASSUME NEW t \in Tasks, NEW n \in Names, NEW amount \in AgentLimits, RegisterAgent(t, n, amount)
      PROVE  Exact'
  <2> DEFINE a == registered + 1
  <2>1. /\ a \in Agents /\ amount \in Nat /\ 1..registered' = (1..registered) \cup {a}
        /\ a \notin 1..registered /\ 1..registered \subseteq Agents
    BY SMTT(30), <1>1, <1>8, ConstantFacts DEF TypeOK, Agents, RegisterAgent
  <2>2. /\ RegisteredAgents' = RegisteredAgents \cup {a}
        /\ \A b : Removing(b)' <=> Removing(b)
    BY <1>1, <1>8, <2>1, ConstantFacts DEF TypeOK, RegisteredAgents, Removing, RegisterAgent
  <2>3. registered' = a /\ LiveAgents' = LiveAgents \cup {a} /\ a \notin LiveAgents
    BY <1>8, <2>1, <2>2 DEF LiveAgents, RegisterAgent
  <2>4. RetiredAgents' = RetiredAgents /\ a \notin RetiredAgents
    BY <2>1, <2>3 DEF RetiredAgents
  <2>5. /\ limit'[a] = amount
        /\ \A b \in Agents \ {a} : spent'[b] = spent[b] /\ limit'[b] = limit[b]
    BY <1>1, <1>8, <2>1 DEF TypeOK, RegisterAgent
  <2> HIDE DEF a
  <2>6. Live \in Nat /\ Gone \in Nat /\ Live' = Live + amount /\ Gone' = Gone
    BY <1>3, <2>1, <2>3, <2>4, <2>5
  <2>7. Moving' = Moving /\ Moving \in Nat
    BY <1>2, <1>8 DEF RegisterAgent
  <2>8. allocated' = allocated + amount /\ lost' = lost
    BY <1>8 DEF RegisterAgent, Allocate
  <2> QED
    BY <1>1, <1>4, <2>1, <2>6, <2>7, <2>8
<1>9. ASSUME NEW t \in Tasks, NEW n \in Names, RemoveAgent(t, n)
      PROVE  Exact'
  <2>1. Quiet(t)
    BY <1>1, <1>9 DEF TypeOK, RemoveAgent
  <2>2. registered' = registered
    BY <1>9 DEF RemoveAgent
  <2>3. RegisteredAgents' = RegisteredAgents \ {registry[n]}
    BY <1>1, <1>9, ConstantFacts DEF TypeOK, Inv, RegistryShape, RegisteredAgents, RemoveAgent
  <2>4. \A b : Removing(b)' <=> Removing(b) \/ b = registry[n]
    BY <1>1, <1>9, ConstantFacts DEF TypeOK, Removing, RemoveAgent
  <2>5. registry[n] \in RegisteredAgents
    BY <1>9 DEF RegisteredAgents, RemoveAgent
  <2>6. SameSets
    BY <2>2, <2>3, <2>4, <2>5 DEF LiveAgents, RetiredAgents
  <2> QED
    BY <2>1, <2>6, <1>7
<1>10. ASSUME NEW t \in Tasks, RemoveReadSpent(t) \/ RemoveReadLimit(t)
       PROVE  Exact'
  <2>1. Quiet(t)
    BY <1>1, <1>10 DEF TypeOK, RemoveReadSpent, RemoveReadLimit
  <2>2. SameSets
    BY <1>1, <1>10, LiveKept DEF TypeOK, Removals, RemoveReadSpent, RemoveReadLimit
  <2> QED
    BY <2>1, <2>2, <1>7
<1>11. ASSUME NEW t \in Tasks, Release(t)
       PROVE  Exact'
  <2> DEFINE a == from[t]
  <2>1. /\ a \in Agents /\ a \in 1..registered /\ pc[t] = "release" /\ pc'[t] = "idle"
        /\ arg[t] = limit[a] - spent[a] /\ spent[a] <= limit[a]
        /\ limit[a] \in Nat /\ spent[a] \in Nat
    BY <1>1, <1>11, ConstantFacts
    DEF TypeOK, Inv, CallShape, Solvent, UsageInv, Measured, Removals, Release, Agents
  <2>2. a \notin RegisteredAgents /\ Removing(a) /\ RegisteredAgents' = RegisteredAgents
    BY <1>11, <2>1 DEF Inv, RegistryShape, Removals, RegisteredAgents, Removing, Release
  <2>3. \A b : Removing(b)' <=> Removing(b) /\ b # a
    <3> SUFFICES ASSUME NEW b
                 PROVE  Removing(b)' <=> Removing(b) /\ b # a
      OBVIOUS
    <3>1. \A u \in Tasks \ {t} : /\ pc'[u] = pc[u] /\ from'[u] = from[u] /\ from[u] # a
      BY <1>1, <1>11, <2>1 DEF TypeOK, UsageInv, RemovedAlone, Removals, Holds, Release
    <3> QED
      BY <2>1, <3>1 DEF Removing
  <2>4. registered' = registered /\ limit' = limit /\ spent' = spent /\ lost' = lost
    BY <1>11 DEF Release
  <2>5. LiveAgents' = LiveAgents \ {a} /\ a \in LiveAgents
    BY <2>1, <2>2, <2>3, <2>4 DEF LiveAgents
  <2>6. RetiredAgents' = RetiredAgents \cup {a} /\ a \notin RetiredAgents
    BY <2>1, <2>4, <2>5 DEF RetiredAgents
  <2> HIDE DEF a
  <2>7. /\ Live \in Nat /\ Gone \in Nat
        /\ Live' = Live - limit[a] /\ Gone' = Gone + spent[a]
    BY <1>3, <2>1, <2>4, <2>5, <2>6
  <2>8. Live' \in Nat
    <3>1. Live' = SumOf(limit, LiveAgents \ {a})
      BY <2>4, <2>5 DEF Live
    <3>2. LiveAgents \ {a} \subseteq Agents /\ IsFiniteSet(Agents)
      <4>1. 1..registered \subseteq Agents
        BY <1>1, ConstantFacts DEF Agents, TypeOK
      <4>2. IsFiniteSet(Agents)
        BY FS_Interval, ConstantFacts DEF Agents
      <4> QED
        BY <4>1, <4>2 DEF LiveAgents
    <3>3. IsFiniteSet(LiveAgents \ {a}) /\ \A b \in LiveAgents \ {a} : limit[b] \in Nat
      BY <1>1, <3>2, FS_Subset DEF TypeOK
    <3> QED
      BY <3>1, <3>3, SumNat
  <2>9. Moving' = Moving /\ Moving \in Nat
    BY <1>1, <1>2, <1>11 DEF TypeOK, Release
  <2>10. allocated' = IF arg[t] <= allocated THEN allocated - arg[t] ELSE 0
    BY <1>11 DEF Release
  <2>11. arg[t] <= allocated
    BY <1>1, <1>4, <2>1, <2>7, <2>8, <2>9
  <2> QED
    BY <1>1, <1>4, <2>1, <2>4, <2>7, <2>9, <2>10, <2>11

\* Charges.
<1>12. ASSUME NEW t \in Tasks,
              \/ \E n \in Names, cost \in Costs : StartCharge(t, n, cost)
              \/ PassKillCheck(t) \/ RefuseKilled(t) \/ RefuseExhausted(t) \/ RecordSpend(t)
       PROVE  Exact'
  <2>1. Quiet(t)
    BY <1>1, <1>12
    DEF TypeOK, StartCharge, PassKillCheck, RefuseKilled, RefuseExhausted, RecordSpend
  <2>2. SameSets
    BY <1>1, <1>12, LiveKept
    DEF TypeOK, Removals, StartCharge, PassKillCheck, RefuseKilled, RefuseExhausted, RecordSpend
  <2> QED
    BY <2>1, <2>2, <1>7
<1>13. ASSUME NEW t \in Tasks, Charge(t) \/ ChargeDirect(t)
       PROVE  Exact'
  <2> DEFINE a == from[t]
  <2>1. pc[t] = "charge" /\ a # None /\ a \in LiveAgents /\ a \notin RetiredAgents
    BY <1>13, UsedLive DEF Inv, CallShape, Charges, Removals, Charge, ChargeDirect
  <2>2. SameSets
    BY <1>1, <1>13, LiveKept DEF TypeOK, Removals, Charge, ChargeDirect
  <2>3. /\ \A b \in Agents \ {a} : spent'[b] = spent[b] /\ limit'[b] = limit[b]
        /\ limit' = limit /\ allocated' = allocated /\ lost' = lost
        /\ Still(t) /\ pc'[t] # "grow"
    BY <1>1, <1>13 DEF TypeOK, Charge, ChargeDirect
  <2> HIDE DEF a
  <2>4. limit[a] \in Nat
    BY <1>1, <2>1, ConstantFacts DEF TypeOK, LiveAgents, Agents
  <2>5. Live' = Live /\ Gone' = Gone
    BY <1>3, <2>1, <2>2, <2>3, <2>4
  <2>6. Moving' = Moving
    BY <1>2, <2>1, <2>3
  <2> QED
    BY <1>4, <2>3, <2>5, <2>6

\* Moves.
<1>14. ASSUME NEW t \in Tasks,
              \/ \E n \in Names, amount \in Amounts : StartReallocate(t, n, amount)
              \/ FindTo(t) \/ NoTo(t) \/ ReallocationFailed(t)
       PROVE  Exact'
  <2>1. Quiet(t)
    BY <1>1, <1>14 DEF TypeOK, StartReallocate, FindTo, NoTo, ReallocationFailed
  <2>2. SameSets
    BY <1>1, <1>14, LiveKept
    DEF TypeOK, Removals, StartReallocate, FindTo, NoTo, ReallocationFailed
  <2> QED
    BY <2>1, <2>2, <1>7
<1>15. ASSUME NEW t \in Tasks, ShrinkFrom(t)
       PROVE  Exact'
  <2> DEFINE a == from[t]
  <2>1. /\ pc[t] = "shrink" /\ pc'[t] = "grow" /\ Still(t)
        /\ arg'[t] = arg[t] /\ arg[t] \in Nat
        /\ limit' = [limit EXCEPT ![a] = @ - arg[t]]
        /\ spent' = spent /\ allocated' = allocated /\ lost' = lost
    BY <1>1, <1>15 DEF TypeOK, ShrinkFrom
  <2>2. a # None /\ a \in LiveAgents /\ a \notin RetiredAgents
    BY <2>1, UsedLive DEF Inv, CallShape, Moves, Removals
  <2>3. SameSets
    BY <1>1, <1>15, LiveKept DEF TypeOK, Removals, ShrinkFrom
  <2>4. a \in Agents /\ limit[a] \in Nat
    BY <1>1, <2>2, ConstantFacts DEF TypeOK, LiveAgents, Agents
  <2>5. /\ limit'[a] = limit[a] - arg[t]
        /\ \A b \in Agents \ {a} : spent'[b] = spent[b] /\ limit'[b] = limit[b]
    BY <1>1, <2>1, <2>4 DEF TypeOK
  <2> HIDE DEF a
  <2>6. Live \in Nat /\ Gone \in Nat /\ Live' = Live - arg[t] /\ Gone' = Gone
    BY <1>3, <2>1, <2>2, <2>3, <2>4, <2>5
  <2>7. Moving \in Nat /\ Moving' = Moving + arg[t]
    BY <1>2, <2>1
  <2> QED
    BY <1>1, <1>4, <2>1, <2>6, <2>7
<1>16. ASSUME NEW t \in Tasks, GrowTo(t)
       PROVE  Exact'
  <2> DEFINE a == to[t]
  <2>1. /\ pc[t] = "grow" /\ pc'[t] = "idle" /\ Still(t) /\ arg[t] \in Nat
        /\ limit' = [limit EXCEPT ![a] = @ + arg[t]]
        /\ spent' = spent /\ allocated' = allocated /\ lost' = lost
    BY <1>1, <1>16 DEF TypeOK, GrowTo
  <2>2. a # None /\ a \in LiveAgents /\ a \notin RetiredAgents
    BY <2>1, UsedLive DEF Inv, CallShape, Moves
  <2>3. SameSets
    BY <1>1, <1>16, LiveKept DEF TypeOK, Removals, GrowTo
  <2>4. a \in Agents /\ limit[a] \in Nat
    BY <1>1, <2>2, ConstantFacts DEF TypeOK, LiveAgents, Agents
  <2>5. /\ limit'[a] = limit[a] + arg[t]
        /\ \A b \in Agents \ {a} : spent'[b] = spent[b] /\ limit'[b] = limit[b]
    BY <1>1, <2>1, <2>4 DEF TypeOK
  <2> HIDE DEF a
  <2>6. Live \in Nat /\ Gone \in Nat /\ Live' = Live + arg[t] /\ Gone' = Gone
    BY <1>3, <2>1, <2>2, <2>3, <2>4, <2>5
  <2>7. Moving \in Nat /\ Moving' = Moving - arg[t]
    BY <1>2, <2>1
  <2> QED
    BY <1>1, <1>4, <2>1, <2>6, <2>7
<1>17. ASSUME NEW t \in Tasks, Cancel(t)
       PROVE  Exact'
  <2>1. /\ Still(t) /\ pc'[t] = "idle" /\ arg[t] \in Nat
        /\ limit' = limit /\ spent' = spent /\ allocated' = allocated
    BY <1>1, <1>17 DEF TypeOK, Cancel
  <2>2. SameSets
    BY <1>1, <1>17, LiveKept DEF TypeOK, Removals, Cancel
  <2>3. CASE pc[t] = "record" /\ lost' = lost
    <3>1. Quiet(t)
      BY <2>1, <2>3
    <3> QED
      BY <3>1, <2>2, <1>7
  <2>4. CASE pc[t] = "grow" /\ lost' = lost + arg[t]
    <3>1. Moving' = Moving - arg[t] /\ Moving \in Nat
      BY <2>1, <2>4, <1>2
    <3>2. Live' = Live /\ Gone' = Gone
      BY <2>1, <2>2, <1>6
    <3>3. Live \in Nat /\ Gone \in Nat
      BY <2>1, <2>2, <1>3
    <3> QED
      BY <1>1, <1>4, <2>1, <2>4, <3>1, <3>2, <3>3
  <2> QED
    BY <1>17, <2>3, <2>4 DEF Cancel

\* Kills.
<1>18. ASSUME NEW t \in Tasks,
              (\E n \in Names : KillAgent(t, n)) \/ StartKillAll(t) \/ KillNext(t) \/ KillAllDone(t)
       PROVE  Exact'
  <2>1. Quiet(t)
    BY <1>1, <1>18 DEF TypeOK, KillAgent, StartKillAll, KillNext, KillAllDone
  <2>2. SameSets
    BY <1>1, <1>18, LiveKept DEF TypeOK, Removals, KillAgent, StartKillAll, KillNext, KillAllDone
  <2> QED
    BY <2>1, <2>2, <1>7
<1>19. CASE UNCHANGED vars
  <2>1. SameSets
    BY <1>19 DEF vars, LiveAgents, RetiredAgents, RegisteredAgents, Removing
  <2>2. Live' = Live /\ Gone' = Gone /\ allocated' = allocated /\ lost' = lost
    BY <1>6, <1>19, <2>1 DEF vars
  <2>3. Moving' = Moving
    BY <1>19 DEF vars, Moving, InStage
  <2> QED
    BY <1>4, <2>2, <2>3
<1> QED
  BY <1>8, <1>9, <1>10, <1>11, <1>12, <1>13, <1>14, <1>15, <1>16, <1>17, <1>18, <1>19 DEF Next

\* Agents together have spent no more than what is promised to them.
LEMMA SpentPromised ==
    ASSUME Inv, AllocationExact
    PROVE  FleetCap
<1> DEFINE L == LiveAgents
           R == RetiredAgents
           Z == Agents \ (L \cup R)
           A == Agents
           M == InStage("grow")
<1>1. IsFiniteSet(A)
  BY FS_Interval, ConstantFacts DEF Agents
<1>2. L \cup R = 1..registered /\ L \cap R = {} /\ 1..registered \subseteq A
  BY ConstantFacts DEF Inv, TypeOK, LiveAgents, RetiredAgents, Agents
<1>3. \A a \in A : spent[a] \in Nat /\ limit[a] \in Nat /\ spent[a] <= limit[a]
  BY DEF Inv, TypeOK, Solvent
<1>4. \A a \in Z : spent[a] = 0
  <2> SUFFICES ASSUME NEW a \in Z
               PROVE  spent[a] = 0
    OBVIOUS
  <2>1. a \in A /\ a \notin 1..registered
    BY <1>2
  <2>2. registered \in Nat /\ a \in Nat /\ 1 <= a
    BY <2>1, ConstantFacts DEF Inv, TypeOK
  <2>3. limit[a] = 0
    BY <2>1, <2>2 DEF Inv, Solvent
  <2> QED
    BY <1>3, <2>1, <2>3
<1>5. IsFiniteSet(M) /\ \A t \in M : arg[t] \in Nat
  BY FleetAssumption, FS_Subset DEF Inv, TypeOK, InStage
<1>6. allocated = SumOf(limit, L) + SumOf(spent, R) + SumOf(arg, M) + lost
  BY DEF AllocationExact, Committed, InStage
<1>7. allocated \in Nat /\ allocated <= FleetLimit /\ lost \in Nat /\ FleetLimit \in Nat
  BY ConstantFacts DEF Inv, TypeOK
<1>8. L \subseteq A /\ R \subseteq A /\ Z \subseteq A /\ (L \cup R) \cup Z = A /\ (L \cup R) \cap Z = {}
  BY <1>2
<1> HIDE DEF L, R, Z, A, M
<1>9. IsFiniteSet(L) /\ IsFiniteSet(R) /\ IsFiniteSet(Z) /\ IsFiniteSet(L \cup R)
  BY <1>1, <1>8, FS_Subset, FS_Union
<1>10. /\ SumOf(limit, L) \in Nat /\ SumOf(spent, L) \in Nat
       /\ SumOf(spent, R) \in Nat /\ SumOf(arg, M) \in Nat
  <2>1. \A a \in L : spent[a] \in Nat /\ limit[a] \in Nat
    BY <1>3, <1>8
  <2>2. \A a \in R : spent[a] \in Nat
    BY <1>3, <1>8
  <2> QED
    BY <1>5, <1>9, <2>1, <2>2, SumNat
<1>11. SumOf(spent, L) <= SumOf(limit, L)
  BY <1>3, <1>8, <1>9, SumMonotone
<1>12. SumOf(spent, L \cup R) = SumOf(spent, L) + SumOf(spent, R)
  <2>1. \A a \in L \cup R : spent[a] \in Nat
    BY <1>3, <1>8
  <2> QED
    BY <1>2, <1>9, <2>1, SumUnion
<1>13. SumOf(spent, Z) = 0
  BY <1>4, <1>9, SumZero
<1>14. SumOf(spent, A) = SumOf(spent, L \cup R) + SumOf(spent, Z)
  <2> DEFINE LR == L \cup R
  <2>1. IsFiniteSet(LR) /\ LR \cap Z = {} /\ LR \cup Z = A /\ \A a \in LR \cup Z : spent[a] \in Nat
    BY <1>3, <1>8, <1>9
  <2> HIDE DEF LR
  <2>2. SumOf(spent, LR \cup Z) = SumOf(spent, LR) + SumOf(spent, Z)
    BY <1>9, <2>1, SumUnion
  <2> QED
    BY <2>1, <2>2 DEF LR
<1> QED
  BY <1>6, <1>7, <1>10, <1>11, <1>12, <1>13, <1>14 DEF FleetCap, A

-------------------------------------------------------------------------------
LEMMA InitSums ==
    ASSUME Init
    PROVE  UsageInv /\ AllocationExact /\ FleetSpendExact
<1>1. UsageInv
  BY ConstantFacts
  DEF Init, UsageInv, RemovedAlone, UsedRegistered, Measured, Removals, None
<1>2. LiveAgents = {} /\ RetiredAgents = {} /\ InStage("grow") = {} /\ InStage("record") = {}
  BY DEF Init, LiveAgents, RetiredAgents, InStage
<1>3. AllocationExact
  BY <1>2, SumEmpty DEF Init, AllocationExact, Committed, InStage
<1>4. SumOf(spent, Agents) = 0
  <2>1. IsFiniteSet(Agents) /\ \A a \in Agents : spent[a] = 0
    BY FS_Interval, ConstantFacts DEF Agents, Init
  <2> QED
    BY <2>1, SumZero
<1>5. FleetSpendExact
  BY <1>2, <1>4, SumEmpty DEF Init, FleetSpendExact, InStage
<1> QED
  BY <1>1, <1>3, <1>5

\* The parts of the inductive invariant hold in every state, whether or not
\* agents in use may be removed.
THEOREM InvAlways == Spec => []Inv
<1>1. Init => Inv
  BY InitInv
<1>2. Inv /\ [Next]_vars => Inv'
  BY InvNext
<1> QED
  BY <1>1, <1>2, PTL DEF Spec

\* Every variable keeps its type; allocated_nanos never passes the fleet limit.
THEOREM TypeCorrect == Spec => []TypeOK
<1>1. Inv => TypeOK
  BY DEF Inv
<1> QED
  BY <1>1, InvAlways, PTL

\* kill_all misses no agent that was registered before it began and still is,
\* though tasks register, remove, charge and move meanwhile.
THEOREM KillAllComplete == Spec => []KillAllReaches
<1>1. Inv => KillAllReaches
  <2> SUFFICES ASSUME Inv, NEW t \in Tasks, pc[t] = "killNext", name[t] \notin Names,
                      NEW n \in Names, registry[n] \in targets[t], registry[n] # None
               PROVE  killed[registry[n]]
    BY DEF KillAllReaches, RegisteredAgents
  <2>1. killed[registry[n]] \/ name[t] <= n
    BY DEF Inv, KillWalk
  <2>2. 1 <= name[t] /\ name[t] \in Nat
    BY DEF Inv, KillWalk, TypeOK
  <2>3. ~ name[t] <= n
    BY <2>2, FleetAssumption, FS_CardinalityType
  <2> QED
    BY <2>1, <2>3
<1> QED
  BY <1>1, InvAlways, PTL

\* The fleet's spend counter and what it has not heard of add up to what the
\* agents spent, whether or not agents in use may be removed.
THEOREM SpendAlways == Spec => []FleetSpendExact
<1>1. Init => FleetSpendExact
  BY InitSums
<1>2. Inv /\ Inv' /\ FleetSpendExact /\ [Next]_vars => FleetSpendExact'
  BY SpendNext
<1> QED
  BY <1>1, <1>2, InvAlways, PTL DEF Spec

\* When no agent is removed while a task uses it, allocated_nanos is exactly
\* what the fleet has promised, at every step of every operation.
THEOREM AllocationAlways ==
    ASSUME ~RemoveInUse
    PROVE  Spec => []AllocationExact
<1>1. Init => UsageInv /\ AllocationExact
  BY InitSums
<1>2. Inv /\ UsageInv /\ [Next]_vars => UsageInv'
  BY UsageNext
<1>3. Inv /\ Inv' /\ UsageInv /\ UsageInv' /\ AllocationExact /\ [Next]_vars => AllocationExact'
  BY AllocationNext
<1> QED
  BY <1>1, <1>2, <1>3, InvAlways, PTL DEF Spec

\* Then all agents together, those removed included, never spend more than the
\* fleet's total.
THEOREM FleetCapped ==
    ASSUME ~RemoveInUse
    PROVE  Spec => []FleetCap
<1>1. Inv /\ AllocationExact => FleetCap
  BY SpentPromised
<1> QED
  BY <1>1, InvAlways, AllocationAlways, PTL

-------------------------------------------------------------------------------
(***************************************************************************)
(* The fleet seen from outside: one budget under the fleet's total, which  *)
(* nothing raises or lowers.                                               *)
(***************************************************************************)
Fleet ==
    INSTANCE HardCap WITH accepted <- SumOf(spent, Agents), cap <- FleetLimit,
                          InitialLimit <- FleetLimit,
                          ShrinkAmounts <- {}, GrowAmounts <- {}

FleetIsHardCap == Fleet!Spec

\* What a charge works with is what it was called for.
CostKept == \A t \in Tasks : pc[t] \in {"killCheck", "charge"} => arg[t] \in Costs

LEMMA CostKeptNext ==
    ASSUME TypeOK, CostKept, [Next]_vars
    PROVE  CostKept'
<1> USE DEF CostKept, TypeOK, Goto, Done, fleet, book, locals, dropped
<1>1. ASSUME NEW t \in Tasks, NEW n \in Names, NEW cost \in Costs, StartCharge(t, n, cost)
      PROVE  CostKept'
  BY <1>1 DEF StartCharge
<1>2. ASSUME NEW t \in Tasks, PassKillCheck(t)
      PROVE  CostKept'
  BY <1>2 DEF PassKillCheck
<1>3. ASSUME NEW t \in Tasks,
             \/ RefuseKilled(t) \/ Charge(t) \/ ChargeDirect(t) \/ RefuseExhausted(t)
             \/ RecordSpend(t) \/ Cancel(t)
      PROVE  CostKept'
  BY <1>3 DEF RefuseKilled, Charge, ChargeDirect, RefuseExhausted, RecordSpend, Cancel
<1>4. ASSUME NEW t \in Tasks,
             \/ \E n \in Names, amount \in AgentLimits : RegisterAgent(t, n, amount)
             \/ \E n \in Names : RemoveAgent(t, n)
             \/ RemoveReadSpent(t) \/ RemoveReadLimit(t) \/ Release(t)
      PROVE  CostKept'
  BY <1>4 DEF RegisterAgent, RemoveAgent, RemoveReadSpent, RemoveReadLimit, Release
<1>5. ASSUME NEW t \in Tasks,
             \/ \E n \in Names, amount \in Amounts : StartReallocate(t, n, amount)
             \/ FindTo(t) \/ NoTo(t) \/ ShrinkFrom(t) \/ ReallocationFailed(t) \/ GrowTo(t)
      PROVE  CostKept'
  BY <1>5 DEF StartReallocate, FindTo, NoTo, ShrinkFrom, ReallocationFailed, GrowTo
<1>6. ASSUME NEW t \in Tasks,
             \/ \E n \in Names : KillAgent(t, n)
             \/ StartKillAll(t) \/ KillNext(t) \/ KillAllDone(t)
      PROVE  CostKept'
  BY <1>6 DEF KillAgent, StartKillAll, KillNext, KillAllDone
<1>7. CASE UNCHANGED vars
  BY <1>7 DEF vars
<1> QED
  BY <1>1, <1>2, <1>3, <1>4, <1>5, <1>6, <1>7 DEF Next

\* A step leaves all spends alone or is a charge that its agent accepts.
LEMMA SpendingStep ==
    ASSUME Inv, [Next]_vars
    PROVE  \/ spent' = spent
           \/ \E t \in Tasks : /\ pc[t] = "charge"
                               /\ spent' = [spent EXCEPT ![from[t]] = @ + arg[t]]
  BY DEF Next, vars, fleet, book, locals, dropped,
     RegisterAgent, RemoveAgent, RemoveReadSpent, RemoveReadLimit, Release, StartCharge,
     PassKillCheck, RefuseKilled, Charge, ChargeDirect, RefuseExhausted, RecordSpend,
     StartReallocate, FindTo, NoTo, ShrinkFrom, ReallocationFailed, GrowTo, Cancel,
     KillAgent, StartKillAll, KillNext, KillAllDone

\* When no agent is removed while a task uses it, the agents together are one
\* AtomicBudget under the fleet's total: a charge that an agent accepts fits
\* what all agents, removed ones included, have left of it, and no other
\* operation touches either (FleetAllocator, FleetBudget).
THEOREM FleetRefinement ==
    ASSUME ~RemoveInUse
    PROVE  Spec => FleetIsHardCap
<1>1. Init => Fleet!Init /\ CostKept
  <2> SUFFICES ASSUME Init PROVE Fleet!Init /\ CostKept
    OBVIOUS
  <2>1. SumOf(spent, Agents) = 0
    <3>1. IsFiniteSet(Agents)
      BY FS_Interval, ConstantFacts DEF Agents
    <3>2. \A a \in Agents : spent[a] = 0
      BY DEF Init
    <3> QED
      BY <3>1, <3>2, SumZero
  <2> QED
    BY <2>1 DEF Fleet!Init, Init, CostKept
<1>2. Inv /\ Inv' /\ CostKept /\ FleetCap' /\ [Next]_vars => [Fleet!Next]_(Fleet!vars)
  <2> SUFFICES ASSUME Inv, CostKept, FleetCap', [Next]_vars
               PROVE  [Fleet!Next]_(Fleet!vars)
    OBVIOUS
  <2>1. CASE spent' = spent
    BY <2>1 DEF Fleet!vars, Agents
  <2>2. ASSUME NEW t \in Tasks, pc[t] = "charge",
               spent' = [spent EXCEPT ![from[t]] = @ + arg[t]]
        PROVE  Fleet!Next
    <3>1. from[t] \in Agents /\ arg[t] \in Nat /\ arg[t] \in Costs
      BY <2>2, ConstantFacts DEF Inv, TypeOK, CallShape, Charges, CostKept
    <3>2. /\ SumOf(spent, Agents) \in Nat
          /\ SumOf(spent, Agents)' = SumOf(spent, Agents) + arg[t]
      BY <2>2, <3>1, SpentStep DEF Inv, Agents
    <3>3. SumOf(spent, Agents)' <= FleetLimit
      BY DEF FleetCap
    <3>4. Fleet!Accept(arg[t])
      BY <3>2, <3>3 DEF Fleet!Accept
    <3> QED
      BY <3>1, <3>4 DEF Fleet!Next
  <2> QED
    BY <2>1, <2>2, SpendingStep
<1>3. TypeOK /\ CostKept /\ [Next]_vars => CostKept'
  BY CostKeptNext
<1> QED
  BY <1>1, <1>2, <1>3, InvAlways, TypeCorrect, FleetCapped, PTL
  DEF Spec, FleetIsHardCap, Fleet!Spec
===============================================================================
