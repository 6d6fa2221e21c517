SPECIFICATION Spec
CONSTANTS
    Workers = {w1, w2}
    Snapshots = {p1, p2}
    Charges = {c1}
    Changes = {r1, r2}
    Agents <- ThreeAgents
    ShardOf <- TwoShards
    PollBudget = 2
CHECK_DEADLOCK FALSE
INVARIANTS
    StuckForWantOfWorkers
PROPERTIES
    EndsUnlessStuck
