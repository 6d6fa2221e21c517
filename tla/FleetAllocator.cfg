SPECIFICATION Spec
CONSTANTS
    Tasks = {t1, t2}
    Names = {1, 2}
    FleetLimit = 2
    AgentLimits = {1, 2}
    Costs = {1}
    Amounts = {1}
    MaxAgents = 3
    MayCancel = TRUE
    RemoveInUse = FALSE
SYMMETRY TaskSymmetry
INVARIANTS
    TypeOK
    FleetCap
    AllocationExact
    FleetSpendExact
    KillAllReaches
