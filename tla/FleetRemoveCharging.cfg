SPECIFICATION Spec
CONSTANTS
    Tasks = {t1, t2}
    Names = {1, 2}
    FleetLimit = 2
    AgentLimits = {2}
    Costs = {2}
    Amounts = {}
    MaxAgents = 2
    MayCancel = FALSE
    RemoveInUse = TRUE
SYMMETRY TaskSymmetry
INVARIANTS
    FleetCap
