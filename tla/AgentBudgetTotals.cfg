SPECIFICATION AgentSpec
CONSTANTS
    Callers = {c1}
    Movers = {m1, m2}
    Threads = {c1, m1, m2}
    InitialLimit = 6000
    Costs <- PricedCosts
    ShrinkAmounts = {3000}
    GrowAmounts = {3000}
    MaxNanos = 20000
    GrowBound = 9000
    InitialTier = 1
    PressurePct = 40
    Requests = {}
    ExactCosts = {1000}
    MaxAttempts = 0
    MayCancel = FALSE
INVARIANTS
    TotalBudgetInStep
