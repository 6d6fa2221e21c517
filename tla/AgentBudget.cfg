SPECIFICATION AgentSpec
CONSTANTS
    Callers = {c1, c2}
    Movers = {m1}
    Threads = {c1, c2, m1}
    InitialLimit = 6000
    Costs <- PricedCosts
    ShrinkAmounts = {3000}
    GrowAmounts = {3000}
    MaxNanos = 20000
    GrowBound = 6000
    InitialTier = 1
    PressurePct = 40
    Requests <- OneToken
    ExactCosts = {3600}
    MaxAttempts = 2
    MayCancel = TRUE
SYMMETRY TaskSymmetry
INVARIANTS
    AgentTypeOK
    OneLateChargeEach
    RefusalHasReason
    AuditComplete
    AuditOrderedApart
    AttemptsCounted
    GaugeCurrent
    PressureNoticed
PROPERTIES
    DowngradeJustified
