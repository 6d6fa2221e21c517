SPECIFICATION ReadersSpec
CONSTANTS
    Threads = {t1, t2}
    Readers = {r1}
    InitialLimit = 2
    Costs = {1, 2}
    ShrinkAmounts = {0, 2}
    GrowAmounts = {1}
    MaxNanos = 5
    GrowBound = 3
SYMMETRY ThreadSymmetry
INVARIANTS
    RemainingNotOverstated
    UtilizationAtMostOne
    RefusalExplained
    ShortfallReported
