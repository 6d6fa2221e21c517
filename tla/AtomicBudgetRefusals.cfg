SPECIFICATION Spec
CONSTANTS
    Threads = {t1, t2, t3}
    InitialLimit = 3
    Costs = {1, 2}
    ShrinkAmounts = {2}
    GrowAmounts = {}
    MaxNanos = 5
    GrowBound = 3
SYMMETRY ThreadSymmetry
INVARIANTS
    FittingChargeAccepted
