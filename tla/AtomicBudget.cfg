SPECIFICATION FairSpec
CONSTANTS
    Threads = {t1, t2, t3}
    InitialLimit = 2
    Costs = {1, 2}
    ShrinkAmounts = {1}
    GrowAmounts = {1}
    MaxNanos = 4
    GrowBound = 2
INVARIANTS
    TypeOK
    NeverOverspent
    Ledger
PROPERTIES
    ImplementsHardCap
    CallsReturn
