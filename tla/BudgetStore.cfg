SPECIFICATION Spec
CONSTANTS
    Tasks = {t1, t2}
    Sessions <- TwoSessions
    MaxSaves = 3
    SerialSaves = TRUE
SYMMETRY TaskSymmetry
INVARIANTS
    TypeOK
    FileComplete
    AckedSurvives
    ListFaithful
    CacheCoherentApart
