SPECIFICATION Spec
CONSTANTS
    Tasks = {t1, t2}
    Sessions <- OneSession
    MaxSaves = 2
    SerialSaves = FALSE
SYMMETRY TaskSymmetry
INVARIANTS
    FileComplete
