SPECIFICATION Spec
CONSTANTS
    Callers = {c1, c2}
    TokenLimit = 3
    RequestLimit = 2
    CallTokens = {0, 2, 4}
    Minute = 6
    Micro = 2
    Milli = 2
    MaxTime = 7
SYMMETRY CallerSymmetry
INVARIANTS
    QuotaKept
    PatientCallerPasses
PROPERTIES
    NeverTooEarly
