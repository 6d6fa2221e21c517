SPECIFICATION FairSpec
CONSTANTS
    r1 = r1
    r2 = r2
    c1 = c1
    MaxU64 = 7
    Runs = {r1, r2}
    Callers = {c1}
    InitialLimit = 3
    Entries <- MCEntries
    OwnModel <- MCOwnModel
    Model <- MCModel
    ListPrice <- MCListPrice
    Tokenizers <- MCTokenizers
    KillOnRefusal = {r1}
    Calls <- MCCalls
    GrowAmounts = {1}
    GrowBound = 4
    MaxRuns <- MCMaxRuns
    MayDrop = TRUE
INVARIANTS
    TypeOK
    BillAccounted
    OneUnchargedTurn
    OneLateTurn
    SpentOrKilledPaysNothing
PROPERTIES
    RunsEnd
