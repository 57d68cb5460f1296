SPECIFICATION FairSpec
CONSTANTS
    Docs = {d1, d2, ec}
    ChainOnly = {ec}
    Needs = {n1}
    TextLen = 2
    Budget = 2
    Extension = 1
    HardCap = 4
    MaxBatch = 2
    MaxSessions = 2
INVARIANTS
    TypeOK
    CitationsWereRead
    ReportAgrees
    BudgetIsBounded
PROPERTIES
    CompletedWasRead
    SessionEnds
CHECK_DEADLOCK FALSE
