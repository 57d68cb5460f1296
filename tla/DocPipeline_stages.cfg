SPECIFICATION Spec
CONSTANTS
    Docs = {d1, d2}
    Initial = {d1}
    ActsOn <- OfferedFor
    MaxRetries = 1
    MaxPipelines = 2
    MaxReplacements = 1
    MaxFaults = 1
    FaultKinds = {"crash", "broker"}
INVARIANTS
    TypeOK
    ActiveHoldsLock
    StructuredMatchesFile
    FinalizedIsDecided
    CompleteIsComplete
CHECK_DEADLOCK FALSE
