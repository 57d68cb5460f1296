SPECIFICATION FairSpec
CONSTANTS
    Docs = {d1, d2}
    Initial = {d1}
    ActsOn <- OfferedFor
    MaxRetries = 1
    MaxPipelines = 2
    MaxReplacements = 0
    MaxFaults = 1
    FaultKinds = {"crash", "final"}
PROPERTIES
    PipelineEnds
CHECK_DEADLOCK FALSE
