SPECIFICATION Spec
CONSTANTS
    Owners = {p1, p2}
    NoOwner = nobody
    MaxLinks = 2
    MaxSaves = 3
    MaxRuns = 2
    MaxFaults = 1
INVARIANTS
    TypeOK
    ServedIsCurrent
    RecordedIsSound
CHECK_DEADLOCK FALSE
