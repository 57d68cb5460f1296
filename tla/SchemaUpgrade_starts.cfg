SPECIFICATION FairSpec
CONSTANTS
    Links = {l1, l2}
    MaxSaves = 1
    MaxStarts = 1
    MaxFaults = 2
INVARIANTS
    TypeOK
    PauseIsReadable
PROPERTIES
    RepeatsAgree
    NewestIsKept
    StartsEnd
CHECK_DEADLOCK FALSE
