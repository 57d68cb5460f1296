SPECIFICATION FairSpec
CONSTANTS
    Objects = {o1, o2, o3}
    NoObject = none
    Ttl = 6
    Period = 2
    Lag = 1
    MaxErrors = 1
    MaxForced = 1
INVARIANTS
    TypeOK
    HoldersAgree
PROPERTIES
    ImplementsLease
    KeyIsFreed
CHECK_DEADLOCK FALSE
