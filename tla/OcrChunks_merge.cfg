SPECIFICATION Spec
CONSTANTS
    CHUNK_SIZE = 3
    CHUNK_OVERLAP = 1
    MAX_RETRIES = 2
    Layouts <- Documents
    Shifts = {0, 1}
    MaxReruns = 1
INVARIANTS
    TypeOK
    EachPageOnce
    SplitsAreMended
CHECK_DEADLOCK FALSE
