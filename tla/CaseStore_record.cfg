SPECIFICATION Spec
SYMMETRY AnyName
CONSTANTS
    Names = {n1, n2}
    MaxDocs = 2
    MaxSaves = 3
    MaxLost = 1
    MaxRejected = 1
    MaxEvictions = 1
INVARIANTS
    TypeOK
    RecordAgrees
    CaseStaysOpen
PROPERTIES
    UploadAddsOnly
CHECK_DEADLOCK FALSE
