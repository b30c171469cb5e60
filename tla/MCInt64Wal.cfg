SPECIFICATION Spec
CONSTANTS
    Values = {1, 2}
    Null = 0
    Nullable = FALSE
    RowCap = 2
    MaxFileBytes = 18
    MaxRecordBytes = 5
    MaxRecords = 3
    Paths = {p1}
    MaxBatch = 2
    Holes = FALSE
INVARIANTS
    RecoveryComplete
    MemoryMatchesLog
    WriterAccounting
PROPERTIES
    AckedBytesStable
CHECK_DEADLOCK FALSE
