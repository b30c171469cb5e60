SPECIFICATION Spec
CONSTANTS
    Values = {1}
    Null = 0
    Nullable = TRUE
    RowCap = 1
    MaxFileBytes = 18
    MaxRecordBytes = 5
    MaxRecords = 3
    Paths = {p1}
    MaxBatch = 1
    Holes = TRUE
INVARIANTS
    RecoverySound
CHECK_DEADLOCK FALSE
