SPECIFICATION Spec
CONSTANTS
    Values = {1}
    Null = 0
    Nullable = TRUE
    RowCap = 1
    MaxFileBytes = 12
    MaxRecordBytes = 4
    MaxRecords = 2
    Paths = {p1, p2}
    MaxBatch = 1
    Holes = FALSE
PROPERTIES
    ImplementsDurableTable
CHECK_DEADLOCK FALSE
