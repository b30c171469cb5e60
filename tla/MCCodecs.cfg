CONSTANTS
  Base = 4
  SavedValues = {0, 5}
  Null = 99
  MaxLength = 3
  CodecLimits <- EveryLimits
  Values = {1, 2}
  RowCap = 2
  MaxFileBytes = 18
  MaxRecordBytes = 8
  MaxRecords = 3
  MaxBatch = 2
  I64Min <- MinInt64
  I64Max = 1
  F64Max = 5
  SqlNull = SqlNull
  MaxPieces = 4
  MaxInputBytes = 4
  OutputLimits = {16, 50, 80}
SPECIFICATION CodecsSpec
INVARIANTS
  ReplayIsExact
  PayloadsAreExact
  FormatsRoundTrip
  IngestIsExact
  OutputIsWhole
CHECK_DEADLOCK FALSE
