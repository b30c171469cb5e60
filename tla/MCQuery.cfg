SPECIFICATION MCSpec
CONSTANTS
    I64Min <- MinInt64
    I64Max = 1
    Null = Null
    MaxString = 0
    Types = {"NullableInt64"}
    ColumnNames = {c}
    MaxRows = 3
    MaxColumns = 1
    MaxCells = 3
    GenerationMod = 2
    Names = {t}
    MaxBatch = 1
    IndexLimits <- BlockLimits
    MaxParts = 2
    RestoredCaps = {3}
    UsizeMax = 4
    MaxStatements = 3
    MaxListItems = 4
INVARIANTS
    PruningIsExact
    SelectIsExact
    CombinationsAreExact
    LimitsOnlyRefuse
    ShowCreateReplays
CHECK_DEADLOCK FALSE
