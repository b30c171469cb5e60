SPECIFICATION EnginesSpec
CONSTANTS
    I64Min = 0
    I64Max = 0
    Null = Null
    MaxString = 1
    Types = {"NullableInt64", "String"}
    ColumnNames = {c, d}
    MaxRows = 2
    MaxColumns = 2
    MaxCells = 3
    GenerationMod = 1
    Names = {t, u}
    MaxBatch = 1
    IndexLimits <- OneRowBlocks
    MaxParts = 1
    RestoredCaps = {0, 1, 2, 3}
    MaxStatements = 2
    MaxListItems = 2
SYMMETRY NameSymmetry
INVARIANTS
    TablesWellFormed
    MeasurementsExact
    IndexFresh
    LoggedTablesFollowLog
    CatalogIsExact
CHECK_DEADLOCK FALSE
