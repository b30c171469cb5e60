SPECIFICATION FairSpec
CONSTANTS
    Null = Null
    Tags = {"a", "b"}
    Queries = {q1, q2}
    Inputs <- SmallInputs
    HelperLimit = 2
    WorkerCaps = {2, 16}
    RowThreshold = 1
    RowsPerWorker = 2
    MaxWorkers = 3
INVARIANTS
    HelpersAreAdmitted
    AnswerIsSequential
PROPERTIES
    EveryQueryEnds
CHECK_DEADLOCK FALSE
