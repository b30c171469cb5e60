SPECIFICATION SharedFairSpec
CONSTANTS
    Threads = {t1, t2, t3}
    NoThread = NoThread
    NoAnswer = NoAnswer
    Statements = 2
    CounterMax = 2
    Kinds = {"execute", "insert", "try_insert", "query", "try_query", "scan", "metrics"}
INVARIANTS
    NoLostScans
PROPERTIES
    ImplementsAtomicDatabase
    EveryCallReturns
CHECK_DEADLOCK FALSE
