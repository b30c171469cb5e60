CONSTANTS
  None = None
  UsizeMax = 8
  MaxHeaders = 5
  MaxSqlBytes = 2
  MaxIngestBytes = 1
  Exchanges = {"a", "b", "c"}
  Lineups = {{"a"}, {"b", "c"}}
  Profiles <- MCProfiles
  Requests <- MCRequests
  MaxHeaderBytes = 2
  ClockMax = 3
  StoredUnits = 1
SPECIFICATION FairSpec
INVARIANTS
  AccessIsEnforced
  AnswersAreTruthful
  DeadlinesAreAbsolute
PROPERTIES
  EveryExchangeEnds
CHECK_DEADLOCK FALSE
