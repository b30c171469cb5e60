CONSTANTS
  Variants = {"sequential", "blocking", "cancellable"}
  MaxConnections = 4
  Cap = 2
  MaxClients = 5
SPECIFICATION FairSpec
INVARIANTS
  WorkersAreBounded
  ReportIsComplete
PROPERTIES
  ListenerEnds
CHECK_DEADLOCK FALSE
