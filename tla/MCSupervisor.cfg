SPECIFICATION FairSpec
CONSTANTS
  Ids = {"a", "b"}
  Inits <- Returned
  Kinds <- Mixtures
  Requests = {"StartChild", "TerminateChild", "RestartChild", "DeleteChild", "Stop"}
  MaxEvents = 4
  MaxTime = 1
INVARIANTS
  IInv
  LaterOnesAreDown
  IntensityExact
PROPERTIES
  Recovers
CHECK_DEADLOCK FALSE
