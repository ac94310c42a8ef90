SPECIFICATION FairSpec
CONSTANTS
  Calls = {k1}
  Stops = {s1}
  Patient = {s1}
  StopReasons = {"normal", "kill"}
  Errors = {"normal"}
  MaxCasts = 1
INVARIANTS
  IInv
PROPERTIES
  HelpersEnd
  ImplementsRemoteCall
CHECK_DEADLOCK FALSE
