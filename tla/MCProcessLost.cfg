SPECIFICATION Spec
CONSTANTS
  Procs = {p1, p2}
  Initial = {p1, p2}
  Ops = {"Link", "Monitor"}
  Reasons = {"other"}
  MaxCalls = 1
  MaxRefs = 1
INVARIANTS
  NoSignalLost
CHECK_DEADLOCK FALSE
