SPECIFICATION AppFairSpec
CONSTANTS
  Stoppers = {main, other}
INVARIANTS
  AppIInv
PROPERTIES
  IntensityCancels
CHECK_DEADLOCK FALSE
