SPECIFICATION FairSpec
CONSTANTS
  Modes <- AllModes
  InitResults = {"ok", "ignore", "error"}
INVARIANTS
  IInv
PROPERTIES
  StartReturns
  NoOrphan
  ExitCompletes
CHECK_DEADLOCK FALSE
