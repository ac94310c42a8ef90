SPECIFICATION FairSpec
CONSTANTS
  Closers = {other}
  MaxLines = 2
  MaxCasts = 2
INVARIANTS
  IInv
PROPERTIES
  OwnerTold
  CloserTold
  ProgramEndsWithOwner
CHECK_DEADLOCK FALSE
