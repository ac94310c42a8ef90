SPECIFICATION FairSpec
CONSTANTS
  Setups <- TwoExpectations
  MaxMsgs = 3
INVARIANTS
  IInv
  WaitIsHonest
PROPERTIES
  WaitEnds
  StopEndsAll
CHECK_DEADLOCK FALSE
