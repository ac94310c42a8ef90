SPECIFICATION FairSpec
CONSTANTS
  Iterators = {i1, i2}
  Pump = pump
  Caller = caller
  MaxMsgs = 4
INVARIANTS
  IInv
PROPERTIES
  ConsumersServed
  ImplementsMailbox
CHECK_DEADLOCK FALSE
