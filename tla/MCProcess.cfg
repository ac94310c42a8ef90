SPECIFICATION Spec
CONSTANTS
  Procs = {p1, p2}
  Initial = {p1, p2}
  Ops = {"Link", "Unlink", "Monitor", "Demonitor", "Send", "Exit", "TrapExit"}
  Reasons = {"other"}
  MaxCalls = 3
  MaxRefs = 2
SYMMETRY Symmetry
INVARIANTS
  IInv
  DownsAreTrue
  SignalsAccounted
  LinksMutual
  MessagesBeforeDown
CHECK_DEADLOCK FALSE
