SPECIFICATION FairSpec
CONSTANTS
  Procs = {p1, p2}
  Names = {n1, n2}
  Clients = {c1, c2}
  NoProc = NoProc
  NoName = NoName
  Nobody = Nobody
INVARIANTS
  IInv
PROPERTIES
  ExitsFinish
  ImplementsNameTable
CHECK_DEADLOCK FALSE
