SPECIFICATION WorkersFairSpec
CONSTANTS
  Procs <- Three
  Timers = {t1, t2}
INVARIANTS
  WorkersIInv
  FunNotAbandoned
PROPERTIES
  TaskRecurs
  TaskObeys
CHECK_DEADLOCK FALSE
