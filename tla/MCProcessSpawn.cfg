SPECIFICATION FairSpec
CONSTANTS
  Procs = {p1, p2}
  Initial = {p1}
  Ops = {"Spawn", "Exit", "TrapExit", "Demonitor", "Panic"}
  Reasons = {"normal", "kill"}
  MaxCalls = 2
  MaxRefs = 1
PROPERTIES
  ExitCompletes
  KillIsFatal
  LinkSparesTrapping
  SpawnerHears
CHECK_DEADLOCK FALSE
