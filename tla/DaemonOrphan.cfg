SPECIFICATION Spec
CONSTANTS
  Players = {p1}
  Procs = {1, 2}
  LongCount = 2
  RollbackCrashes = 2
  LastStep = 4
  MaxEvents = 2
  SpawnMayFail = FALSE
  World = {"client", "shutdown"}
INVARIANTS
  NoDaemonLeftBehind
CHECK_DEADLOCK FALSE
