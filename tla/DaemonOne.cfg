SPECIFICATION Spec
CONSTANTS
  Players = {p1}
  Procs = {1, 2}
  LongCount = 2
  RollbackCrashes = 2
  LastStep = 4
  MaxEvents = 3
  SpawnMayFail = TRUE
  World = {"stuck", "client", "sync", "rename", "health", "binary", "prereqs", "restart", "shutdown"}
INVARIANTS
  TypeOK
  OneDaemon
  SyncRestartPrompt
  OnlyExitingLeft
PROPERTIES
  BackoffRespected
CHECK_DEADLOCK FALSE
