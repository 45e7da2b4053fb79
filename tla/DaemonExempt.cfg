SPECIFICATION Spec
CONSTANTS
  Players = {p1}
  Procs = {1, 2}
  LongCount = 4
  RollbackCrashes = 3
  LastStep = 4
  MaxEvents = 7
  SpawnMayFail = FALSE
  World = {"health"}
INVARIANTS
  NoLoginStaysExempt
CHECK_DEADLOCK FALSE
