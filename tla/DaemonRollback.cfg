SPECIFICATION Spec
CONSTANTS
  Players = {p1, p2, p3}
  Procs = {1, 2}
  LongCount = 1
  RollbackCrashes = 1
  LastStep = 2
  MaxEvents = 2
  SpawnMayFail = TRUE
  World = {"binary"}
INVARIANTS
  AliveWatched
SYMMETRY Symmetry
CHECK_DEADLOCK FALSE
