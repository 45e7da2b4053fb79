SPECIFICATION FairSpec
CONSTANTS
  Players = {p1, p2}
  Procs = {1, 2}
  LongCount = 1
  RollbackCrashes = 1
  LastStep = 2
  MaxEvents = 4
  SpawnMayFail = FALSE
  World = {"client"}
INVARIANTS
  AliveWatched
PROPERTIES
  Recovers
CHECK_DEADLOCK FALSE
