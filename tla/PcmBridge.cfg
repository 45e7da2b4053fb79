SPECIFICATION Spec
CONSTANTS
  Writers = {w1, w2}
  Feeder = w1
  Second = w2
  Streams = {s1, s2}
  Main = s1
  Other = s2
  None = none
  Capacity = 3
  Batch = 2
  SinkSize = 2
  Margin = 1
  ArmMax = 2
  Chunk = 2
  Backlog = 2
  DrainReach = 2
  Scenes <- MCScenes
INVARIANTS
  TypeOK
  HoldFrozen
  WritesAccounted
  NoLostWakeup
  NoNewTitle
  NothingPastMarker
  NoControlLost
  NoWriterAfterFree
  PacedNeverWaits
  SinkTruth
PROPERTIES
  FifoSpec
  CellVerdict
  LetsGo
  StarvedTold
CHECK_DEADLOCK FALSE
