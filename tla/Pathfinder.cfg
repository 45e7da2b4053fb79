SPECIFICATION FairSpec
CONSTANTS
  Jobs = {j1, j2, j3}
  MaxConcurrent = 2
  Cooldown = 1
  BrokenRetry = 2
  MaxVersion = 3
INVARIANTS
  TypeOK
  JobsHoldSlots
  QueueMoves
  WaitersServed
  ScrapesSpaced
PROPERTIES
  QueriesEnd
CHECK_DEADLOCK FALSE
