SPECIFICATION Spec
CONSTANTS
  Jobs = {j1, j2}
  MaxConcurrent = 2
  Cooldown = 1
  BrokenRetry = 2
  MaxVersion = 2
PROPERTIES
  BrokenMeansRejected
CHECK_DEADLOCK FALSE
