SPECIFICATION FairSpec
CONSTANTS
  Requests = {r1, r2}
  Readers = {r1}
  Writers = {r1, r2}
  Gated = {g1}
  MaxConcurrent = 2
  MaxBoots = 1
INVARIANTS
  TypeOK
  SlotsAccounted
  RetryIsFresh
PROPERTIES
  RequestsEnd
CHECK_DEADLOCK FALSE
