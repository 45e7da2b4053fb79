SPECIFICATION Spec
CONSTANTS
  Requests = {r1, r2, r3}
  Readers = {r1}
  Writers = {r1}
  Gated = {g1}
  MaxConcurrent = 2
  MaxBoots = 1
INVARIANTS
  CapAlways
SYMMETRY Symmetry
CHECK_DEADLOCK FALSE
