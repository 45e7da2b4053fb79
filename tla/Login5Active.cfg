SPECIFICATION Spec
CONSTANTS
  Accounts = {a1, a2}
  NoAccount = NoAccount
  Callers = {c1}
  Ticks = {}
  MintIds = {m1, m2}
  NoMint = NoMint
  MaxGen = 1
  MaxBoots = 0
PROPERTIES
  WorkingActiveKept
CHECK_DEADLOCK FALSE
