SPECIFICATION FairSpec
CONSTANTS
  Accounts = {a1}
  NoAccount = NoAccount
  Callers = {c1}
  Ticks = {t1}
  MintIds = {m1, m2, m3}
  NoMint = NoMint
  MaxGen = 1
  MaxBoots = 1
INVARIANTS
  TypeOK
  TokenOfCurrentCredentials
  NoStaleVerdict
  NoCallerLost
  SingleFlight
  HealthChain
PROPERTIES
  ImplementsTokenService
  HealthKeepsTicking
CHECK_DEADLOCK FALSE
