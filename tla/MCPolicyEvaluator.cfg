SPECIFICATION FairSpec
CONSTANTS
  r1 = r1
  r2 = r2
  Requests <- MCRequests
  Inputs <- MCInputs
  Threshold = 2
  Recovery = 1
  Ttl = 1
  MaxSize = 2
INVARIANTS
  BreakerConsistent
  CacheExact
PROPERTIES
  AllowedByOPA
  BreakerRecovers
  WithdrawalTakesEffect
CHECK_DEADLOCK FALSE
