SPECIFICATION Spec
CONSTANTS
  r1 = r1
  r2 = r2
  Requests <- MCRequests
  Inputs <- MCTwins
  Threshold = 2
  Recovery = 1
  Ttl = 1
  MaxSize = 1
PROPERTY
  AllowedForItsInput
CHECK_DEADLOCK FALSE
