SPECIFICATION Spec
CONSTANTS
  MaxQueue = 2
  MaxAttempts = 2
  MaxWrites = 5
INVARIANT LossesLogged
CHECK_DEADLOCK FALSE
