SPECIFICATION FairSpec
CONSTANTS
  MaxQueue = 2
  MaxAttempts = 2
  MaxWrites = 5
INVARIANTS
  NewestKept
  FlusherActive
PROPERTIES
  DisposeDrains
CHECK_DEADLOCK FALSE
