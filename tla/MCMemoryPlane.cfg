SPECIFICATION FairMemorySpec
CONSTANTS
  MaxQueue = 2
  MaxAttempts = 2
  MaxWrites = 2
  MaxExits = 1
  Slots <- MCSlots
  Readers = {r1}
PROPERTIES
  RowsForward
  GoneStaysGone
  Converges
CHECK_DEADLOCK FALSE
