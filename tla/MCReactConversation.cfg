SPECIFICATION Spec
CONSTANTS
  k1 = k1
  k2 = k2
  ToolKeys <- MCToolKeys
  CallCosts <- MCCallCosts
  MaxIterations = 3
  Budget = 3
  CreateAttempts = 2
  ToolAttempts = 2
INVARIANT ToolCallsAnswered
CHECK_DEADLOCK FALSE
