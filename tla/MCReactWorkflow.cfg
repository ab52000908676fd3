SPECIFICATION FairSpec
CONSTANTS
  k1 = k1
  k2 = k2
  ToolKeys <- MCToolKeys
  CallCosts <- MCCallCosts
  MaxIterations = 3
  Budget = 3
  CreateAttempts = 2
  ToolAttempts = 2
INVARIANTS
  CancelHonoured
  BudgetHonoured
  ScheduledOnce
  KnownSandboxTerminated
  OutcomeReported
PROPERTY Closes
CHECK_DEADLOCK FALSE
