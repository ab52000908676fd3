SPECIFICATION RuntimeSpec
CONSTANTS
  s1 = s1
  s2 = s2
  Calls <- MCCalls
  NameOf <- MCNameOf
  BadImage = {}
  MaxContainers = 1
  MaxExits = 1
INVARIANT LimitSurvivesRestart
CHECK_DEADLOCK FALSE
