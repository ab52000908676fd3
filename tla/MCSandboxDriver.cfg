SPECIFICATION FairSpec
CONSTANTS
  s1 = s1
  s2 = s2
  s3 = s3
  s4 = s4
  s5 = s5
  Calls <- MCCalls
  NameOf <- MCNameOf
  BadImage <- MCBadImage
  MaxContainers = 2
INVARIANTS
  LimitRespected
  LiveIsOwned
PROPERTIES
  RequestAnswered
  SlotsSpec
CHECK_DEADLOCK FALSE
