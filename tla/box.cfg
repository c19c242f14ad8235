SPECIFICATION BoxFairSpec
CONSTANTS
  Clients = {c1}
  None = None
  MaxFaults = 1
  Timely = TRUE
  EndsInResize = FALSE
  MaxAtOnce = 2
INVARIANTS
  BoxTypeOK
  
  ClaimedStaysDown
  OwnersUseUnparks
  RetypedDown
PROPERTIES
  UseBeatsPark
  
  
  
  ResizeGivesBack
CHECK_DEADLOCK FALSE
