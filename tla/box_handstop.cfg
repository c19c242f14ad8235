SPECIFICATION MCSpec
CONSTANTS
  Clients = {c1}
  None = None
  MaxFaults = 0
  Timely = TRUE
  EndsInResize = FALSE
  MaxAtOnce = 2
INVARIANT NeverStoppedByHand
CHECK_DEADLOCK FALSE
