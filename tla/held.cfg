SPECIFICATION HeldFairSpec
CONSTANTS
  Msg = {m1, m2, m3}
  Process = {p1, p2}
  None = None
  HeldMax = 1
  MaxSends = 2
  MaxFaults = 1
INVARIANTS
  HeldTypeOK
  
  TwiceOnlyAfterStale
PROPERTIES
  
  EveryHeldEnds
