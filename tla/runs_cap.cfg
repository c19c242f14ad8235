SPECIFICATION RunsSpec
CONSTANTS
  Run <- TwoIds
  Scheduled <- TwoIds
  Automation <- Automations
  Of <- EachItsOwn
  T3 = {}
  Tick = {p1, p2}
  Hand = {}
  None = None
  Cap = 1
  MaxRuns = 2
  MaxDate = 1
  MaxFaults = 0
INVARIANT WithinCap
CHECK_DEADLOCK FALSE
