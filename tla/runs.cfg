SPECIFICATION RunsFairSpec
CONSTANTS
  Run <- RunIds
  Scheduled <- Occurrences
  Automation <- Automations
  Of <- TaskOf
  T3 = {"task"}
  Tick = {p1}
  Hand = {h}
  None = None
  Cap = 1
  MaxRuns = 2
  MaxDate = 0
  MaxFaults = 1
INVARIANTS
  RunsTypeOK
  OnePerAutomation
PROPERTIES
  FinishedStays
  EveryRunEnds
CHECK_DEADLOCK FALSE
