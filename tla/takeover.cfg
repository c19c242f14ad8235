SPECIFICATION TakeoverFairSpec
CONSTANTS
  Process = {p1, p2}
  NoRow = NoRow
  Heartbeat = 1
  Stale = 3
  Rounds = 3
  MaxStart = 2
  MaxLag = 0
  MaxLate = 0
  MaxErrors = 0
  MaxDeletes = 1
  Grace = 2
  BrowserDelay = 1
  Margin = 2
  ReadsFail = TRUE
  MaxWrites = 1
INVARIANT TakeoverTypeOK
 
PROPERTY ServingKeepsSockets
PROPERTY AgentsGoFirst
PROPERTY DisplacedLetsGo
PROPERTY TimersComeBack
PROPERTY NewestServesForGood
