SPECIFICATION TakeoverSpec
CONSTANTS
  Process = {p1, p2}
  NoRow = NoRow
  Heartbeat = 2
  Stale = 6
  Rounds = 3
  MaxStart = 2
  MaxLag = 0
  MaxLate = 0
  MaxErrors = 1
  MaxDeletes = 0
  Grace = 2
  BrowserDelay = 1
  Margin = 3
  ReadsFail = FALSE
  MaxWrites = 0
SYMMETRY Interchangeable
INVARIANT RereadAfterCloses
