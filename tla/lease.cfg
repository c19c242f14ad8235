SPECIFICATION Spec
CONSTANTS
  Process = {p1, p2, p3}
  NoRow = NoRow
  Heartbeat = 2
  Stale = 6
  Rounds = 2
  MaxStart = 2
  MaxLag = 1
  MaxLate = 0
  MaxErrors = 1
  MaxDeletes = 1
SYMMETRY Interchangeable
INVARIANT TypeOK
PROPERTY NewerOrSilent
 
PROPERTY LiveHolderKept
PROPERTY StepsAsideForNewer
