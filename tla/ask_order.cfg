SPECIFICATION AskSpec
CONSTANTS
    Msg = {m1, m2, m3}
    None = None
    Steering = TRUE
    MaxFaults = 1
    MaxRequests = 0
SYMMETRY Interchangeable
INVARIANTS
    OneRunAtATime
PROPERTIES
    TurnsInOrder
CHECK_DEADLOCK FALSE
