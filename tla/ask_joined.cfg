SPECIFICATION AskSpec
CONSTANTS
    Msg = {m1, m2, m3}
    None = None
    Steering = TRUE
    MaxFaults = 0
    MaxRequests = 0
SYMMETRY Interchangeable
INVARIANTS
    JoinedIsNotLost
CHECK_DEADLOCK FALSE
