SPECIFICATION AskSpec
CONSTANTS
    Msg = {m1, m2}
    None = None
    Steering = TRUE
    MaxFaults = 0
    MaxRequests = 0
PROPERTIES
    EndIsFinal
CHECK_DEADLOCK FALSE
