SPECIFICATION AskFairSpec
CONSTANTS
    Msg = {m1, m2}
    None = None
    Steering = TRUE
    MaxFaults = 1
    MaxRequests = 1
INVARIANTS
    AskTypeOK
    CancelOrResult
    PublishedOnce
    QueuedIsUnsent
    CanceledRunIsStopped
PROPERTIES
    EndsStay
    
CHECK_DEADLOCK FALSE
