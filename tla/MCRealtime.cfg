SPECIFICATION RealtimeSpec
CONSTANTS
    MaxResponses = 2
    MaxConns = 2
    MaxInputs = 7
    MaxText = 2
    MaxAudio = 1
    MaxReliable = 1
    Takeover = FALSE
INVARIANTS
    TextReachesEngine
    EventsInOrder
    BilledOnce
    ActiveServed
    NoOrphans
CHECK_DEADLOCK FALSE
