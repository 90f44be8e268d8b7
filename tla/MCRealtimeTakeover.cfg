SPECIFICATION RealtimeSpec
CONSTANTS
    MaxResponses = 1
    MaxConns = 2
    MaxInputs = 7
    MaxText = 1
    MaxAudio = 1
    MaxReliable = 1
    Takeover = TRUE
INVARIANTS
    ActiveServed
CHECK_DEADLOCK FALSE
