CONSTANTS
    NumSegments = 2
    Groupings = {{1}, {2}}
    MaxFrames = 2
    MaxRetries = 1
    MaxConcurrent = 2
    Deliveries = {"guarded", "firehose"}
SPECIFICATION PlaybackSpec
INVARIANTS
    AudioInOrder
    NothingLost
    EndsInOrder
    DoneIsLast
