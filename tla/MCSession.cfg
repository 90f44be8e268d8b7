CONSTANTS
    QueueMax = 3
    BufferMax = 2
    SampleCounts = {1}
    MaxDeliveries = 4
    MaxAttachments = 2
    OutMax = 1
    AckInterval = 1
SPECIFICATION LiveSpec
INVARIANTS
    ResumeCursorRetained
    ReplayExact
    HeardOrInFlight
    CloseIsFinal
PROPERTIES
    StreamImplemented
    ClientSettles
    SessionReclaimed
CHECK_DEADLOCK FALSE
