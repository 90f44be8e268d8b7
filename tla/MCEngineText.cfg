SPECIFICATION EngineSpec
CONSTANTS
    s1 = s1
    s2 = s2
    x1 = x1
    x2 = x2
    Slots = {s1, s2}
    Sessions = {x1, x2}
    SegmentIds = {0, 1}
    MaxBatch = 1
    MaxSlotsPerSession = 2
    MaxQueueSize = 1
    MaxRetries = 1
    MaxSeqLen = 2
    Tasks = {"streaming", "voice_clone_icl"}
    TimeoutEnabled = TRUE
    Priorities = {0}
    MaxText = 2
    NoSlot = NoSlot
    NoSegment = NoSegment
SYMMETRY EngineSymmetry
INVARIANTS
    FedExactly
    WaitsOnlyForText
