SPECIFICATION EngineSpec
CONSTANTS
    s1 = s1
    s2 = s2
    x1 = x1
    x2 = x2
    Slots = {s1, s2}
    Sessions = {x1, x2}
    SegmentIds = {0, 1}
    MaxBatch = 1
    MaxSlotsPerSession = 1
    MaxQueueSize = 2
    MaxRetries = 0
    MaxSeqLen = 1
    Tasks = {"streaming"}
    TimeoutEnabled = TRUE
    Priorities = {0}
    MaxText = 1
    NoSlot = NoSlot
    NoSegment = NoSegment
SYMMETRY EngineSymmetry
INVARIANTS
    SlotsOwned
PROPERTIES
    ExitsWithTerminal
