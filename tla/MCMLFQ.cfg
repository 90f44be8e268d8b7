SPECIFICATION MLFQSpec
CONSTANTS
    NumSegments = 3
    MaxBatch = 1
    Q1Threshold = 1
    Q2Threshold = 2
    AgingInterval = 3
    StarvationLimit = 2
    MaxArrivals = 4
INVARIANTS
    BoundedWait
PROPERTY Served
