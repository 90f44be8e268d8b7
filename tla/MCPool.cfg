CONSTANTS
    Callers = {c1, c2}
    Warmers = {w1}
    Sockets = {s1, s2, s3, s4}
    MaxConnections = 2
    MaxIdle = 1
    MaxPending = 2
    IdleTarget = 1
    ResumeAttempts = 2
    Eviction = TRUE
SPECIFICATION PoolSpec
INVARIANTS
    SlotsCounted
    ConnectionsExclusive
    NoLostWakeup
PROPERTIES
    AcquireSettles
