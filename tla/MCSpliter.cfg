CONSTANTS
    NumTokens = 4
    MaxPacket = 4
    Levels = {0, 1}
    MaxCapacity = 3
    CapTenths <- MCCapTenths
    MaxConcurrent = 2
    Modes = {"auto", "token", "long", "full"}
    Marked = {3}
SPECIFICATION SpliterSpec
INVARIANTS
    TextInOrder
    PlanObeyed
PROPERTIES
    HandoverFinal
    CompletionAnnounced
CHECK_DEADLOCK FALSE
