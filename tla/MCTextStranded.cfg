CONSTANTS
    NumTexts = 2
    InboxSize = 9
    MaxConcurrent = 1
    Faults = {"error"}
SPECIFICATION TextInputSpec
INVARIANT CallersReleased
CHECK_DEADLOCK FALSE
