CONSTANTS
    NumTexts = 2
    InboxSize = 1
    MaxConcurrent = 1
    Faults = {"error", "cancel", "reject"}
SPECIFICATION TextInputSpec
INVARIANTS
    CompletionCoversText
    JournalStaysClosed
    RequestsInOrder
    CompletionReachesEngine
CHECK_DEADLOCK FALSE
