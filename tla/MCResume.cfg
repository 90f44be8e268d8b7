SPECIFICATION ResumeSpec
CONSTANTS
    NumTexts = 1
    NumAudio = 1
    MaxConns = 2
    MaxRetained = 2
    Attempts = 2
    AckInterval = 2
    FailsFrom = 2
INVARIANTS ResumeTypeOK TextOnce ClosedMeansTold NewestOwns NeverStuck
PROPERTY StreamImplemented
