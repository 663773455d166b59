SPECIFICATION Spec
CONSTANTS
    N = 2
    MaxRounds = 2
    MaxTurnChars = 50
    MaxCellChars = 50
    MaxErrors = 50
    ReducedMotion = TRUE
    DeltaWords = 1
    MaxTokens = 1
    MaxSessions = 1
CHECK_DEADLOCK FALSE
INVARIANTS
    NoErrorIsLost
