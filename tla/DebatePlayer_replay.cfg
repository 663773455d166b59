SPECIFICATION Spec
CONSTANTS
    N = 2
    MaxRounds = 2
    MaxTurnChars = 2
    MaxCellChars = 2
    MaxErrors = 3
    ReducedMotion = FALSE
    DeltaWords = 3
    MaxTokens = 1
    MaxSessions = 2
CHECK_DEADLOCK FALSE
INVARIANTS
    TypeOK
    RecordingIsOfThisSession
    OneSpeaker
    TurnsAreShownInOrder
    DoneIsComplete
    AtLiveMirrorsStep
    NoLostWakeup
PROPERTIES
    EndIsFinal
    ReplayEnds
