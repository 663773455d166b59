SPECIFICATION Spec
CONSTANTS
    MaxRounds = 8
    MaxAsks = 2
    MaxLines = 4
    MaxLength = 14
    Texts = {1, 2}
CHECK_DEADLOCK FALSE
INVARIANTS
    FormMirrorsServer
    ClosedMeansWhole
    ContextHeedsSwitch
PROPERTIES
    CancelledAnswerUnwinds
    RevealIsSmooth
    TextComesToRest
