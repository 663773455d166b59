SPECIFICATION Spec
CONSTANTS
    N = 2
    Limit = 0
    MaxRounds = 2
    AskRounds = {0}
    MaxTokens = 1
    Talkative = {0, 1}
INVARIANTS
    AnswersWithinLimit
PROPERTIES
    CancelledSessionUnwinds
    DebateConcludes
