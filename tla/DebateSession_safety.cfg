SPECIFICATION SafetySpec
CONSTANTS
    N = 2
    Limit = 2
    MaxRounds = 2
    AskRounds = {0, 3}
    MaxTokens = 1
    Talkative = {0, 1, 2}
INVARIANTS
    TypeOK
    OnlyWholeAnswersAreDone
    EveryFrameIsUnderstood
    PromptQuotesTheDebate
    NoSendOnClosedChannel
PROPERTIES
    RefinesDebateStream
    HangsUpAfterConclusion
