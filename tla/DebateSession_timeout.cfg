SPECIFICATION Spec
CONSTANTS
    N = 1
    Limit = 1
    MaxRounds = 2
    AskRounds = {0}
    MaxTokens = 1
    Talkative = {0, 1, 2}
PROPERTIES
    ProviderCallsEnd
