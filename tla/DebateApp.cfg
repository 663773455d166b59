SPECIFICATION AppSpec
CONSTANTS
    N = 1
    MaxRounds = 2
    MaxTurnChars = 5
    MaxCellChars = 5
    MaxErrors = 2
    ReducedMotion = FALSE
    DeltaWords = 2
    MaxTokens = 1
    MaxSessions = 2
CHECK_DEADLOCK FALSE
INVARIANTS
    FormNeverOverLive
    CameraFollowsSpeaker
    RobotsMirrorTranscript
    TranscriptFollowsReplay
    BannerNamesTheEnd
    LiveStageIsAnimated
    CuesMarkProgress
PROPERTIES
    DismissalIsSticky
    BacklogIsOffered
    StageComesToRest
