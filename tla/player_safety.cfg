SPECIFICATION PartsSpec
CONSTANTS
    StartOnPrepared = FALSE
    PacketBuffering = TRUE
    AccurateSeek = FALSE
    Loop = 2
    Positions <- StartPosition
    Duration = 1
    InputFails = TRUE
    MaxCalls = 5
    SeekStreams = {{"video", "audio"}, {"video"}}
    Unstamped = {"audio"}
    LastPts = 1
    MaxDeviation = 0
    MaxSeeks = 2
    FrameTime = 2
    Period = 2
    ThresholdMin = 2
    ThresholdMax = 5
    FrameDup = 7
    NoSync = 20
    Texts <- TheTexts
    Scenarios <- TheScenarios
    MaxTime = 14
    CalmTime = 8
    ImageRequests <- TheRequests
    Shapes <- TheShapes
    LastPicture = 4
    MaxTries = 2
    MaxRequests = 2
    Files <- TheFiles
    InitCapacity = 1
    MetaMayFail = TRUE
INVARIANTS LastCallHolds SeekTracked CompletionOnce ExactStart WaitedForIsDue ScreenFollowsClock ImagesAsAsked MetaIsWhole
PROPERTY PositionHeld
CHECK_DEADLOCK FALSE
