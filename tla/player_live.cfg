SPECIFICATION FairSpec
CONSTANTS
    StartOnPrepared = FALSE
    PacketBuffering = FALSE
    AccurateSeek = TRUE
    Loop = 2
    Positions <- StartAndEnd
    Duration = 1
    InputFails = TRUE
    MaxCalls = 4
PROPERTIES StartCarriedThrough SeekAnswered StopEndsThreads
CHECK_DEADLOCK FALSE
