SPECIFICATION FairSpec
CONSTANTS
    StartOnPrepared = FALSE
    PacketBuffering = FALSE
    AccurateSeek = TRUE
    Loop = 1
    Positions <- StartAndEnd
    Duration = 1
    InputFails = FALSE
    MaxCalls = 4
PROPERTY StartResumes
CHECK_DEADLOCK FALSE
