SPECIFICATION Spec
CONSTANTS
    StartOnPrepared = TRUE
    PacketBuffering = TRUE
    AccurateSeek = FALSE
    Loop = 1
    Positions <- StartPosition
    Duration = 1
    InputFails = FALSE
    MaxCalls = 4
INVARIANT PauseSticks
CHECK_DEADLOCK FALSE
