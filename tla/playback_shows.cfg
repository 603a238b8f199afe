SPECIFICATION FairSpec
CONSTANTS
    Length = 2
    MinFrames = 2
    Capacity = 2
    CodecDelay = 0
    PacketBuffering = FALSE
    FrameDrop = TRUE
    SeekMayFail = FALSE
    SeekTargets = {0}
    MaxSeeks = 1
    MaxPresses = 1
PROPERTIES SeekShows
CHECK_DEADLOCK FALSE
