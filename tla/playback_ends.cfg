SPECIFICATION FairSpec
CONSTANTS
    Length = 2
    MinFrames = 2
    Capacity = 2
    CodecDelay = 0
    PacketBuffering = TRUE
    FrameDrop = FALSE
    SeekMayFail = TRUE
    SeekTargets = {0}
    MaxSeeks = 1
    MaxPresses = 0
PROPERTIES PlaysToTheEnd CloseEnds
CHECK_DEADLOCK FALSE
