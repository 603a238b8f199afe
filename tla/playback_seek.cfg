SPECIFICATION Spec
CONSTANTS
    Length = 3
    MinFrames = 2
    Capacity = 2
    CodecDelay = 1
    PacketBuffering = FALSE
    FrameDrop = FALSE
    SeekMayFail = TRUE
    SeekTargets = {0}
    MaxSeeks = 2
    MaxPresses = 0
INVARIANTS SerialIsTrue NoFrameSkipped OneLateFrame EndIsTheEnd
PROPERTIES NeverShowsEarlier
CHECK_DEADLOCK FALSE
