SPECIFICATION SeekSpec
CONSTANTS
    SeekStreams = {{"video", "audio"}}
    Unstamped = {}
    LastPts = 1
    MaxDeviation = 0
    MaxSeeks = 1
PROPERTY GivenUpLate
CHECK_DEADLOCK FALSE
