SPECIFICATION ThreadsSpec
CONSTANTS
    MaxSize = 3
    KeepLast = TRUE
    Reads = {"poll", "block"}
    MaxFrames = 7
    ThreadCount = 3
    InitialSize = 2
    MaxQueue = 4
    ThreadsMayFail = TRUE
    MaxTasks = 7
    LifePlayers = 2
    LifeSessions = 2
    LifeCalls = 5
    AutoStart = FALSE
    PrepareAgain = FALSE
    LifeThreadsMayFail = TRUE
INVARIANTS FramesKept Woken TasksInOrder TasksServed LifeHolds
PROPERTIES IsKeptFifo EverythingServed ThreadsEnd ReleasedIsFreed
CHECK_DEADLOCK FALSE
