SPECIFICATION PoolSpec
CONSTANTS
    ThreadCount = 2
    InitialSize = 2
    MaxQueue = 4
    ThreadsMayFail = FALSE
    MaxTasks = 4
INVARIANT RingHoldsPending
CHECK_DEADLOCK FALSE
