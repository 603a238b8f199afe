SPECIFICATION InputSpec
CONSTANTS
    Size = 4
    SizeKnown = TRUE
    Forwards = 2
    Backwards = 1
    Chunk = 2
    ShortSeek = 1
    InnerMayFail = TRUE
    MaxAsyncCalls = 3
    ResourceSize = 4
    CacheCapacity = 4
    ForwardsOptions = {0, 1}
    CacheChunk = 2
    FileRetries = 0
    CacheSeeks = {0, 2, 3}
    MaxSyncCalls = 4
    MaxCacheCalls = 2
    MaxIncidents = 1
    HookKinds = {"tcp", "http", "ijkio", "live", "source"}
    HookSize = 2
    MaxRetries = 1
    MaxLives = 3
INVARIANTS AsyncReadsTrue TreeIsTrue ReadsAreTrue HookTellsTrue
PROPERTY InputCallsReturn
CHECK_DEADLOCK FALSE
