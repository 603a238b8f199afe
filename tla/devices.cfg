SPECIFICATION DevicesSpec
CONSTANTS
    Outputs = {0, 1}
    FakeFrames = 1
    KeptBack = 1
    Pictures = 1
    Alone = {TRUE, FALSE}
    MaxEvents = 3
    Devices = {"track", "opensl"}
    Buffers = 2
    WaitsForStart = {TRUE, FALSE}
    MaxOpens = 2
    MaxAudioCalls = 2
    OverlayFormats = {"GLES2", "YV12", "I420", "RV16", "RV24", "RV32"}
    Windows = {1, 2}
    WindowFormats = {"RGBA", "RGB565", "RGB888"}
    WindowWidth = 20
    SourceFrames <- TheFrames
    MaxTurns = 6
INVARIANTS BuffersAccounted BuffersInOrder PicturesDrawn
PROPERTIES FeedGetsCodec  DevicesEnd
CHECK_DEADLOCK FALSE
