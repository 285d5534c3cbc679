SPECIFICATION Spec
CONSTANTS
    Files <- MCFiles
    BufSize = 24
    OutSize = 24
    SizeMod = 64
INVARIANTS
    TypeOK
    ScanStaysInside
    OneFramePerChunk
    KeepsPlaying
PROPERTIES
    ChunksFollow
    ReachesTheEnd
CHECK_DEADLOCK FALSE
