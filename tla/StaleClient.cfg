SPECIFICATION Spec
CONSTANTS
    Conns = {c1, c2}
    Channels = {0}
    Transports = {"tcp"}
    FrameTypes = {"none"}
    BindMayFail = FALSE
    MaxFd = 2
    MaxPackets = 1
    MaxFragments = 1
    MaxTeardowns = 1
    SeqMod = 4
    StartSeq = 2
INVARIANTS
    DescribedIsClient
CHECK_DEADLOCK FALSE
