SPECIFICATION Spec
CONSTANTS
    Conns = {c1}
    Channels = {0}
    Transports = {"tcp", "udp"}
    FrameTypes = {"none", "P"}
    BindMayFail = TRUE
    MaxFd = 3
    MaxPackets = 3
    MaxFragments = 2
    MaxTeardowns = 1
    SeqMod = 4
    StartSeq = 2
INVARIANTS
    SequenceNumbersConsecutive
    NothingNewAfterTeardown
PROPERTIES
    NothingSentAfterTeardown
    TeardownReclaims
    ClosedIsDestroyed
CHECK_DEADLOCK FALSE
