SPECIFICATION Spec
CONSTANTS
    Conns = {c1, c2}
    Channels = {0}
    Transports = {"udp"}
    FrameTypes = {"none"}
    BindMayFail = FALSE
    MaxFd = 5
    MaxPackets = 1
    MaxFragments = 1
    MaxTeardowns = 1
    SeqMod = 4
    StartSeq = 2
SYMMETRY Symmetry
VIEW View
INVARIANTS
    TypeOK
    MapMatchesConnections
    SetupFindsRtpConnection
    RtpConnectionOwned
    PushUsesLiveConnections
    SentOnOwnSocket
CHECK_DEADLOCK FALSE
