SPECIFICATION Spec
CONSTANTS
    Sessions = {s1, s2, s3}
    Suffixes = {live, cam}
    Conns = {c1}
    NoSession = NoSession
INVARIANTS
    TypeOK
    MapsAgree
    HeldIsAlive
PROPERTIES
    RemovedIsFreed
    DirectoryImplemented
CHECK_DEADLOCK FALSE
