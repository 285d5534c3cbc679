SPECIFICATION Spec
CONSTANTS
    Capacity = 3
    MaxPuts = 8
INVARIANTS
    TypeOK
    NoSlotShared
PROPERTIES
    QueueImplemented
    EverythingTaken
CHECK_DEADLOCK FALSE
