SPECIFICATION Spec
CONSTANTS
    Threads = {t1, t2}
    IOChannels = {io}
    Functors = {f1, f2, f3}
    WakeupChannel = wakeup
INVARIANTS
    TypeOK
    NoLostWakeup
    NoLostQuit
PROPERTIES
    FifoExecution
    QueuedIsExecuted
    QuitStops
CHECK_DEADLOCK FALSE
