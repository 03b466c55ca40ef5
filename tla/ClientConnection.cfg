CONSTANTS
    Workers = {w1, w2}
    None = None
    QueueSize = 2
    MaxSockets = 3
SPECIFICATION FairSpec
CHECK_DEADLOCK FALSE
INVARIANTS
    TypeOK
    SingleWorker
    OneSocket
PROPERTIES
    ReconnectIsTried
    CloseReturns
    ThreadsEnd
