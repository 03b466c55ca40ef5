CONSTANTS
    Threads = {t1, t2}
    None = None
    MaxRetries = 2
    MaxSequence = 3
    SeqSpace = 4
SPECIFICATION FairSpec
INVARIANTS
    TypeOK
    InOrderAtMostOnce
    ConfirmedIsAccepted
    StopAndWait
PROPERTIES
    SendEnds
    ConfirmedIsDelivered
    ImplementsAbstract
