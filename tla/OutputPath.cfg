CONSTANTS
    ByteSpace = 2
    LengthSpace = 8
    FieldSpace = 2
    HeaderSize = 1
    MaxDatagramSize = 2
    RecvSize = 7
    Payloads <- ShortPayloads
    QueueSize = 2
    ScrollbackSize = 2
    MaxRuntimes = 2
    MaxUnits = 3
    MaxPackets = 1
SPECIFICATION FairSpec
CHECK_DEADLOCK FALSE
PROPERTIES
    ReceiveLoopGoesOn
INVARIANTS
    TypeOK
    LiveOutputInOrder
    NoSilentLoss
    ReplayClosesGap
    InputWholeOrNotAtAll
