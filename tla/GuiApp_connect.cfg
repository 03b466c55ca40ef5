CONSTANTS
    ByteSpace = 2
    LengthSpace = 8
    FieldSpace = 2
    HeaderSize = 1
    MaxDatagramSize = 4
    RecvSize = 7
    Payloads = {}
    Sizes = {1, 2}
    DefaultSize = 1
    Ids = {1}
    Frames <- SmallFrames
    MaxAttempts = 2
    MaxPuts = 1
SPECIFICATION Spec
CHECK_DEADLOCK FALSE
INVARIANTS
    ReachableServerIsConnected
