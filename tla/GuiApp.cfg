CONSTANTS
    ByteSpace = 2
    LengthSpace = 8
    FieldSpace = 2
    HeaderSize = 1
    MaxDatagramSize = 4
    RecvSize = 7
    Payloads = {}
    Sizes = {1, 2}
    DefaultSize = 1
    Ids = {1, 2}
    Frames <- SmallFrames
    MaxAttempts = 2
    MaxPuts = 3
SPECIFICATION Spec
CHECK_DEADLOCK FALSE
PROPERTIES
    HeldEndsAtBell
INVARIANTS
    TypeOK
    TextIsShown
    LabelTellsState
    SizeIsAskedFor
