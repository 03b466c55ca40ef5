CONSTANTS
    Datagrams <- SomeDatagrams
    Dirs = {home, other}
    Home = home
    MaxCommands = 3
    MaxCalls = 2
    MaxEdits = 1
SPECIFICATION FairSpec
CHECK_DEADLOCK FALSE
PROPERTIES
    StopEndsCommands
INVARIANTS
    TypeOK
    HistoryIsKept
    CommandsAreSerial
