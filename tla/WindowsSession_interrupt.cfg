CONSTANTS
    Datagrams <- SomeDatagrams
    Dirs = {home, other}
    Home = home
    MaxCommands = 2
    MaxCalls = 2
    MaxEdits = 0
SPECIFICATION Spec
CHECK_DEADLOCK FALSE
PROPERTIES
    ReceiverSurvives
