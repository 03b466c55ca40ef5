CONSTANTS
    Clients = {c1}
    None = None
    MaxRuntimes = 2
SPECIFICATION FairSpec
CHECK_DEADLOCK FALSE
PROPERTIES
    DisconnectEndsSession
    OfflineEndsSession
    ServerStops
