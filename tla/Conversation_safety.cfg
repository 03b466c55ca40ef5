CONSTANTS
    MaxConnections = 2
    MaxRuntimes = 2
    MaxPackets = 2
SPECIFICATION Spec
CHECK_DEADLOCK FALSE
INVARIANTS
    FirstConnectionIsServed
    FirstRuntimeIsShown
PROPERTIES
    OncePerShell
