CONSTANTS
    Clients = {c1, c2}
    None = None
    MaxRuntimes = 2
SPECIFICATION RSpec
CHECK_DEADLOCK FALSE
INVARIANTS
    ReaderReadsOwnPty
