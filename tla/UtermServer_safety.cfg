CONSTANTS
    Clients = {c1, c2}
    None = None
    MaxRuntimes = 2
SPECIFICATION RSpec
SYMMETRY ClientSymmetry
CHECK_DEADLOCK FALSE
INVARIANTS
    TypeOK
    TeardownExclusive
    NoLeakedSession
    DescriptorsAreOwn
    AtMostOneShellSurvivesStop
    StrayReaderIsStopped
