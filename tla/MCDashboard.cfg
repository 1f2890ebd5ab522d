SPECIFICATION Spec
CONSTANTS
    Threads <- MCThreads
    MaxUpdates = 2
    Empty = Empty
    Torn = Torn
    Clients = {c1, c2}
    MaxRestarts = 1
SYMMETRY Symmetry
INVARIANTS
    SettledOnDisk
    InitFirst
    NoEndedClientKept
CHECK_DEADLOCK FALSE
