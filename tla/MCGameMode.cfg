\* Players in game mode who begin, update, delete, lose a datagram or are switched off.
SPECIFICATION Spec
CONSTANTS
    n1 = n1
    n2 = n2
    n3 = n3
    Nodes = {n1, n2, n3}
    MaxVersion = 2
    Scenarios <- Games
SYMMETRY PlayerSymmetry
INVARIANTS SocketWhileUsed SyncedStart LatestArrivesInPairs
CHECK_DEADLOCK FALSE
