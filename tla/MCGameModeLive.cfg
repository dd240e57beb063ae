\* Players in game mode who begin, leave and begin again.
SPECIFICATION FairSpec
CONSTANTS
    n1 = n1
    n2 = n2
    n3 = n3
    Nodes = {n1, n2, n3}
    MaxVersion = 2
    Scenarios <- Restarts
PROPERTY CallsReturn
CHECK_DEADLOCK FALSE
