\* Three players who begin.
SPECIFICATION Spec
CONSTANTS
    n1 = n1
    n2 = n2
    n3 = n3
    Nodes = {n1, n2, n3}
    MaxVersion = 2
    Scenarios <- Trios
INVARIANT LatestArrives
CHECK_DEADLOCK FALSE
