\* A room in which requests and members are refused.
SPECIFICATION FairSpec
CONSTANTS
    n1 = n1
    n2 = n2
    n3 = n3
    Nodes = {n1, n2}
    Scenarios <- Refusals
PROPERTIES LeaversAreEvicted
CHECK_DEADLOCK FALSE
