\* A room of three in which data is sent: a sibling is linked twice.
SPECIFICATION Spec
CONSTANTS
    n1 = n1
    n2 = n2
    n3 = n3
    Nodes = {n1, n2, n3}
    Scenarios <- BusyRoom
INVARIANTS ChildrenTooAreQueued
CHECK_DEADLOCK FALSE
