\* A room of three, and two players who leave, crash, come back and lose datagrams.
SPECIFICATION Spec
CONSTANTS
    n1 = n1
    n2 = n2
    n3 = n3
    Nodes = {n1, n2, n3}
    Scenarios <- RoomsAndPairs
INVARIANTS RoomCapacity OnePartner NoneUninvited RoomAgreement GameInformed BusyMeansQueued
CHECK_DEADLOCK FALSE
