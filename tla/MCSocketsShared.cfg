\* Two threads that create PDP sockets, use one and close it; leave out UniquePorts
\* to see the longer behaviour that violates NoNullFollowed.
SPECIFICATION Spec
CONSTANTS
    t1 = t1
    t2 = t2
    p1 = p1
    p2 = p2
    r1 = r1
    Threads = {t1, t2}
    Slots = {1, 2}
    Blocks = {1, 2, 3}
    Sessions = {1, 2, 3}
    Ports = {p1}
    Remotes = {r1}
    SharedKinds = {"STREAM", "PDP"}
    Calls = {"PDP"}
SYMMETRY ThreadSymmetry
INVARIANTS NoNullFollowed UniquePorts
CHECK_DEADLOCK FALSE
