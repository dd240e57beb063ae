\* Two threads with sockets of every kind, of which they share the streams.
SPECIFICATION Spec
CONSTANTS
    t1 = t1
    t2 = t2
    p1 = p1
    p2 = p2
    r1 = r1
    Threads = {t1, t2}
    Slots = {1, 2}
    Blocks = {1, 2, 3}
    Sessions = {1, 2}
    Ports = {p1}
    Remotes = {r1}
    SharedKinds = {"STREAM"}
    Calls = {"PDP", "LISTEN", "STREAM", "Term"}
SYMMETRY ThreadSymmetry
INVARIANTS ConnectThreadsSafe SessionsOwned SocketsReachable EstablishedConnected
CHECK_DEADLOCK FALSE
