\* One thread creates a socket while another closes one.
SPECIFICATION Spec
CONSTANTS
    t1 = t1
    t2 = t2
    u1 = u1
    u2 = u2
    p1 = p1
    p2 = p2
    r1 = r1
    Finders = {u1}
    Kept <- KeptListener
    Lists = {1}
    Threads = {t1, t2}
    Slots = {1, 2}
    Blocks = {1, 2, 3}
    Fds = {1, 2, 3}
    PdpPorts = {p1}
    ListenPorts = {p1}
    OpenPorts = {p2}
    Remotes = {r1}
    Habits = {"overlap"}
INVARIANTS NoCrash
CHECK_DEADLOCK FALSE
