\* An impatient game makes its next call before the network has answered.
SPECIFICATION Spec
CONSTANTS
    u1 = u1
    u2 = u2
    u3 = u3
    gA = gA
    m1 = m1
    m2 = m2
    ipA = ipA
    ipB = ipB
    Users = {u1, u2}
    Games = {gA}
    Names = {nA}
    Macs = {m1, m2}
    Ips = {ipA, ipB}
    MacOf <- RestartMacOf
    IpOf <- TwoIps
    GameOf <- OneGame
    BadGame = BadGame
    BadName = BadName
    NoGame = NoGame
    NoGroup = NoGroup
    NoName = NoName
    MaxUsers = 3
    QuirkUsers = {}
    OutboxSize = 0
    Calls <- Leave
    Patient = FALSE
    MaxC2S = 2
    MaxBacklog = 1
INVARIANTS NeverKicked LeaveWorks
CHECK_DEADLOCK FALSE
