\* Two patient games under fairness, one of which disconnects in a thread of its own.
SPECIFICATION FairSpec
CONSTANTS
    u1 = u1
    u2 = u2
    u3 = u3
    gA = gA
    m1 = m1
    m2 = m2
    ipA = ipA
    ipB = ipB
    Users = {u1, u2}
    Games = {gA}
    Names = {nA, nB}
    Macs = {m1, m2}
    Ips = {ipA, ipB}
    MacOf <- RestartMacOf
    IpOf <- TwoIps
    GameOf <- OneGame
    BadGame = BadGame
    BadName = BadName
    NoGame = NoGame
    NoGroup = NoGroup
    NoName = NoName
    MaxUsers = 3
    QuirkUsers = {u1}
    OutboxSize = 0
    Calls <- Patience
    Patient = TRUE
    MaxC2S = 2
    MaxBacklog = 1
INVARIANTS NeverKicked LeaveWorks StatusAgrees
PROPERTY CallsAnswered
CHECK_DEADLOCK FALSE
