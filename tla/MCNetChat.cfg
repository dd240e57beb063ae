\* A player chats while the patient game leaves.
SPECIFICATION Spec
CONSTANTS
    u1 = u1
    u2 = u2
    u3 = u3
    gA = gA
    m1 = m1
    m2 = m2
    ipA = ipA
    ipB = ipB
    Users = {u1, u2}
    Games = {gA}
    Names = {nA}
    Macs = {m1, m2}
    Ips = {ipA, ipB}
    MacOf <- RestartMacOf
    IpOf <- TwoIps
    GameOf <- OneGame
    BadGame = BadGame
    BadName = BadName
    NoGame = NoGame
    NoGroup = NoGroup
    NoName = NoName
    MaxUsers = 3
    QuirkUsers = {}
    OutboxSize = 1
    Calls <- LeaveAndChat
    Patient = TRUE
    MaxC2S = 2
    MaxBacklog = 1
INVARIANT ChatOnlyInGroup
CHECK_DEADLOCK FALSE
