\* Two PSPs behind one address that join, crash, quit and restart, one of whom chats.
SPECIFICATION Spec
CONSTANTS
    u1 = u1
    u2 = u2
    u3 = u3
    gA = gA
    m1 = m1
    m2 = m2
    ipA = ipA
    ipB = ipB
    Users = {u1, u2, u3}
    Games = {gA}
    Names = {nA}
    Macs = {m1, m2}
    Ips = {ipA}
    MacOf <- RestartMacOf
    IpOf <- OneIp
    GameOf <- OneGame
    BadGame = BadGame
    BadName = BadName
    NoGame = NoGame
    NoGroup = NoGroup
    NoName = NoName
    MaxUsers = 3
    QuirkUsers = {}
    OutboxSize = 1
    Calls <- Churn
    Patient = TRUE
    MaxC2S = 1
    MaxBacklog = 1
INVARIANTS PeerListsExact ChatOnlyInGroup
CHECK_DEADLOCK FALSE
