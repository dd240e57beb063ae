\* A host who asks for one more and a player who searches for him, and may leave.
SPECIFICATION FairEntrySpec
CONSTANTS
    u1 = u1
    u2 = u2
    u3 = u3
    gA = gA
    m1 = m1
    m2 = m2
    m3 = m3
    ipA = ipA
    ipB = ipB
    Users = {u1, u3}
    Games = {gA}
    Names = {nA}
    Macs = {m1, m3}
    Ips = {ipA, ipB}
    MacOf <- OwnMacOf
    IpOf <- GuestsBehindOne
    GameOf <- OneGame
    BadGame = BadGame
    BadName = BadName
    NoGame = NoGame
    NoGroup = NoGroup
    NoName = NoName
    MaxUsers = 2
    QuirkUsers = {}
    OutboxSize = 0
    Calls <- GuestLeaves
    Patient = TRUE
    MaxC2S = 1
    MaxBacklog = 0
    Hosts = {u1}
    Expected = {2}
    MaxMembers = 2
PROPERTY EntriesEnd
CHECK_DEADLOCK FALSE
