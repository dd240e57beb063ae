\* Three interchangeable connections, room for two, two group names.
SPECIFICATION OpenSpec
CONSTANTS
    u1 = u1
    u2 = u2
    m1 = m1
    m2 = m2
    ipA = ipA
    Users = {u1, u2, u3}
    Games = {gA}
    Names = {nA, nB}
    Macs = {m1}
    Ips = {ipA}
    MacOf <- OneMac
    IpOf <- OneIp
    BadGame = BadGame
    BadName = BadName
    NoGame = NoGame
    NoGroup = NoGroup
    MaxUsers = 2
    Sendable <- FewPackets
    MaxC2S = 1
    MaxBacklog = 0
INVARIANTS SocketsOwned GroupListsExact RefCountsExact
PROPERTY ImplementsLobby
SYMMETRY Interchangeable
CHECK_DEADLOCK FALSE
