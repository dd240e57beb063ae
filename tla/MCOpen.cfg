\* The fair specification: two devices behind one address, two games, one group name.
SPECIFICATION OpenFairSpec
CONSTANTS
    u1 = u1
    u2 = u2
    m1 = m1
    m2 = m2
    ipA = ipA
    Users = {u1, u2}
    Games = {gA, gB}
    Names = {nA}
    Macs = {m1, m2}
    Ips = {ipA}
    MacOf <- MCMacOf2
    IpOf <- MCIpOf2
    BadGame = BadGame
    BadName = BadName
    NoGame = NoGame
    NoGroup = NoGroup
    MaxUsers = 2
    Sendable <- C2S
    MaxC2S = 1
    MaxBacklog = 0
INVARIANTS OpenTypeOK NoDangling
PROPERTIES DepartedUsersRemoved ShutdownCompletes
CHECK_DEADLOCK FALSE
