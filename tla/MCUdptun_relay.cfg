SPECIFICATION RelaySpec
CONSTANTS
    c1 = c1
    t1 = t1
    t2 = t2
    x1 = x1
    x2 = x2
    s1 = s1
    Clients <- OneClient
    TAddrs <- TwoAddrs
    HomeAddr <- Home
    Addrs <- TwoSockets
    MaxId = 2
    IdleTTL = 0
    ServerIdle <- AnyTime
    Socks <- OneSock
    NetCap = 1
SYMMETRY Symmetry
INVARIANTS
    TablesInv
    OneAskerPerSocket
    RepliesToAsker
