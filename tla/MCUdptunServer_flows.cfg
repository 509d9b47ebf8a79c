SPECIFICATION FairSpec
CONSTANTS
    t1 = t1
    a1 = a1
    nobody = nobody
    Nobody = nobody
    s1 = s1
    s2 = s2
    TAddrs <- OneClient
    MaxId = 1
    Askers <- OneAsker
    Socks <- TwoSocks
    IdleTTL = 1
    NetCap = 1
INVARIANTS
    FlowInv
PROPERTIES
    IdleFlowsClosed
