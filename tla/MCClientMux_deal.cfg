SPECIFICATION FairSpec
CONSTANTS
    c1 = c1
    c2 = c2
    c3 = c3
    numconn = 2
    Conns <- ThreeConns
    AutoExpire = 1
    ScavengeTTL = 1
    Cap = 1
    RRSpace = 3
    MaxSess = 3
CHECK_DEADLOCK FALSE
INVARIANTS
    MuxInv
PROPERTIES
    RetiredClosed
