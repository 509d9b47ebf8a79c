SPECIFICATION FairSpec
CONSTANTS
    p1 = p1
    p2 = p2
    h1 = h1
    Peers <- TwoPeers
    Handles <- OneHandle
    flowExpire = 2
    orphanExpire = 1
    MaxConns = 2
CHECK_DEADLOCK FALSE
INVARIANTS
    ConnInv
    NothingLeftOpen
PROPERTIES
    SilentForgotten
    CaptureEnds
