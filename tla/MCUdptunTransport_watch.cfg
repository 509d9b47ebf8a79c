SPECIFICATION FairSpec
CONSTANTS
    g1 = g1
    g2 = g2
    Conns <- TwoConns
    KeepAlive = 3
    PingCap = 2
INVARIANTS
    WatchInv
PROPERTIES
    DroppedForItsSilence
    DeadReplaced
