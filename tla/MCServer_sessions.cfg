SPECIFICATION FairServerSpec
CONSTANTS
    a1 = a1
    a2 = a2
    Addrs <- TwoAddrs
    Fec = TRUE
    Backlog = 1
    MaxSess = 2
    Sessions <- TheSessions
    Intervals = {1, 2}
    MaxLate = 0
INVARIANTS
    HeapInv
    ServerInv
PROPERTIES
    KeptUpdated
    NobodyStuck
