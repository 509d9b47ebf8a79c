SPECIFICATION Spec
CONSTANTS
    dataShards = 3
    parityShards = 1
    rxlimit = 4
    IdSpace = 50
    Start = 40
    Lifetime = 6
    NetCap = 2
    MaxSent = 12
CHECK_DEADLOCK FALSE
INVARIANTS
    QueueInv
    NothingInvented
    GroupRecovered
