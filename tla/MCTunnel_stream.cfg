SPECIFICATION FairTunnel
CONSTANTS
    StreamRoom = 1
    MaxBytes <- TwoOne
INVARIANTS
    TunnelInv
PROPERTIES
    Delivered
    AllReleased
CHECK_DEADLOCK FALSE
