SPECIFICATION FairSpec
CONSTANTS
    Mss = 1
    SndWnd <- Wnd2
    RcvWnd <- Wnd1
    InitWnd = 1
    WndSpace = 65536
    AckNoDelay = TRUE
    WriteDelay = FALSE
    Fec = TRUE
    MaxWrite = 2
    MaxBytes <- OneWay3
    NetCap <- Cap21
    AckCap = 1
INVARIANTS
    NoOverrun
PROPERTIES
    DeliveredOrStalled
