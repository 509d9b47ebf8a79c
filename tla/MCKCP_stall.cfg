SPECIFICATION Spec
CONSTANTS
    Mss = 1
    SndWnd <- Wnd1
    RcvWnd <- Wnd1
    InitWnd = 1
    WndSpace = 65536
    AckNoDelay = FALSE
    WriteDelay = FALSE
    Fec = FALSE
    MaxWrite = 4
    MaxBytes <- OneWay4
    NetCap <- Cap2
    AckCap = 1
INVARIANTS
    NoStall
