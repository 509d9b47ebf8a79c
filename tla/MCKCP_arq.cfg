SPECIFICATION Spec
CONSTANTS
    Mss = 1
    SndWnd <- Wnd2
    RcvWnd <- Wnd2
    InitWnd = 2
    WndSpace = 65536
    AckNoDelay = FALSE
    WriteDelay = FALSE
    Fec = TRUE
    MaxWrite = 2
    MaxBytes <- OneWay4
    NetCap <- Cap21
    AckCap = 1
INVARIANTS
    IInv
    StreamIntegrity
    AckedImpliesReceived
    NoByteDropped
    SendWindow
    RcvQueueBound
PROPERTIES
    NoRetreat
    ImplementsByteStream
