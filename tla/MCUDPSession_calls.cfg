SPECIFICATION FairSpec
CONSTANTS
    r1 = r1
    w1 = w1
    Readers <- OneReader
    Writers <- OneWriter
    Accepted = FALSE
    SndWnd = 2
    SegLen = 2
    MaxInput = 2
    MaxWrite = 1
    MaxArrived = 4
    MaxWritten = 3
    MaxTime = 2
    MaxSets = 1
INVARIANTS
    TypeOK
    BytesConserved
    ReadWakeup
    WriteWakeup
    DeadlineInForce
PROPERTIES
    CallsEnd
