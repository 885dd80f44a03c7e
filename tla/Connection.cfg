SPECIFICATION FairSpec
CONSTANTS
    MSS = 2
    SNDBUF = 3
    Sizes = {0, 1, 3, 5}
    CtlLen = 1
    MaxBytes = 7
    MaxBufs = 3
    WriteOutcomes = {TRUE, FALSE}
    CloseOutcomes = {TRUE, FALSE}
    WsIdle = TRUE
INVARIANTS TypeOK OneCloseFrame QueueMatchesStream
PROPERTIES ImplementsByteStream OpenDrains ClosedGoes
CHECK_DEADLOCK FALSE
