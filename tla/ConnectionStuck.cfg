SPECIFICATION FairSpec
CONSTANTS
    MSS = 2
    SNDBUF = 3
    Sizes = {1, 3}
    CtlLen = 1
    MaxBytes = 3
    MaxBufs = 3
    WriteOutcomes = {TRUE, FALSE}
    CloseOutcomes = {TRUE, FALSE}
    WsIdle = TRUE
PROPERTIES ErrorAnswerCloses
CHECK_DEADLOCK FALSE
