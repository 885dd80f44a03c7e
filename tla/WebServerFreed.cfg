SPECIFICATION Spec
CONSTANTS
    MSS = 1
    SNDBUF = 1
    Pcbs = {p1, p2}
    NoPcb = NoPcb
    HandleMin = 1
    HandleMax = 3
    Requests = {"page"}
    MaxPipelined = 2
    MaxBytes = 1
    WriteOutcomes = {TRUE, FALSE}
    CloseOutcomes = {TRUE, FALSE}
INVARIANTS NoUseAfterFree
