SPECIFICATION Spec
CONSTANTS
    MSS = 1
    SNDBUF = 1
    Pcbs = {p1, p2}
    NoPcb = NoPcb
    HandleMin = 1
    HandleMax = 3
    Requests = {"page", "upgrade", "bad_upgrade", "text", "ping", "close"}
    MaxPipelined = 2
    MaxBytes = 2
    WriteOutcomes = {TRUE, FALSE}
    CloseOutcomes = {TRUE, FALSE}
INVARIANTS TypeOK TablesAgree MappedConnected NoOrphan AnswerKeepsClient
