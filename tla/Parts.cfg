SPECIFICATION Spec
CONSTANTS
    None = None
    BounceTime = 2
    ClickTime = 5
    HoldTime = 7
    QueueSize = 3
    Delays = {0, 1, 2, 3, 4}
    FlashPeriods = {0, 1, 3, 5}
    FlashBits = {2, 3}
    AddOutcomes = {TRUE}
    DataSizes = {0, 2}
    Rings = {0, 1, 9}
    Pulses = {0, 1, 3}
    RepeatWrap = 16
    MaxLines = 4
    TrimmedLines = 2
    LineChunks = {1, 2}
    OpenOutcomes = {TRUE, FALSE}
    TmpOutcomes = {TRUE}
    MaxChunks = 10
    Macs = {m1, m2, m3}
    NoMac = NoMac
    MaxIp = 2
    Wrap = 32
    Grain = 4
    Lease = 7
    NoSocket = NoSocket
    MaxSockets = 3
    MaxFails = 2
    MaxCalls = 3
INVARIANTS TypeOK NoEdgeLost Alternates Accounted LedObeys  TailKept LeaseKept ExpiryNoticed OneSocket
PROPERTIES WaitEnds Reconnects
CHECK_DEADLOCK FALSE
