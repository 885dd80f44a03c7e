SPECIFICATION Spec
CONSTANTS
    Base = 2
    Bits = 1
    AddrSize = 2
    CmdSize = 2
    AnyAddr = AnyAddr
    None = None
    Interval <- IntervalValue
    MinRepeats <- MinRepeatsValue
    MsgTimeout = 90
    BitTimeout = 7
    Address = AnyAddr
    Links <- LinksValue
    Tmos = {"error", "keep"}
    Messages <- MessagesValue
    Delays = {4, 16}
    MaxGap = 34
    MaxNoise = 1
INVARIANTS TypeOK FreshHeard AtRest AllFramesSent NotStale
PROPERTIES EvenFrames MessageEnds
