SPECIFICATION Spec
CONSTANTS
    Configs = {f1}
    NoNetwork = NoNetwork
    Interval = 2
    Addresses = {a1}
    NoAddress = NoAddress
    ConnectOutcomes = {TRUE}
    RetryOutcomes = {TRUE}
    SlowJoin = TRUE
    Names = {n1}
    Empty = Empty
    Torn = Torn
    Off = Off
    Minutes = {0, 1}
    TicksPerMinute = 2
    MaxRequests = 2
    DhcpOutcomes = {TRUE}
    Clients = {c1, c2}
    Networks = {s1}
    ScanOutcomes = {TRUE}
INVARIANTS TypeOK RadioMatches ResultsFresh
PROPERTIES FullPeriod Retries NoticeSettles TurnsOff AnsweredOrDropped
