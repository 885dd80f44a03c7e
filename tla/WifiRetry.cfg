SPECIFICATION StationFairSpec
CONSTANTS
    Configs = {c1, c2}
    NoNetwork = NoNetwork
    Interval = 3
    Addresses = {a1, a2}
    NoAddress = NoAddress
    ConnectOutcomes = {TRUE}
    RetryOutcomes = {TRUE, FALSE}
    SlowJoin = TRUE
PROPERTIES Retries
