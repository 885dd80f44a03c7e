SPECIFICATION ScanFairSpec
CONSTANTS
    Clients = {c1, c2}
    Networks = {s1, s2}
    ScanOutcomes = {TRUE}
PROPERTIES EveryScanAnswered
