SPECIFICATION Spec
CONSTANTS
    Plays = {1}
    NoPlay = none
    RuleSets = {"steady", "fragile"}
    Schemas = {"s1", "s2"}
    Valid <- MCValid
    NumRules = 1
    CronRules = {}
    MaxChainDepth = 1
    ChannelCap = 2
    QueueCap = 1
    Reserved = 0
    MaxEdits = 3
    MaxFaults = 1
    MaxStarts = 2
    MaxScans = 0
    ScanSize = 0
INVARIANTS
    TypeOK
    IndexMatches
    SettledAgreement
    CacheInv
PROPERTIES
    OnlyLivePlaysRun
