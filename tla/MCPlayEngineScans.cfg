SPECIFICATION FairSpec
CONSTANTS
    Plays = {1, 2}
    NoPlay = none
    RuleSets = {"steady"}
    Schemas = {"s1"}
    Valid <- MCValid
    NumRules = 2
    CronRules = {1}
    MaxChainDepth = 1
    ChannelCap = 2
    QueueCap = 2
    Reserved = 1
    MaxEdits = 1
    MaxFaults = 0
    MaxStarts = 1
    MaxScans = 1
    ScanSize = 2
INVARIANTS
PROPERTIES
    ChainsEnd
    ScansComplete
