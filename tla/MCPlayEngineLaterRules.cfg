SPECIFICATION Spec
CONSTANTS
    Plays = {1}
    NoPlay = none
    RuleSets = {"steady"}
    Schemas = {"s1"}
    Valid <- MCValid
    NumRules = 2
    CronRules = {}
    MaxChainDepth = 1
    ChannelCap = 2
    QueueCap = 1
    Reserved = 0
    MaxEdits = 2
    MaxFaults = 0
    MaxStarts = 1
    MaxScans = 0
    ScanSize = 0
INVARIANTS
    LaterRulesStop
