SPECIFICATION FairSpec
CONSTANTS
    Clients = {c1, c2}
    Tasks = {t1, t2}
    MaxOpens = 2
    MaxSends = 2
    MaxMishaps = 1
    None = None
INVARIANTS TypeOK AnsweredOnce
PROPERTIES DeletedAsShown UserTitleKept EventuallyIdle
CHECK_DEADLOCK FALSE
