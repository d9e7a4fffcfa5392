SPECIFICATION FairSpec
CONSTANTS
    d1 = d1
    d2 = d2
    r1 = r1
    r2 = r2
    s1 = s1
    s2 = s2
    s3 = s3
    Dbs = {d1, d2}
    Roots = {r1, r2}
    Streams = {s3}
    HomeOf <- MCHomeOf
    Flickering = {r2}
    Busy = {d1}
    Tasks = {t1}
    BatchSize = 1
    MaxRetries = 2
    Debounce = 1
    MaxEdits = 2
    MaxFaults = 1
    None = none
INVARIANTS
    TypeOK
    FreshIsCurrent
    ArchivedNotSearched
    NeverForgotten
    GivenUpOnCurrentText
    DeferralEnds
    SleepIsTimed
PROPERTIES
    EventuallyEmbedded
