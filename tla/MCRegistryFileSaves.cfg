SPECIFICATION Spec
CONSTANTS
    Ids = {d1, d2}
    Callers = {c1, c2}
    Inodes = {i1, i2, i3, i4}
    None = none
    MaxSaves = 3
    MaxCancels = 2
    MaxCrashes = 2
CHECK_DEADLOCK FALSE
INVARIANTS
    TypeOK
    OnlySharedTorn
    FileHoldsLive
PROPERTIES
    AtomicSpec
SYMMETRY Symmetry
