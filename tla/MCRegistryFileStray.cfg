SPECIFICATION Spec
CONSTANTS
    Ids = {d1, d2}
    Callers = {c1, c2}
    Inodes = {i1, i2, i3, i4}
    None = none
    MaxSaves = 2
    MaxCancels = 1
    MaxCrashes = 0
CHECK_DEADLOCK FALSE
INVARIANTS
    NeverTorn
