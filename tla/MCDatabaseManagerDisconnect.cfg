SPECIFICATION Spec
CONSTANTS
    Ids = {1, 2}
    Paths = {p, q}
    Sets = {1, 2}
    Locks = {1, 2, 3, 4}
    Clients = {c1, c2}
    Reaper = reaper
    Cancellable = {"open"}
    MaxCalls = 2
    None = none
INVARIANTS
    NoOrphans
