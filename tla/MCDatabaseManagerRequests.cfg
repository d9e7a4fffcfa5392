SPECIFICATION Spec
CONSTANTS
    Ids = {1, 2, 3}
    Paths = {p, q}
    Sets = {1, 2, 3}
    Locks = {1, 2, 3}
    Clients = {c1, c2}
    Reaper = reaper
    Cancellable = {"open", "create", "register", "remove", "set_default", "rename"}
    MaxCalls = 3
    None = none
SYMMETRY Symmetric
INVARIANTS
    TypeOK
    OneServiceSet
    OnlyDropsOrphan
    RemovedIsClosed
    RegistrySound
    NoDeadlock
PROPERTIES
    RegisteredFilesStay
