SPECIFICATION Spec
CONSTANTS
    Clients = {c1}
    Tasks = {t1, t2}
    MaxOpens = 2
    MaxSends = 2
    MaxMishaps = 1
    None = None
PROPERTY NothingUnseenDeleted
CHECK_DEADLOCK FALSE
