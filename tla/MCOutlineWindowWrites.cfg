SPECIFICATION WindowSpec
CONSTANTS
    x = x
    y = y
    a = a
    b = b
    s = s
    Nodes = {x, y, a, b, s}
    Spare = {s}
    Top = top
    First = first
    Last = last
    Callers = {c1, c2}
    Unit = 4
    MinGap = 2
    Attempts = 2
    Outlines <- AllOutlines
    MaxRequests = 2
SYMMETRY Symmetry
INVARIANTS
    TypeOK
    NoLoops
    KeysDistinct
    NoLostWrite
    WindowAgrees
PROPERTIES
    DeletesWhatWasShown
    NoSilentRoots
    LandsWhereAsked
    OutlineSpec
CHECK_DEADLOCK FALSE
