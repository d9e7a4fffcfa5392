SPECIFICATION WindowSpec
CONSTANTS
    x = x
    y = y
    a = a
    b = b
    s = s
    Nodes = {x, y, a, b, s}
    Spare = {s}
    Top = top
    First = first
    Last = last
    Callers = {c1}
    Unit = 4
    MinGap = 2
    Attempts = 2
    Outlines <- PlainOutlines
    MaxRequests = 2
INVARIANTS
    WindowFollows
CHECK_DEADLOCK FALSE
