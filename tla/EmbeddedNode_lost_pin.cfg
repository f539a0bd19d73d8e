CONSTANTS
    Callers = {c1, c2}
    x = x
    y = y
    b1 = b1
    b2 = b2
    CIDs = {x, y}
    BadCID = BadCID
    Blocks = {b1, b2}
    Dag <- TwoDags
    MaxChain = 0
    NoCaller = NoCaller
    Absent = Absent
    Damaged = Damaged
    DiskFaults = FALSE
    PowerFails = FALSE
SPECIFICATION ApartSpec
INVARIANT PinsSaved
