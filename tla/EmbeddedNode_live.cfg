CONSTANTS
    Callers = {c1, c2}
    x = x
    y = y
    b1 = b1
    b2 = b2
    CIDs = {x}
    BadCID = BadCID
    Blocks = {b1}
    Dag <- TinyDag
    MaxChain = 1
    NoCaller = NoCaller
    Absent = Absent
    Damaged = Damaged
    DiskFaults = FALSE
    PowerFails = FALSE
SPECIFICATION OneLifeSpec
PROPERTIES PinReturns DrainReturns
