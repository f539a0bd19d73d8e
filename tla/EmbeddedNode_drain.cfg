CONSTANTS
    Callers = {c1, c2}
    x = x
    y = y
    b1 = b1
    b2 = b2
    CIDs = {x}
    BadCID = BadCID
    Blocks = {b1, b2}
    Dag <- OneDag
    MaxChain = 1
    NoCaller = NoCaller
    Absent = Absent
    Damaged = Damaged
    DiskFaults = TRUE
    PowerFails = TRUE
SPECIFICATION Spec
INVARIANTS PinnedComplete GatewayWhole DrainedQuiet DeadlineCancelsAll
PROPERTIES GateHolds SoloSavePersists
SYMMETRY Perms
