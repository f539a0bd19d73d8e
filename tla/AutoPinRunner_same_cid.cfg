CONSTANTS
    Runs = {r1, r2}
    ann = ann
    bob = bob
    x = x
    y = y
    z = z
    Authors = {ann}
    CIDs = {x}
    Batches <- SameBatches
    MaxBatch = 1
    concurrency = 2
    authorCap = 1
    Wedgeable = {}
SPECIFICATION Spec
CHECK_DEADLOCK FALSE
INVARIANTS CountedOnce
