CONSTANTS
    Runs = {r1, r2}
    ann = ann
    bob = bob
    x = x
    y = y
    z = z
    Authors = {ann, bob}
    CIDs = {x, y, z}
    Batches <- CallBatches
    MaxBatch = 3
    concurrency = 1
    authorCap = 1
    Wedgeable = {ann}
SPECIFICATION FreshSpec
CHECK_DEADLOCK FALSE
INVARIANTS SharedBound FirstOfEachAuthor ReturnedQuiet ResultAccounts
PROPERTIES RunReturns CancelledReturns
