CONSTANTS
    ann = ann
    bob = bob
    x = x
    y = y
    CIDs = {x, y}
    BadCID = BadCID
    NoCID = NoCID
    Authors = {ann, bob}
    Tables <- MCTables
    MaxVersion = 2
    Main = Main
    Ticker = Ticker
    Handlers = {h}
SPECIFICATION Spec
CHECK_DEADLOCK FALSE
INVARIANTS TypeOK ItemsMeaning BatchesApart LateCallsRejected
PROPERTIES NeverOlder ShutdownEnds
