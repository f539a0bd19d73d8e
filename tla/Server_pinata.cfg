SPECIFICATION Spec
CONSTANTS
    c1 = c1
    c2 = c2
    CIDs = {c1, c2}
    NoCID = NoCID
    Callers = {h1, h2}
    Readers = {h1}
    PageSize = 1
    MaxLate = 1
    Items <- MCItems
INVARIANTS
    KnownStatus
    ReportsSound
    ListMeaning
PROPERTIES
    RequestsEnd
