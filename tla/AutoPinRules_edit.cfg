CONSTANTS
    Clients = {c1, c2}
    Main = Main
    NoOne = NoOne
    IDs = {i1, i2}
    Empty = Empty
    ann = ann
    Ann = Ann
    bob = bob
    Texts <- MCTexts
    Lower <- MCLower
    Substrings <- MCSubstrings
    AnyFile <- MCAnyFile
    Filters <- MCFilters
    Batches <- MCBatches
    MaxRules = 2
    Absent = Absent
    Damaged = Damaged
SPECIFICATION Spec
SYMMETRY Perms
INVARIANTS Agreement Parseable MatchesMeaning
