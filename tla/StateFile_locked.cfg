CONSTANTS
    Writers = {w1, w2}
    short = short
    long = long
    Payloads = {short, long}
    Size <- MCSize
    Inodes = {i1, i2, i3}
    NoInode = NoInode
    Absent = Absent
    Damaged = Damaged
    Serialized = TRUE
    PowerFails = TRUE
SPECIFICATION Spec
INVARIANTS CanonicalWhole
PROPERTY RegisterSpec
SYMMETRY Perms
