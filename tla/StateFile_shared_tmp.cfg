CONSTANTS
    Writers = {w1, w2}
    short = short
    long = long
    Payloads = {short, long}
    Size <- MCSize
    Inodes = {i1, i2, i3, i4}
    NoInode = NoInode
    Absent = Absent
    Damaged = Damaged
    Serialized = FALSE
    PowerFails = FALSE
SPECIFICATION Spec
INVARIANT CanonicalWhole
