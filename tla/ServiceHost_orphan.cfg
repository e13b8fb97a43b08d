SPECIFICATION Spec
CONSTANTS
    Service = {s1, s2}
    Cid = {c1, c2, c3, c4, c5, c6}
    Blank = Blank
    Nil = Nil
    Empty = Empty
    Limit <- NoFaults
    MaxEdits = 3
INVARIANTS
    NoOrphan
