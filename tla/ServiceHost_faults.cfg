SPECIFICATION FairSpec
CONSTANTS
    Service = {s1, s2}
    Cid = {c1, c2, c3, c4, c5, c6}
    Blank = Blank
    Nil = Nil
    Empty = Empty
    Limit <- OneEach
    MaxEdits = 3
INVARIANTS
    TypeOK
    NoOrphanIfPatient
PROPERTIES
    ServicesRun
    KillsOnlyRemoved
