SPECIFICATION FairSpec
CONSTANTS
    k1 = k1
    k2 = k2
    k3 = k3
    Key = {k1, k2, k3}
    None = None
    Nil = Nil
    Empty = Empty
    Lists <- SomeLists
    Limit <- Faults
    MaxEdits = 2
INVARIANTS
    TypeOK
    KeySaved
PROPERTIES
    TriesAllKeys
    FindsKey
    PollsGoOn
CHECK_DEADLOCK FALSE
