SPECIFICATION FairSpec
CONSTANTS
    k1 = k1
    k2 = k2
    k3 = k3
    Key = {k1, k2, k3}
    None = None
    Nil = Nil
    Empty = Empty
    Lists <- SomeLists
    Limit <- NoFaults
    MaxEdits = 1
CHECK_DEADLOCK FALSE
PROPERTIES
    EditsArePickedUp
