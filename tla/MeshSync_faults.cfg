SPECIFICATION Spec
CONSTANTS
    m1 = m1
    m2 = m2
    k1 = k1
    k2 = k2
    k3 = k3
    k4 = k4
    k5 = k5
    k6 = k6
    k7 = k7
    k8 = k8
    Mesh = {m1, m2}
    Key = {k1, k2, k3, k4, k5}
    Nil = Nil
    Empty = Empty
    Joined <- JoinedOne
    Limit <- FaultLimit
    MaxEdits = 1
    MaxCopies = 0
    Overlap = FALSE
INVARIANTS
    EtagNamesConf
    RunsWhatConfSays
PROPERTIES
    SkipIsSound
