SPECIFICATION FairSpec
CONSTANTS
    m1 = m1
    m2 = m2
    n1 = n1
    n2 = n2
    a1 = a1
    a2 = a2
    Mesh = {m1, m2}
    Name = {n1, n2}
    Addr = {a1, a2}
    Confs <- SomeConfs
    Nil = Nil
    Empty = Empty
    NoHost = NoHost
    Limit <- OneEach
    MaxEdits = 2
INVARIANTS
    TypeOK
    NamesServed
PROPERTIES
    StaleNamesGo
    CallsReturn
CHECK_DEADLOCK FALSE
