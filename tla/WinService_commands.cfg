SPECIFICATION FairSpec
CONSTANTS
    Own = own
    Mesh = {own, m}
    Valid = {own, m}
    Console = {c1, c2}
    Nil = Nil
    MaxCommands = 3
    MaxFaults = 1
INVARIANTS
    TypeOK
    NoStraySource
    NoHalfInstall
PROPERTIES
    StopsWhenTold
    CommandsEnd
CHECK_DEADLOCK FALSE
