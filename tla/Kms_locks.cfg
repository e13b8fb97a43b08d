SPECIFICATION FairSpec
CONSTANTS
    Thread = {poller, refresher, http}
    Key = {k1, k2}
    Value = {priv}
    None = None
    Empty = Empty
INVARIANTS
    TypeOK
PROPERTIES
    StoreIsAtomic
    CallsReturn
