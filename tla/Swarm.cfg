SPECIFICATION FairSpec
CONSTANTS
    Addrs = {a1}
    Conns = {c1, c2}
    MaxPeers = 2
INVARIANTS
    TypeOK
    PendingExact
    OneRequestPerAddress
    DestroyedByOne
    NoLeak
PROPERTIES
    RequestEnds
    BrokenPeerLeaves
CHECK_DEADLOCK FALSE
