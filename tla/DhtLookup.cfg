SPECIFICATION Spec
CONSTANTS
    i1 = i1
    i2 = i2
    i3 = i3
    None = None
    Garbage = Garbage
    IdBits = 2
    K = 1
    Endpoints <- MCEndpoints
    GoodFor = 1
    BadAfter = 1
    RefreshAfter = 1
    ALPHA = 2
    LOOKUP_K = 2
    Own <- MCOwn
    Target <- MCTarget
    Known <- MCKnown
    Replies <- MCReplies
    OtherIds <- MCOtherIds
    Kinds = {"find_node", "get_peers", "announce"}
INVARIANTS
    FlightAccounted
    FinishedComplete
    StallsOnlyWhen
    TokensBelong
CHECK_DEADLOCK FALSE
