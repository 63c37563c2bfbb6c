SPECIFICATION Spec
CONSTANTS
    i1 = i1
    i2 = i2
    None = None
    Garbage = Garbage
    IdBits = 2
    K = 1
    Endpoints <- MCEndpoints
    GoodFor = 1
    BadAfter = 2
    RefreshAfter = 1
    Ips <- MCIps
    OwnIds <- MCOwnIds
    Hash <- MCHash
    MaxPeers = 1
    ExpireAfter = 1
    RotateAfter = 2
    MaxQueries = 1
    Workloads <- MCWorkloads
INVARIANTS
    TableSound
    TokensTimely
    AnswersDecodable
PROPERTIES
    GoodNodesKept
    StoreKeeps
CHECK_DEADLOCK FALSE
