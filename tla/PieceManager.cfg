SPECIFICATION Spec
CONSTANTS
    NumPieces = 2
    PieceLength = 2
    TotalLength = 3
    BlockSize = 1
    WrongLength = 1
    MaxPerRound = 4
    MaxDiscarded = 1
    Segments <- MCSegments
    Priority <- MCPriority
    Conns = {c1, c2}
    Incoming = {c2}
INVARIANTS
    TypeOK
    HeldPiecesIntact
    OnlyVerifiedBytesWritten
    HeldPiecesAccounted
    NoLostWakeup
    BytesAccounted
PROPERTIES
    BlocksKept
CHECK_DEADLOCK FALSE
