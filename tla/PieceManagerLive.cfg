SPECIFICATION FairSpec
CONSTANTS
    NumPieces = 1
    PieceLength = 2
    TotalLength = 2
    BlockSize = 1
    WrongLength = 1
    MaxPerRound = 4
    MaxDiscarded = 1
    Segments <- MCSegments
    Priority <- MCPriority
    Conns = {c1, c2}
    Incoming = {c2}
PROPERTIES
    CompletePieceSettled
    HeldPieceReachesDisk
    
    ImplementsPieceStore
CHECK_DEADLOCK FALSE
