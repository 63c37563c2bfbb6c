SPECIFICATION Spec
CONSTANTS
    Pieces = {p1, p2}
    PieceLength = 2
    Blocks <- MCBlocks
    U32 = 16
    HandshakeSize = 2
INVARIANTS
    AvailabilityExact
    TornOnlyByRequests
    InterestTold
CHECK_DEADLOCK FALSE
