SPECIFICATION Spec
CONSTANTS
    Pieces = {p1, p2}
    PieceLength = 2
    Blocks <- MCBlocks
    U32 = 16
    HandshakeSize = 2
INVARIANTS
    UnchokeTold
CHECK_DEADLOCK FALSE
