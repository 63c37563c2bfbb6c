SPECIFICATION Spec
CONSTANTS
    Peers = {p1, p2}
    Info <- MCInfo
    Bytes = {"a", "b"}
    Sizes = {0, 2, 3, 4, 15}
    Ids = {0, 1, 3, 4}
    PieceSize = 2
    DataMax = 3
    U8 = 4
    SizeMod = 16
INVARIANTS
    CompletedOnce
    HonestCompletes
