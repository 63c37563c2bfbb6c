SPECIFICATION FairSpec
CONSTANTS
    MaxFiles = 3
    Lengths <- MCLengths
    PieceLengths <- MCPieceLengths
INVARIANTS
    TypeOK
    Tiled
    LookupAgrees
    BufferFits
    EveryByteOnce
PROPERTIES
    MappingEnds
CHECK_DEADLOCK FALSE
