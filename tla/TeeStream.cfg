SPECIFICATION Spec
CONSTANTS
    ChunkSize = 3
    FileSize = 8
    Capacity = 2
    MaxPiece = 4
INVARIANTS  WholeBodyIsCached
PROPERTIES WriterEnds CopiesInOrder
CHECK_DEADLOCK FALSE
