SPECIFICATION HeapSpec
CONSTANTS
    HeapWords = 12
    MaxChunk = 7
INVARIANTS
    HeapTypeOK
    GapsAnnounced
    ChunksMeet
PROPERTY
    WalkEnds
