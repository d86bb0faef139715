SPECIFICATION Spec
CONSTANTS
    CacheSize = 40
    DefaultChunk = 8
    ChunkSizes = {3, 50}
    Lengths = {6, 30, 60}
    Partials = {0, 10}
    MaxMsgs = 3
INVARIANT
    CacheFree
