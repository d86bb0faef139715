SPECIFICATION MCSpec
CONSTANTS
    CacheSize = 40
    DefaultChunk = 8
    ChunkSizes = {3, 50}
    Lengths = {6, 30, 60}
    Partials = {0, 10}
    MaxMsgs = 3
    Block = 12
    KeySize = 4
    DigestSize = 3
    Offsets <- AllOffsets
    Clients = {"library", "old", "keep-alive"}
    Servers = {"library", "proper", "silent", "other", "refusing"}
    MaxFrames = 2
    MaxCloses = 2
    Payload = 3
    MaxRecord = 2
    MaxMessages = 2
    MaxQueued = 1
    DtlsStart = 3
    DtlsMost = 12
    Retries = 4
    MaxLost = 2
    MaxRepeated = 1
    MaxWrites = 1
INVARIANT KeyIsServers
