SPECIFICATION Spec
CONSTANTS
    RTMP_DEFAULT_CHUNKSIZE = 4
    RTMP_EXTENDED_TIMESTAMP = 3
    TimeWord = 8
    ServerMessages <- Offered
    MaxChunks = 2
    MaxMsgs = 3
INVARIANTS
    TypeOK
    ReceivedAsSent
    InStep
PROPERTY
    AllConsumed
