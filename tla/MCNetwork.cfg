SPECIFICATION MCSpec
CONSTANTS
    Threads = {loop, t1, t2}
    Loop = loop
    MaxPosts = 2
    Bytes = {0, 1}
    MaxPush = 3
    RingLen = 3
    MaxRing = 5
    CacheLen = 3
    Slack = 2
    MaxCache = 6
    Addrs = {"a1", "a2"}
    MaxConns = 2
    ServerCloses = 2
    MaxSends = 1
    RequestPieces = 2
    MaxRequests = 2
    ResponsePieces = 3
INVARIANTS
    TypesOK
    NoLostWakeup
    TableHolds
    BodiesSurvive
PROPERTIES
    ImplementsPostQueue
    BuffersImplementQueues
    LoopServes
CHECK_DEADLOCK FALSE
