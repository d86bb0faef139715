SPECIFICATION Spec
CONSTANTS
    Devices = {"video", "audio"}
    Batches = {0, 1, 2}
    MaxPackets = 2
INVARIANTS
    TypeOK
    PacketsShared
    NoCallbackAfterDelete
PROPERTY
    StopEnds
