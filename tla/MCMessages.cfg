SPECIFICATION MCSpec
CONSTANTS
    MaxSent = 3
    Values <- CommandObjects
INVARIANTS
    TypesOK
    PacketsSurvive
    ValuesSurvive
    FramesSurvive
CHECK_DEADLOCK FALSE
