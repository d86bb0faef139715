SPECIFICATION MCSpec
CONSTANTS
    Rates = {8000, 16000}
    Bits = {8, 16}
    Channels = {1, 2}
    Durations = {20, 30}
    MaxCalls = 4
    Bodies <- SomeBodies
    Sps <- SomeSps
    Pps <- SomePps
    MaxFrames = 2
INVARIANTS
    TypesOK
    StartIsServed
    StopIsFinal
    FaultsExplained
    UnitsSurvive
PROPERTY
    DeleteEnds
CHECK_DEADLOCK FALSE
