SPECIFICATION Spec
CONSTANTS
    HsUnits = 3
    StreamIds = {1, 2}
    MaxMsgs = 5
INVARIANTS
    TypeOK
    FaultsExplained
    NothingOutlivesClient
    ProtocolOrder
PROPERTY
    StopCompletes
