SPECIFICATION FairSpec
CONSTANTS
    Readers = {"r1", "r2"}
    MaxChunks = 2
    CanTimeOut = {"r2"}
    CanShutDown = {"r1"}
    MaxMessages = 3
INVARIANTS
    FlowControl
    NoLostWakeup
PROPERTIES
    ImplementsBroadcast
    NobodyWaitsForever
CHECK_DEADLOCK FALSE
