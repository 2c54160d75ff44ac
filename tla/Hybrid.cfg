SPECIFICATION Spec
CONSTANTS
    Requests = {"r1", "r2", "r3"}
    NumGpuBlocks = 12
    BlockSize = 2
    MaxModelLen = 10
    MaxNumScheduledTokens = 4
    MaxNumRunningReqs = 3
    BatchQueueSize = 2
    Abortable = {"r1"}
    Groups <- MCGroups
    FullGroup <- MCFullGroup
    BlockHashes <- MCBlockHashes
    NoHash <- MCNoHash
    NumPromptTokens <- MCPrompts
    MaxTokens <- MCMaxTokens
INVARIANTS
    SharedPoolExact
    RunningStateOnDevice
    PublishedStatesExact
    NothingRaises
    TwoStatesPerRequest
PROPERTIES
    HybridRequestsFinish
