SPECIFICATION Spec
CONSTANTS
    Requests = {"r1", "r2", "r3"}
    NumGpuBlocks = 4
    BlockSize = 2
    MaxModelLen = 6
    EnableCaching = TRUE
    SkipReading = {}
    Policy = "FCFS"
    MaxNumScheduledTokens = 2
    MaxNumRunningReqs = 3
    LongPrefillThreshold = 0
    EnableChunkedPrefill = TRUE
    AsyncScheduling = TRUE
    BatchQueueSize = 2
    Abortable = {"r1"}
    ResetModes = {FALSE}
    PauseStates = {}
    NumPromptTokens <- MCEvictingPrompts
    MaxTokens <- MCMaxTokens
    Priority <- MCPriority
    Hashes <- MCHashes
    NoHash <- MCNoHash
    BlockHashes <- MCBlockHashes
INVARIANTS
    TypeOK
    ComputedTokensWritten
    HashedBlocksComputed
    OutputsInOrder
    NoExtraStep
    CacheClosedUnderPrefix
PROPERTIES
    EveryRequestFinishes
