SPECIFICATION Spec
CONSTANTS
    Requests = {"r1", "r2", "r3"}
    NumGpuBlocks = 4
    BlockSize = 2
    MaxModelLen = 6
    EnableCaching = TRUE
    SkipReading = {}
    Policy = "FCFS"
    MaxNumScheduledTokens = 6
    MaxNumRunningReqs = 3
    LongPrefillThreshold = 0
    EnableChunkedPrefill = FALSE
    AsyncScheduling = FALSE
    BatchQueueSize = 1
    Abortable = {"r1", "r2", "r3"}
    ResetModes = {TRUE, FALSE}
    PauseStates = {}
    NumPromptTokens <- MCPrompts
    MaxTokens <- MCMaxTokens
    Priority <- MCPriority
    Hashes <- MCHashes
    NoHash <- MCNoHash
    BlockHashes <- MCBlockHashes
INVARIANTS
    QueuesMatchStatus
    OnlyRunningHoldBlocks
    FcfsOrder
