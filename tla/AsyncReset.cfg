SPECIFICATION Spec
CONSTANTS
    Requests = {"r1", "r2", "r3"}
    NumGpuBlocks = 5
    BlockSize = 2
    MaxModelLen = 6
    EnableCaching = TRUE
    SkipReading = {}
    Policy = "FCFS"
    MaxNumScheduledTokens = 3
    MaxNumRunningReqs = 2
    LongPrefillThreshold = 0
    EnableChunkedPrefill = TRUE
    AsyncScheduling = TRUE
    BatchQueueSize = 2
    Abortable = {}
    ResetModes = {TRUE}
    PauseStates = {}
    NumPromptTokens <- MCPrompts
    MaxTokens <- MCMaxTokens
    Priority <- MCPriority
    Hashes <- MCHashes
    NoHash <- MCNoHash
    BlockHashes <- MCBlockHashes
INVARIANTS
    OutputsInOrder
