SPECIFICATION Spec
CONSTANTS
    Requests = {"r1"}
    NumGpuBlocks = 3
    BlockSize = 2
    MaxModelLen = 6
    EnableCaching = TRUE
    SkipReading = {}
    Policy = "FCFS"
    MaxNumScheduledTokens = 3
    MaxNumRunningReqs = 2
    LongPrefillThreshold = 0
    EnableChunkedPrefill = TRUE
    AsyncScheduling = FALSE
    BatchQueueSize = 1
    Abortable = {}
    ResetModes = {}
    PauseStates = {}
    NumPromptTokens <- MCPrompts
    MaxTokens <- MCLongOutputs
    Priority <- MCPriority
    Hashes <- MCHashes
    NoHash <- MCNoHash
    BlockHashes <- MCBlockHashes
PROPERTIES
    EveryRequestFinishes
