SPECIFICATION Spec
CONSTANTS
    Requests = {"r1", "r3"}
    NumGpuBlocks = 8
    BlockSize = 1
    MaxModelLen = 7
    EnableCaching = TRUE
    SkipReading = {}
    Policy = "PRIORITY"
    MaxNumScheduledTokens = 3
    MaxNumRunningReqs = 2
    LongPrefillThreshold = 2
    EnableChunkedPrefill = TRUE
    AsyncScheduling = FALSE
    BatchQueueSize = 1
    Abortable = {}
    ResetModes = {}
    PauseStates = {}
    NumPromptTokens <- MCLongPrompt
    MaxTokens <- MCLongOutputs
    Priority <- MCPriority
    Hashes <- MCHashes
    NoHash <- MCNoHash
    BlockHashes <- MCBlockHashes
INVARIANTS
    ComputedTokensWritten
