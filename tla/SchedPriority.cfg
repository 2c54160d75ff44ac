SPECIFICATION Spec
CONSTANTS
    Requests = {"r1", "r2"}
    NumGpuBlocks = 4
    BlockSize = 2
    MaxModelLen = 6
    EnableCaching = TRUE
    SkipReading = {}
    Policy = "PRIORITY"
    MaxNumScheduledTokens = 5
    MaxNumRunningReqs = 2
    LongPrefillThreshold = 2
    EnableChunkedPrefill = TRUE
    AsyncScheduling = TRUE
    BatchQueueSize = 2
    Abortable = {"r1"}
    ResetModes = {TRUE}
    PauseStates = {"PAUSED_NEW", "PAUSED_ALL"}
    NumPromptTokens <- MCPrompts
    MaxTokens <- MCMaxTokens
    Priority <- MCPriority
    Hashes <- MCHashes
    NoHash <- MCNoHash
    BlockHashes <- MCBlockHashes
INVARIANTS
    ScheduleAddsUp
PROPERTIES
    ImplementsClient
