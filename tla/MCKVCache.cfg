SPECIFICATION Spec
CONSTANTS
    Requests = {"r1", "r2", "r3"}
    NumGpuBlocks = 5
    BlockSize = 2
    MaxModelLen = 4
    Hashes <- MCHashes
    NoHash <- MCNoHash
    BlockHashes <- MCBlockHashes
    EnableCaching = TRUE
    SkipReading = {"r2"}
    NumPromptTokens <- MCPrompts
    MaxPlaceholders = 1
    InvalidReports <- MCReports
INVARIANTS
    FreeQueueExact
    RefCountExact
    CacheIndexExact
    UncachedTailHasNoHash
    CachedPrefixMatches
    TableCoversSlots
    SharedOnlyAsPrefix
    CapacityCheckSuffices
    CommonPrefixIsCommon
