SPECIFICATION Spec
CONSTANTS
    Requests = {r1, r2}
    BlockIds = {b1, b2}
    MaxNumReqs = 2
    MaxBlocksPerReq = 2
    MaxFirstBlocks = 1
    BlocksPerKvBlock = 2
    Preemptible = {r1, r2}
    AsyncScheduling = TRUE
    Regions = {0}
    None = None
SYMMETRY Symmetry
INVARIANTS
    TypeOK
    RowsHoldTheirRequests
    ForwardReadsItsBlocks
