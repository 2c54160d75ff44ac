SPECIFICATION Spec
CONSTANTS
    Requests = {r1, r2, r3}
    BlockIds = {b1, b2}
    MaxNumReqs = 3
    MaxBlocksPerReq = 1
    MaxFirstBlocks = 1
    BlocksPerKvBlock = 1
    Preemptible = {}
    AsyncScheduling = FALSE
    Regions = {0, 1, 2}
    None = None
SYMMETRY Symmetry
INVARIANTS
    RowsHoldTheirRequests
    BatchIsSplit
PROPERTIES
    SwapsSettleRows
