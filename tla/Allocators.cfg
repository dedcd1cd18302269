SPECIFICATION AllocSpec
CONSTANTS
    IntMax = 100
    Size = 5
    Requests = {1, 2, 3}
    Block = 4
    Overhead = 2
    BlockRequests = {1, 2, 4, 5}
    MaxArenas = 4
    MaxLive = 3
    FreesAll = FALSE
    PoolId = {p, q}
    MaxSlabs = 2
    PageSlab = 1
    MovesOnto = 0
    N = 3
INVARIANTS
    AllocationsAreDisjoint
    RefsCountAllocations
    MapsHoldAllocations
    PoolsAreExact
PROPERTIES
    PoolsImplementPool
    AllocReturns
