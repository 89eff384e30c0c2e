CONSTANTS
    ARENA_BYTES = 12
    ALIGNMENT = 4
    GUARD_BYTES = 2
    Sizes = {2}
    Pitches = {4}
    MaxSlots = 2
    MAX_ALLOCS = 2
    MAX_POOLS = 2
    MAX_POOL_HANDLES = 2
    Storage = {m1, m2}
    NativePools = {p1}
    DevicePool = p0
    MaxGen = 2
    MaxIds = 2
    MaxWork = 2
SPECIFICATION FairSpec
INVARIANTS TablesAgree WorkHasStorage PoolsAgree NextSessionPristine
PROPERTIES PointersMean CleanupEnds
CHECK_DEADLOCK FALSE
