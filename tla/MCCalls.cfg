CONSTANTS
    Radix = 14
    Word = 1475789056
    MAX_PAYLOAD = 200
    MaxData = 40
    g_memory_pools_supported = TRUE
    MaxConns = 2
    MaxRequests = 3
SPECIFICATION Spec
INVARIANTS RequestArrives ReplyMatches StreamInSync NobodyStuck
CHECK_DEADLOCK FALSE
