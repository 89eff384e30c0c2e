CONSTANTS
    Streams = {s1, s2}
    DefaultSlot = s0
    Events = {}
    Allocs = {a1}
    MaxHidden = 2
    MaxTransfers = 2
    MaxGen = 1
    MaxItems = 3
SPECIFICATION SyncSpec
INVARIANTS
    SyncMakesVisible
