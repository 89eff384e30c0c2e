CONSTANTS
    Streams = {s1, s2}
    DefaultSlot = s0
    Events = {e1}
    Allocs = {a1}
    MaxHidden = 2
    MaxTransfers = 2
    MaxGen = 1
    MaxItems = 2
SPECIFICATION OrderSpec
SYMMETRY Symmetry
INVARIANTS
    SyncMakesVisible
    DrainKeepsOrder
