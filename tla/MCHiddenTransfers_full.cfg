CONSTANTS
    Streams = {s1}
    DefaultSlot = s0
    Events = {e1}
    Allocs = {a1}
    MaxHidden = 2
    MaxTransfers = 2
    MaxGen = 1
    MaxItems = 2
SPECIFICATION Spec
INVARIANTS
    CausalCover
    TablesAgree
    NoOrphanTransfer
    QueryNeverBlocks
