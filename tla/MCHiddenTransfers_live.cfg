CONSTANTS
    Streams = {s1}
    DefaultSlot = s0
    Events = {}
    Allocs = {a1, a2}
    MaxHidden = 2
    MaxTransfers = 2
    MaxGen = 2
    MaxItems = 2
SPECIFICATION FairSpec
INVARIANT RightData
PROPERTY CallReturns
