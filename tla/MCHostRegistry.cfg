CONSTANTS
    PageSize = 2
    Pages = 5
    AppPages = {0, 1, 2}
    MaxEntries = 3
    None = None
SPECIFICATION FairSpec
INVARIANTS
    LocksFollowEntries
    StorageHeld
PROPERTY ReleaseReturns
