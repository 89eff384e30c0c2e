CONSTANTS
    s1 = s1
    s2 = s2
    Streams = {s1, s2}
    MaxGraphs = 2
    MaxNodes = 3
    MaxExecs = 2
    MaxAllocs = 2
    MaxObjects = 3
    MaxInflight = 2
SPECIFICATION Spec
SYMMETRY StreamSymmetry
INVARIANTS
    UseIsBacked
    MappedWhileBacked
    OneMapping
    MemoryTablesAgree
    ActiveIsBacked
