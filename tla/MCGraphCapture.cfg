CONSTANTS
    t1 = t1
    t2 = t2
    s1 = s1
    Nobody = Nobody
    Threads = {t1, t2}
    Streams = {s1}
    MaxGraphs = 3
    MaxNodes = 3
SPECIFICATION Spec
SYMMETRY Symmetry
INVARIANTS
    CaptureAgrees
    FrontierAgrees
    TrackedGraphs
PROPERTY CaptureIsComplete
