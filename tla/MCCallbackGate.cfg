CONSTANTS
    Threads = {t1, t2, t3}
    Worker = w
    Nobody = nobody
SPECIFICATION FairSpec
INVARIANTS
    RuntimeIdleDuringHost
    OnePerSubmission
PROPERTIES
    NotOvertaken
    CallbackRetires
    GateWakes
