CONSTANTS
    Threads = {t1, t2}
    Issues = {i1}
    States = {"Agent-Triaged", "Agent-Executing", "In-Verification"}
    None = None
    SeenCap = 1
    MaxEvents = 2
    MaxPosts = 4
    MaxCrashes = 1
    MaxFaults = 1
SPECIFICATION Spec
SYMMETRY Symmetry
CHECK_DEADLOCK FALSE
INVARIANTS TypeOK EnqueuedOnce AckNotLost
