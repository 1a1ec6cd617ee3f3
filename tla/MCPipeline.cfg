CONSTANTS
    Threads = {t1, t2}
    Issues = {i1, i2}
    States = {"Agent-Triaged", "Agent-Executing"}
    None = None
    SeenCap = 1
    MaxEvents = 2
    MaxPosts = 2
    MaxCrashes = 1
    MaxFaults = 0
    MaxDeaths = 1
SPECIFICATION PipelineSpec
CHECK_DEADLOCK FALSE
INVARIANTS OneAgentPerDelivery CurrentJobRuns
PROPERTIES QueueDrains
