SPECIFICATION FairSpec
CONSTANTS
    a = a
    b = b
    t = t
    yes = yes
    list = list
    tuple = tuple
    Activities = {a, b}
    Timers = {t}
    Versions = {1, 2, 3}
    Body <- MCBody
    Values = {yes, tuple, list}
    Loaded <- MCLoaded
    Canonical <- MCCanonical
    Fired = Fired
    Failed = Failed
    None = None
    max_attempts = 2
    MaxCommands = 3
    MaxCrashes = 2
    MaxUpgrades = 1
    MaxDamages = 1
INVARIANTS DecisionsReplayed AttemptsBounded
PROPERTIES RecordedNotRerun ImplementsRun WorkflowEnds
CHECK_DEADLOCK FALSE
