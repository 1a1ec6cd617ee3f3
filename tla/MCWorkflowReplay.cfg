SPECIFICATION Spec
CONSTANTS
    a = a
    b = b
    t = t
    yes = yes
    list = list
    tuple = tuple
    Activities = {a, b}
    Timers = {t}
    Versions = {1, 2, 3}
    Body <- MCBody
    Values = {yes, tuple, list}
    Loaded <- MCLoaded
    Canonical <- MCCanonical
    Fired = Fired
    Failed = Failed
    None = None
    max_attempts = 2
    MaxCommands = 3
    MaxCrashes = 1
    MaxUpgrades = 0
    MaxDamages = 0
INVARIANT SameBodyReplays
CHECK_DEADLOCK FALSE
