CONSTANTS
    t1 = t1
    t2 = t2
    h1 = h1
    h2 = h2
    Threads = {t1, t2}
    Events = {e1}
    Handlers = {h1, h2}
    Keys = {"k1", "k2"}
    KeyOf <- HandlerKeys
    StepIds = {s1}
    Values = {v1}
    Error = Error
    NoOne = NoOne
    MaxWork = 2
    MaxCrashes = 1
SPECIFICATION FairSpec
INVARIANTS TypeOK OneOutcome AtLeastOnce EffectivelyOnce
PROPERTIES PersistedStepsNotRerun EventuallyDelivered
