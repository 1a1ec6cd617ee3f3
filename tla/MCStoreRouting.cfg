CONSTANTS
    Items = {i1}
    Writers = {w1, w2}
    Sessions = {s1}
    Hashes = {h1}
    Partial = Partial
    Routings = {functional, wiring}
    DefaultRouting = functional
    None = None
    StoreError = StoreError
    MaxRows = 3
    MaxFaults = 0
SPECIFICATION Spec
INVARIANTS RoutingKept
CHECK_DEADLOCK FALSE
SYMMETRY Symmetry
