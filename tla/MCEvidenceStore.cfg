CONSTANTS
    Items = {i1}
    Writers = {w1, w2}
    Sessions = {s1}
    Hashes = {h1}
    Partial = Partial
    Routings = {functional, wiring}
    DefaultRouting = functional
    None = None
    StoreError = StoreError
    MaxRows = 3
    MaxFaults = 1
SPECIFICATION Spec
INVARIANTS TypeOK ProvenHasRow
PROPERTIES ProvenFromUnproven
CHECK_DEADLOCK FALSE
SYMMETRY Symmetry
