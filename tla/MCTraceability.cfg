SPECIFICATION Spec
CONSTANTS
    a = a
    t = t
    e = e
    r1 = r1
    r2 = r2
    w = w
    x = x
    Files = {a, t, e}
    Allowed = {t}
    Excluded = {e}
    Ids = {r1, r2}
    WireIds = {w}
    NoFile = NoFile
    NoItem = NoItem
    NoPR = NoPR
    Units <- MCUnits
    Items <- MCItems
    PRs = {p1, p2}
    FirstTree <- MCFirstTree
    MaxPRs = 2
SYMMETRY Symmetry
INVARIANTS TypeOK ForwardTraced NoDangling BackwardTraced LocalAgrees
CHECK_DEADLOCK FALSE
