SPECIFICATION Spec
CONSTANTS
    None = None
    Junk = Junk
    Raises = Raises
    c1 = c1
    sv = sv
    si = si
    SV = SV
    Contents = {c1}
    RawSessions = {sv, si, SV}
    Norm <- MCNorm
    VERIFIER_ROLE = "verifier"
    Digits <- MCDigits
    Rank <- MCRank
    Procs = {p1, p2}
    CodeBases <- MCCodeBases
    FirstCode <- MCFirstCode
    SlicedId = 0
    MaxId = 3
    Semgrep <- MCNoSemgrep
    Verifier = sv
    Implementer = si
    Forged <- MCForged
    PRs <- MCPRs
    MaxEdits = 1
    MaxWrites = 2
INVARIANTS UniqueIds
CHECK_DEADLOCK FALSE
