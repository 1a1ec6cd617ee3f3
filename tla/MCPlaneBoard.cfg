CONSTANTS
    Agents = {"v", "i"}
    Issues = {w1}
    Holds <- VerifierAndImplementer
    Boards <- TwoBoards
    Unresolved = Unresolved
    None = None
    Torn = Torn
    BLOCK_STREAK_HANDOFF = 2
    MaxCommands = 3
    MaxFaults = 1
SPECIFICATION Spec
INVARIANTS TypeOK NoOrphanedComment ProvenHasEvidence SelfHealBounded
PROPERTIES GateOrder
CHECK_DEADLOCK FALSE
