CONSTANTS
    JobLines <- MixedLines
    None = None
    VALID_ROLES <- Roles
    MAX_ATTEMPTS = 2
    SeenCap = 4
    MaxQueue = 2
    MaxCrashes = 1
    MaxFaults = 1
SPECIFICATION FairSpec
INVARIANTS TypeOK DuplicatesNeedFailure RetriesBounded SettledIsAudited AuditVerifies
PROPERTIES JobsSettle
