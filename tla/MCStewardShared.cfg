SPECIFICATION FairSpec
CONSTANTS
    Procs = {p1, p2}
    MaxTxns = 2
    OneSession = FALSE
    Features = {"factory", "compact", "freeze"}
INVARIANTS
    FrozenTip
    NeverBehind
    AuditTrail
    FailedMeansNoData
PROPERTIES
    LockReleased
