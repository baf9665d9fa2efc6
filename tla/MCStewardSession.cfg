SPECIFICATION Spec
CONSTANTS
    Procs = {p1, p2}
    MaxTxns = 5
    OneSession = TRUE
    Features = {"freeze", "recover"}
SYMMETRY ProcSymmetry
INVARIANTS
    RecoveryVerified
    CrashDetected
PROPERTIES
    SeqStrictlyIncreasing
    RefinesHistory
