SPECIFICATION Spec
CONSTANTS
    Threads = {t1, t2}
    Files = {f1}
    MaxApplied = 2
SYMMETRY ThreadSymmetry
INVARIANTS
    DrainIsExclusive
    NoMutationLost
PROPERTIES
    QueryIsFresh
