SPECIFICATION Spec
CONSTANTS
    p1 = p1
    p2 = p2
    v1 = v1
    v2 = v2
    Proc <- Pushers
    Values <- Contents
    MaxCommits = 3
    MaxFaults = 1
SYMMETRY ProcSymmetry
CONSTRAINT FileChanges
ACTION_CONSTRAINT UsefulCopy
CHECK_DEADLOCK FALSE
INVARIANTS
    RowComplete
    AckPublished
PROPERTIES
    RefinesPublishedHistory
