SPECIFICATION FairAll
CONSTANTS
    Proc = {p1}
    Consumer = {c1}
    Values = {v1, v2}
    MaxCommits = 3
    MaxFaults = 1
CHECK_DEADLOCK FALSE
INVARIANTS
    HoldsPublication
PROPERTIES
    Converges
