SPECIFICATION Spec
CONSTANTS
    r1 = r1
    r2 = r2
    Task <- Tasks
    Window = 6
    Bucket = 2
    Amount = 3
    Burst = 2
    Instants = {1, 6}
    MaxActivities = 2
    MaxTraffic = 2
    MaxPending = 1
    Waiting = 0
SYMMETRY TaskSymmetry
ACTION_CONSTRAINT UsefulTransfer
CHECK_DEADLOCK FALSE
INVARIANTS
    Conserved
    Agreement
    BudgetHeld
    SamplesExactlyOnce
