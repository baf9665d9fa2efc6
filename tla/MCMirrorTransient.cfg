SPECIFICATION Spec
CONSTANTS
    Ids = {1, 2, 3}
    Names = {51, 52, 53}
    Versions <- MCVersions
    Created <- MCCreated
    Transient = TRUE
    InitialTrees <- MCTrees
    MaxEdits = 3
    MaxVersions = 3
INVARIANT FoldExact
CHECK_DEADLOCK FALSE
