SPECIFICATION Spec
CONSTANTS
    Ids = {1, 2, 3}
    Names = {51, 52, 53}
    Versions <- MCVersions
    Created <- MCCreated
    Transient = FALSE
    InitialTrees <- MCTrees
    MaxEdits = 3
    MaxVersions = 3
INVARIANT FoldExact
INVARIANT IdentityKept
PROPERTY NoOpFails
PROPERTY RefusedOnly
CHECK_DEADLOCK FALSE
