SPECIFICATION FairSpec
CONSTANTS
    Chars = {1}
    Stamped <- MCStamped
    BlockSize = 2
    MaxBytes = 5
    MaxLength = 4
    MaxRotations = 2
INVARIANT Faithful
PROPERTY BlindOnlyPastBlock
PROPERTY OrphanedOnlyInGap
PROPERTY EventuallyMirrored
CHECK_DEADLOCK FALSE
