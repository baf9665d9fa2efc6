SPECIFICATION FairSpec
CONSTANTS
    Threshold = 1
    States = {2, 3}
    Scenarios <- MCScenarios
INVARIANTS
    NoDangling
    Grace
PROPERTIES
    NeverUnpacked
    Settles
