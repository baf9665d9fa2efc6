SPECIFICATION Spec
CONSTANTS
    DataAt <- AllDifferent
    HeightBits = 2
    TopLevel = 2
    TopBit = 4
    MaxLeaves = 21
    MaxBatch = 3
INVARIANTS
    HeadIsMth
    InclusionExact
    ConsistencyExact
