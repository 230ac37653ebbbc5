\* Three collectors, two cycles in each run.
CONSTANTS
    Order <- MCOrder
    Normalization = "normalization"
    Series <- MCSeries
    Returns <- MCReturns
    Categories <- MCCategories
    Owners <- MCOwners
    Main <- MCMain
    Whole <- MCWhole
    MaxCycles = 2
SPECIFICATION Spec
INVARIANTS
    FailureContained
    RenderSafe
    StatusHonest
