\* CPUs 0 to 2, lines of up to five tokens.
CONSTANTS
    IntMax = 2
    MaxCount = 3
    Lines <- MCLines
SPECIFICATION LifeSpec
INVARIANTS
    ListsExact
    EndIsClean
    OneLateStep
PROPERTY
    StopEnds
