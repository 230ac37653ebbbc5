\* Every sysfs with three names.
CONSTANTS
    Names = {n1, n2, n3}
    Unknown = Unknown
SPECIFICATION FairSpec
INVARIANTS
    BackingExact
PROPERTIES
    WalkEnds
