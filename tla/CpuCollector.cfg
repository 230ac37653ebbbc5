\* All modes; a pipe of two lines, a clock of three timeouts.
CONSTANTS
    Timeout = 1
    PipeSize = 2
    MaxTime = 3
SPECIFICATION FairSpec
INVARIANTS
    FailureIsReal
    NoGhostHelper
    RequiredIsLoud
    FallbackIsRecent
    CloseReaps
PROPERTIES
    EndIsNoticed
    CloseEnds
