\* One CPU, switches at any point of two rounds.
CONSTANTS
    NumCPUs = 1
    MaxTime = 4
    MaxSwitches = 2
    Attempts = 2
    MaxRounds = 2
SPECIFICATION Spec
INVARIANTS
    SampleIsWhole
    SplitWithinLag
PROPERTIES
    PrintedIsElapsed
