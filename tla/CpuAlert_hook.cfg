\* Two CPUs, two intervals.
CONSTANTS
    NumCPUs = 2
    Threshold = 40
    Interval = 1
    MaxTime = 4
    MaxSwitches = 3
    MaxWindows = 2
SPECIFICATION Spec
INVARIANTS
    HookAboveThreshold
CHECK_DEADLOCK FALSE
