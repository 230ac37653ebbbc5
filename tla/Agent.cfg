\* Both modes; the limit of --once is 7, and cycles take any time.
CONSTANTS
    Interval = 2
    MaxTime = 9
    Timeout = 7
    StaleAfter = 6
    MaxLag = 1
SPECIFICATION AgentSpec
INVARIANTS
    OnSchedule
    NeverEarly
    ZeroMeansClean
PROPERTIES
    SlotsInOrder
    Retries
    Ends
