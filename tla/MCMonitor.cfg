\* Two clients, two collectors, three starts of workers.
CONSTANTS
    cpu = cpu
    gpu = gpu
    Clients = {c1, c2}
    Names = {n1, n2}
    Categories = {cpu, gpu}
    Requests <- MCRequests
    MaxStarts = 3
    MaxSeq = 2
    MaxCalls = 5
SPECIFICATION FairSpec
INVARIANTS
    OneWorker
    NoCloseWhileCollecting
    NoLeakedCollector
    NoSleeperLeftBehind
    NoMissedSnapshot
    ScrapeOfOneCycle
PROPERTIES
    ImplementsService
    StopSettles
    StopWakesWaiters
