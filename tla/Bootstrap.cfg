SPECIFICATION FairSpec
CONSTANTS
    api = api
    delta = delta
    fx = fx
    Procs <- mcProcs
    Collector = delta
    Api = api
    NItems = 2
    Few = 2
    Window = 3
    Listed = 2
    MaxCrashes = 1
INVARIANTS SeedAllOrNothing SeedingNeverDeadlocks
PROPERTIES EveryServiceComesUp
