CONSTANTS
    j1 = j1
    j2 = j2
    j3 = j3
    Jobs <- ThreeJobs
    Concurrency = 2
    MaxStalled = 1
    MaxLosses = 2
SPECIFICATION FairSpec
CHECK_DEADLOCK FALSE
INVARIANTS TypeOK AgainOnlyIfLost
PROPERTIES ImplementsResetRequests
