CONSTANTS
    u1 = u1
    r1 = r1
    r2 = r2
    r3 = r3
    None = None
    Users <- OneUser
    Requests <- ThreeRequests
    Lifetime = 1
    MaxClock = 2
    Faults <- FaultKinds
SPECIFICATION FairSpec
CHECK_DEADLOCK FALSE
INVARIANTS TypeOK RefreshAtMostOnce NoSessionWithoutAccount SurvivorsWereUnderway
PROPERTIES OnlyCommitsSpend RequestEnds
