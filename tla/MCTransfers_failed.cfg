CONSTANTS
    u1 = u1
    u2 = u2
    u3 = u3
    r1 = r1
    r2 = r2
    w1 = w1
    NoTx = NoTx
    Users <- TwoUsers
    Founders <- TwoUsers
    Opening = 2
    Requests <- TwoRequests
    Resets <- OneReset
    Amounts <- UnitAmount
    PoolSize = 2
    MaxBalance = 2
    Faults <- RedisFault
SPECIFICATION Spec
INVARIANTS FailedMeansNotApplied
