CONSTANTS
    u1 = u1
    u2 = u2
    u3 = u3
    r1 = r1
    r2 = r2
    w1 = w1
    NoTx = NoTx
    Users <- TwoUsers
    Founders <- TwoUsers
    Opening = 1
    Requests <- TwoRequests
    Resets <- OneReset
    Amounts <- UnitAmount
    PoolSize = 2
    MaxBalance = 1
    Faults <- LiveFaults
SPECIFICATION FairSpec
PROPERTIES TransferEnds ResetEnds
