CONSTANTS
    u1 = u1
    u2 = u2
    u3 = u3
    r1 = r1
    r2 = r2
    w1 = w1
    NoTx = NoTx
    Users <- TwoUsers
    Founders <- OneUser
    Opening = 2
    Requests <- TwoRequests
    Resets <- OneReset
    Amounts <- SmallAmounts
    PoolSize = 2
    MaxBalance = 2
    Faults <- FaultKinds
SPECIFICATION Spec
SYMMETRY RequestSymmetry
INVARIANTS TypeOK NonNegative NothingLeftBehind InFlightAccounts HonestOutcome
PROPERTIES TransfersConserve ResetLeavesNothing ImplementsLedger
