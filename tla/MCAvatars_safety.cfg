CONSTANTS
    u1 = u1
    u2 = u2
    r1 = r1
    r2 = r2
    r3 = r3
    r4 = r4
    None = None
    Users <- TwoUsers
    Requests <- FourRequests
    Limit = 2
    Active = 1
SPECIFICATION Spec
SYMMETRY Symmetry
CHECK_DEADLOCK FALSE
INVARIANTS TypeOK OverLimitOnlyTogether LinksAreGood UnlinkedFilesExplained
