CONSTANTS
    u1 = u1
    u2 = u2
    r1 = r1
    r2 = r2
    None = None
    Users <- TwoUsers
    Founders <- OneFounder
    Requests <- TwoRequests
    AccessLife = 2
    RefreshLife = 3
    Delay = 1
SPECIFICATION Spec
SYMMETRY Symmetry
INVARIANTS TypeOK RightsEnd
PROPERTIES AdminsByAdmins PromotedWhileLive
