CONSTANTS
    p1 = p1
    p2 = p2
    n1 = n1
    n2 = n2
    c1 = c1
    c2 = c2
    r1 = r1
    r2 = r2
    r3 = r3
    None = None
    Phones <- OnePhone
    Logins <- OneLogin
    Codes <- OneCode
    Requests <- ThreeRequests
    MayFail = FALSE
SPECIFICATION Spec

PROPERTIES LiveAccountsSurvive
