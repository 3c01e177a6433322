CONSTANTS
    r1 = r1
    r2 = r2
    r3 = r3
    None = None
    Requests <- ThreeRequests
    TTL = 2
    Delay = 1
SPECIFICATION Spec
SYMMETRY Symmetry
INVARIANTS TypeOK OnlyLateReadersUndoATransfer
PROPERTIES FreshAnswers NobodyIsMissing
