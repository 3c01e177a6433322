CONSTANTS
    u1 = u1
    u2 = u2
    n1 = n1
    n2 = n2
    s1 = s1
    t1 = t1
    None = None
    Users <- TwoUsers
    Logins <- TwoLogins
    Sockets <- OneSocket
    Transfers <- OneTransfer
    MaxCopies = 2
    MaxChanges = 3
    MaxRedeliveries = 1
SPECIFICATION FairSpec
INVARIANTS TypeOK ToldByLogin NewsIsTrue RecordedPerDelivery
PROPERTIES EventIsHandled
