SPECIFICATION FairSpec
CHECK_DEADLOCK FALSE
CONSTANTS
    s1 = s1
    s2 = s2
    c1 = c1
    c2 = c2
    VNI = {1}
    Destination = {"d1"}
    NextHop = {"h"}
    Route <- OneRoute
    Server = {s1, s2}
    Caller = {c1, c2}
    MaxCalls = 2
    MaxLosses = 1
INVARIANTS
    TypeOK
    ServersAgree
    NoLostSubscription
PROPERTIES
    ServersLearn
