SPECIFICATION Spec
CHECK_DEADLOCK FALSE
CONSTANTS
    p1 = p1
    p2 = p2
    c1 = c1
    c2 = c2
    VNI = {1, 2}
    Destination = {"d1", "d2", "d3"}
    NextHop = {"std", "nat", "own"}
    Route <- ManyRoutes
    TypeOf <- MCTypeOf
    Announced <- OwnRoute
    Peer = {p1, p2}
    Closer <- TwoClosersOfOne
    Quota <- TwoAnnouncers
INVARIANTS
    NoNatEcho
    DeadLeavesNoRoutes
    RecordsAgree
