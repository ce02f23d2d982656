SPECIFICATION FairSpec
CHECK_DEADLOCK FALSE
CONSTANTS
    p1 = p1
    p2 = p2
    c1 = c1
    c2 = c2
    VNI = {1}
    Destination = {"d1", "d2", "d3"}
    NextHop = {"std", "nat", "own"}
    Route <- OneRoute
    TypeOf <- MCTypeOf
    Announced = {}
    Peer = {p1, p2}
    Closer <- OneCloserEach
    Quota <- AnnounceAndSubscribe
INVARIANTS
    TypeOK
    NoMissedRoute
    InstalledFollowsTable
PROPERTIES
    DistributedEventually
    ClosedIsForgotten
    SentFromTable
    LostSubscriptionsEnd
