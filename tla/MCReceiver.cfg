SPECIFICATION Spec
CHECK_DEADLOCK FALSE
CONSTANTS
    Route <- MCRoute
    Mine <- MCMine
    Offer <- MCOffer
    VNITableMap <- MCTables
    VNI = {1}
    Server = {"s1", "s2"}
    IPv4Only = TRUE
    MaxHops = 1
    MaxUpdates = 2
    MaxCalls = 2
    MaxLosses = 1
    MaxFailures = 1
INVARIANTS
    KernelFollowsRoutes
    RecordsAgree
    InstalledIsKnown
    LostServerLeavesNothing
    CleanExit
