SPECIFICATION Spec
CHECK_DEADLOCK FALSE
CONSTANTS
    Route <- MCRoute
    Mine <- MCMine
    Offer <- MCOffer
    VNITableMap <- MCTables
    VNI = {1}
    Server = {"s1", "s2"}
    IPv4Only = TRUE
    MaxHops = 1
    MaxUpdates = 1
    MaxCalls = 0
    MaxLosses = 0
    MaxFailures = 0
INVARIANT
    CleanupUponExit
