SPECIFICATION FairSpec
CHECK_DEADLOCK FALSE
CONSTANTS
    Sender = {"s1", "s2"}
    TxCap = 1
    SockCap = 1
    MaxUpdates = 1
    MaxReplay = 2
    MaxResets = 2
INVARIANTS
    NobodyWaitsForTheDead
PROPERTIES
    DistributionEnds
    ResetEnds
    HandlerEnds
