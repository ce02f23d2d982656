SPECIFICATION FairSpec
CHECK_DEADLOCK FALSE
CONSTANTS
    Direction = "INCOMING"
    MaxRuns = 1
    MaxResets = 2
    MaxKeepalives = 1
    MaxData = 2
    Failures = {"eof", "timeout", "garbage"}
    Calls = 1
    TxCap = 1
    RxCap = 1
    DataCap = 1
INVARIANTS
    HandshakeInOrder

    
