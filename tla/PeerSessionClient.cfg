SPECIFICATION ReachableSpec
CHECK_DEADLOCK FALSE
CONSTANTS
    Direction = "OUTGOING"
    MaxRuns = 2
    MaxResets = 2
    MaxKeepalives = 1
    MaxData = 2
    Failures = {"eof", "write", "resolve", "garbage", "timeout"}
    Calls = 0
    TxCap = 1
    RxCap = 1
    DataCap = 1
INVARIANTS
    NoNilConnection
    HandshakeInOrder
    TypeOK
PROPERTIES
    ReconnectsEventually
