SPECIFICATION FairSpec
CHECK_DEADLOCK FALSE
CONSTANTS
    i1 = i1
    i2 = i2
    i3 = i3
    o1 = o1
    o2 = o2
    Incoming = {i1, i2, i3}
    Failing = {i1, i2}
    Outgoing = {o1, o2}
    Addr = {"a1", "a2", "b"}
    AddrOf <- MCAddrOf
    Caller = {"c1", "c2"}
INVARIANTS
    TypeOK
    RunningIsFound
    GhostsCameLate
    ShutdownLeavesOne

    
