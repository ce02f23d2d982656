SPECIFICATION Spec
CONSTANTS
    VNI = {1, 2}
    Destination = {"d1", "d2"}
    NextHop = {"h1", "h2"}
    Peer = {p1, p2}
    Route <- MCRoute
INVARIANTS
    NoEmptyLevel
PROPERTY
    RefinesRelation
