SPECIFICATION FairSpec
CHECK_DEADLOCK FALSE
CONSTANTS
    none = none
    NoPorts = none
    Route <- MCRoute
    VNI = {1}
    BodyLen <- MCBodyLen
    BufSize = 17
    MaxBody = 2
    MaxSent = 3
INVARIANTS
    TypeOK
    PacketsSurvive
    RoutesSurvive
PROPERTIES
    EverythingArrives
