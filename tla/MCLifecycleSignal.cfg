\* Two Apps with a daemon each, and one signal or one call of stop().
CONSTANTS
    a1 = a1
    a2 = a2
    d1 = d1
    d2 = d2
    Apps = {a1, a2}
    Daemons = {d1, d2}
    OwnerOf <- TwoOwners
    Users = {u}
    SignalCalls = {k1}
    StopCalls = {s1}
    Thr = thr
    None = none
    WordMax = 7
SPECIFICATION OneCallSpec
INVARIANT HandlerTouchesLiveApps
PROPERTIES UserHandlerKept StopReturns EveryAppStops
CHECK_DEADLOCK FALSE
