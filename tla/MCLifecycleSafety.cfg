\* One App with two daemons, two signals and one call of stop().
CONSTANTS
    a1 = a1
    a2 = a2
    d1 = d1
    d2 = d2
    Apps = {a1}
    Daemons = {d1, d2}
    OwnerOf <- OneOwner
    Users = {u}
    SignalCalls = {k1, k2}
    StopCalls = {s1}
    Thr = thr
    None = none
    WordMax = 7
SPECIFICATION Spec
INVARIANTS TypeOK DaemonsHaveHttp HandlerFound RunningThreadUninterrupted
           StoppedOnlyOnRequest
PROPERTY BarrierRefined
CHECK_DEADLOCK FALSE
