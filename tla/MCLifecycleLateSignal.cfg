\* A call of stop() and a signal that a daemon's thread takes.
CONSTANTS
    a1 = a1
    a2 = a2
    d1 = d1
    d2 = d2
    Apps = {a1}
    Daemons = {d1, d2}
    OwnerOf <- OneOwner
    Users = {}
    SignalCalls = {k1}
    StopCalls = {s1}
    Thr = thr
    None = none
    WordMax = 7
SPECIFICATION FairSpec
PROPERTY HaltReturns
CHECK_DEADLOCK FALSE
