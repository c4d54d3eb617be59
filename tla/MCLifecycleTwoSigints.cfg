\* Two signals: the second may swallow the wake-up of thr_.
CONSTANTS
    a1 = a1
    a2 = a2
    d1 = d1
    d2 = d2
    Apps = {a1}
    Daemons = {d1, d2}
    OwnerOf <- OneOwner
    Users = {u}
    SignalCalls = {k1, k2}
    StopCalls = {}
    Thr = thr
    None = none
    WordMax = 7
SPECIFICATION FairSpec
PROPERTY SigintStops
CHECK_DEADLOCK FALSE
