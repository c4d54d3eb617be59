\* Two requests on two daemons.
CONSTANTS
    Requests = {r1, r2}
    Threads = {t1, t2}
    r1 = r1
    r2 = r2
    t1 = t1
    t2 = t2
    ThreadOf <- Apart
    Keys = {k}
    Files = {f}
    NoOne = none
SPECIFICATION FormSpec
INVARIANT RequestPrepared
CHECK_DEADLOCK FALSE
