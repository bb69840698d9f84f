SPECIFICATION FairSpec
CONSTANTS
    t1 = t1
    t2 = t2
    c1 = c1
    c2 = c2
    c3 = c3
    damper = damper
    pump = pump
    Threads = {t1, t2}
    Commands = {c1, c2}
    Targets = {damper, pump}
    Requested = {damper, pump, stranger}
    MinimumInterval <- MCInterval
    Setups <- MCSetups
    Faults = {"crash", "append", "read", "echo", "open"}
    Horizon = 1
    NoThread = NoThread
    NoCommand = NoCommand
PROPERTY
    EveryCallerReleased
