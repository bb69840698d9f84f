SPECIFICATION Spec
CONSTANTS
    t1 = t1
    t2 = t2
    c1 = c1
    c2 = c2
    c3 = c3
    damper = damper
    pump = pump
    Threads = {t1, t2}
    Commands = {c1, c2}
    Targets = {damper}
    Requested = {damper}
    MinimumInterval <- MCInterval
    Setups <- MCOn
    Faults = {"crash", "echo"}
    Horizon = 2
    NoThread = NoThread
    NoCommand = NoCommand
INVARIANT
    NotOperatedTooOften
CHECK_DEADLOCK FALSE
