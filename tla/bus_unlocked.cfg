SPECIFICATION Spec
CONSTANTS
    poller = poller
    page = page
    button = button
    w1 = w1
    w2 = w2
    w3 = w3
    w4 = w4
    s1 = s1
    b1 = b1
    a1 = a1
    a2 = a2
    Clients = {poller, page}
    PerCommand = {page}
    Requests = {s1, b1}
    Asks <- MCAsks
    Descriptors = 2
    Faults = {"nolock"}
    MaxStrikes = 1
    NoClient = NoClient
    NoRequest = NoRequest
    NoFrame = NoFrame
INVARIANT
    LostRaceFails
CHECK_DEADLOCK FALSE
