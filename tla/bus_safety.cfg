SPECIFICATION FairSpec
CONSTANTS
    poller = poller
    page = page
    button = button
    w1 = w1
    w2 = w2
    w3 = w3
    w4 = w4
    s1 = s1
    b1 = b1
    a1 = a1
    a2 = a2
    Clients = {poller, page, button}
    PerCommand = {page, button}
    Requests = {s1, b1, a1, a2}
    Asks <- MCAsks
    Descriptors = 1
    Faults = {"nolock", "port", "serial", "silence", "late", "exception", "header", "check", "crash"}
    MaxStrikes = 1
    NoClient = NoClient
    NoRequest = NoRequest
    NoFrame = NoFrame
INVARIANTS
    TypeOK
    OwnAnswer
    CleanHandover
    ConfirmedMeansCarriedOut
PROPERTY
    ExchangesEnd
CHECK_DEADLOCK FALSE
