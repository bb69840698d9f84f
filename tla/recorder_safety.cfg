SPECIFICATION Spec
CONSTANTS
    timer = timer
    hand = hand
    Recorders = {timer, hand}
    before = before
    after = after
    Configs = {before, after}
    NoEpoch = NoEpoch
    Plan <- MCPlan
    Cycles <- MCCycles
    Faults = {"open", "silent", "raise", "disk", "crash", "signal"}
    MaxStrikes = 1
    MaxStarts = 2
    MaxSetBacks = 1
    Steps = {2}
    Nothing = Nothing
SYMMETRY Symmetry
INVARIANTS
    TypeOK
    AttributedRightly
    EpochsMark
    ReportedIsStored
    ZeroMeansComplete
    EndsOnlyWhenAsked
    StopsWithinOneCycle
CHECK_DEADLOCK FALSE
