SPECIFICATION Spec
CONSTANTS
    timer = timer
    hand = hand
    Recorders = {hand}
    before = before
    after = after
    Configs = {before}
    NoEpoch = NoEpoch
    Plan <- MCPlan
    Cycles <- MCCycles
    Faults = {"disk"}
    MaxStrikes = 1
    MaxStarts = 1
    MaxSetBacks = 0
    Steps = {}
    Nothing = Nothing
INVARIANT
    StorageErrorIsFatal
CHECK_DEADLOCK FALSE
