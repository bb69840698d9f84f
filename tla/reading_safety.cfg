SPECIFICATION Spec
CONSTANTS
    None = None
    Open = Open
    NoEpoch = NoEpoch
    State = State
    water = water
    room = room
    pump = pump
    meter = meter
    one = one
    two = two
    degrees = degrees
    watthours = watthours
    Sensors = {water, room, pump, meter}
    Units = {State, degrees, watthours}
    Subject = water
    Other = room
    Signal = pump
    Meter = meter
    Writers = {one, two}
    UnitOf <- MCUnitOf
    Configs <- MCConfigs
    Rate <- MCRate
    Asks <- MCAsks
    Bounds <- MCBounds
    MaxEpochs = 2
    Day = 4
    CadenceSample = 4
    MinimumForCadence = 3
    LateMultiple = 3
    SilentMultiple = 10
    FutureTolerance = 2
INVARIANTS
    TypeOK
    ReturnedMeansOnRecord
    RunsAreWhatWasSeen
    GateSpeaksForTheNearest
    PairsAreOneToOne
    BucketsAgree
    CountsNeverFallShort
    WarnedOfEveryMove
    VerifiedSetHangsTogether
    BackupTellsTheTruth
    OutageDoesNotHide
    DeadBusIsQuiet
    CostIsWhatTheBillGrowsBy
CHECK_DEADLOCK FALSE
