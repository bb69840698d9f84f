SPECIFICATION Spec
CONSTANTS
    Hand = Hand
    NoPicture = NoPicture
    Nothing = Nothing
    Silent = Silent
    Garbled = Garbled
    Recent = 2
    WordSize = 4
    NotFinite = 3
    PowerOnReset = 85
    MinimumSamples = 2
    SettledSpread = 4
    Scenes <- MCScenes
INVARIANTS
    TypeOK
    MoveIsExplained
    
    OneReadingOneValue
    UsableCalibrationMeetsReference
PROPERTIES
    PictureNeverGoesBack
    PictureCatchesUp
CHECK_DEADLOCK FALSE
