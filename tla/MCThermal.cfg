SPECIFICATION Spec
CONSTANTS
    CoolMax = 40
    NormalMax = 60
    WarmMax = 75
    HotMax = 85
    RecoveryMargin = 5
    ConfirmCount = 2
    ReductionPercent = 60
    NoReading = NoReading
    Temperatures <- MCTemperatures
    NominalCap = 500
    MaxReadings = 7
INVARIANTS TypeOK ConstrainedIffConfirmed RecoveringIffCooling HotterPermitsLess
