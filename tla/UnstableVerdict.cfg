SPECIFICATION Spec
CONSTANTS
    NoLimit = NoLimit
    NoVerdict = NoVerdict
    Inputs <- MCInputs
    SoftTarget = 2
    EnergyBudget = 1
    MinStable = 2
    MaxTime = 3
    CallLag = 1
PROPERTY RestrictionIsStable
CHECK_DEADLOCK FALSE
