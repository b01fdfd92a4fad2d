SPECIFICATION Spec
CONSTANTS
    CoolMax = 40
    NormalMax = 60
    WarmMax = 75
    HotMax = 85
    RecoveryMargin = 5
    ConfirmCount = 2
    ReductionPercent = 60
    NoReading = NoReading
    Pollers <- MCPollers
    Temperatures <- MCTemperatures
    Limits <- MCLimits
    NoSample = NoSample
    FreshFor = 1
    StaleAfter = 2
    ExpiredAfter = 3
    MaxTime = 4
    CallLag = 0
    PolicyCaps <- MCPolicyCaps
    SoftTarget = NoReading
    EnergyBudget = 1
    RequestPowers <- MCRequestPowers
    RequestEnergies = {1}
    BudgetAnswers <- MCBudgetAnswers
INVARIANT NoStaleThermal
