SPECIFICATION PersistenceSpec
CONSTANTS
    node = node
    gpu = gpu
    NoBudget = NoBudget
    NoFile = NoFile
    Torn = Torn
    BudgetIds <- MCBudgetIds
    ParentsOf <- MCParentsOf
    HardMaxes <- MCHardMaxes
    Authorities = {TRUE}
    MaxBudgetGeneration = 2
    ReservationIds = {1, 2}
    Powers = {3}
    MaxPower = 3
    MaxPolicyGeneration = 1
    PlannedPolicies = {1}
    Validity = 0
    MaxTime = 2
    CallLag = 0
    Resolution = 2
    MaxSaves = 2
    MaxRestarts = 1
    MaxCalls = 6
    PlanBudgets = {gpu}
INVARIANTS PersistenceTypeOK AckedSaveSurvives NoPhantomReservation
PROPERTIES IdentityIsStable CapacityGateAcrossLoads RoundTrip
CHECK_DEADLOCK FALSE
