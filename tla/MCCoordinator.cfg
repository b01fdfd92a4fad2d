SPECIFICATION CoordinatorSpec
CONSTANTS
    gpu = gpu
    w1 = w1
    b1 = b1
    b2 = b2
    NoBudget = NoBudget
    BudgetIds <- MCBudgetIds
    ParentsOf <- MCParentsOf
    HardMaxes <- MCHardMaxes
    Authorities = {TRUE}
    MaxBudgetGeneration = 1
    ReservationIds = {1, 2}
    Powers = {1}
    MaxPower = 1
    MaxPolicyGeneration = 1
    PlannedPolicies = {1}
    Validity = 1
    MaxTime = 1
    CallLag = 1
    Workers = {w1}
    Connections = {1, 2}
    WorkerOf <- MCWorkerOf
    BootOf <- MCBootOf
    NoBoot = NoBoot
    Replayed = {b1}
    MaxEpoch = 2
    MaxRequests = 2
INVARIANTS CoordinatorTypeOK StaleRequestsHaveNoEffect FreshBootNotMuted GrantReachesOwner AckedIsGranted
PROPERTY RequestsAnswered
CHECK_DEADLOCK FALSE
