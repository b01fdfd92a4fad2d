SPECIFICATION Spec
CONSTANTS
    node = node
    gpu0 = gpu0
    gpu1 = gpu1
    NoBudget = NoBudget
    BudgetIds <- MCBudgetIds
    ParentsOf <- MCParentsOf
    HardMaxes <- MCHardMaxes
    Authorities = {TRUE}
    MaxBudgetGeneration = 1
    ReservationIds = {r1, r2}
    Powers = {1, 2}
    MaxPower = 2
    MaxPolicyGeneration = 0
    PlannedPolicies = {0}
    Validity = 0
    MaxTime = 2
    CallLag = 0
SYMMETRY MCSymmetry
INVARIANT UsageIsActive
CHECK_DEADLOCK FALSE
