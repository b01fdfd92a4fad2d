SPECIFICATION Spec
CONSTANTS
    node = node
    gpu0 = gpu0
    gpu1 = gpu1
    NoBudget = NoBudget
    BudgetIds <- MCBudgetIds
    ParentsOf <- MCParentsOf
    HardMaxes <- MCHardMaxes
    Authorities = {TRUE}
    MaxBudgetGeneration = 2
    ReservationIds = {r1, r2}
    Powers = {1, 2}
    MaxPower = 2
    MaxPolicyGeneration = 1
    PlannedPolicies = {1}
    Validity = 0
    MaxTime = 2
    CallLag = 0
VIEW MCView
SYMMETRY MCSymmetry
INVARIANTS TypeOK ReservedExact HeldIsReleasable ParentCoversChildren
    AvailableIsReservable IndexLagsOnlyOnExpiry
PROPERTIES CapacityGate NoStaleActivation ImplementsLedger
CHECK_DEADLOCK FALSE
