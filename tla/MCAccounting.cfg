SPECIFICATION Spec
CONSTANTS
    Amounts = {1, 2}
    Capacities = {2}
    Window = 2
    Powers = {1, 3}
    SampleSpan = 1
    Workloads = {w1, w2}
    NoMeter = NoMeter
    NoRecord = NoRecord
    Resolution = 2
    MaxTime = 5
    CallLag = 1
    MaxCalls = 5
INVARIANTS TypeOK BurstBoundedOverTime AccountAnswersAgree WindowHoldsRecent
    AverageWithinSamples NoEnergyInvented
CHECK_DEADLOCK FALSE
