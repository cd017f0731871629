SPECIFICATION Spec
CONSTANTS
    Gate = 2
    DependsOn <- Chain
    Background = {1}
    Rerunnable = {}
    Drivers = {d1, d2}
    Actors = {"cancel", "recover", "reset"}
    Outcomes = {"passed", "contention"}
    Workers = 1
    MaxAttempts = 2
    MaxReruns = 2
    MaxRefunds = 1
    MaxTime = 3
    MaxJobs = 2
    d1 = d1
    d2 = d2
SYMMETRY DriverSymmetry
CHECK_DEADLOCK FALSE
INVARIANT SingleExecution
INVARIANT NoLeakedSlot
INVARIANT WithinCapacity
PROPERTY CancelSticks
