SPECIFICATION Spec
CONSTANTS
    Gate = 2
    DependsOn <- Chain
    Background = {1}
    Rerunnable = {}
    Drivers = {d1, d2}
    Actors = {"restart", "requeue", "recover"}
    Outcomes = {"passed", "no_evidence"}
    Workers = 2
    MaxAttempts = 2
    MaxReruns = 2
    MaxRefunds = 1
    MaxTime = 4
    MaxJobs = 2
    d1 = d1
    d2 = d2
SYMMETRY DriverSymmetry
CHECK_DEADLOCK FALSE
INVARIANT TypeOK
INVARIANT VerdictProvenance
INVARIANT SingleExecution
PROPERTY DurableOutcomeKept
