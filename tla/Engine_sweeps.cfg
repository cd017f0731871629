SPECIFICATION Spec
CONSTANTS
    Gate = 3
    DependsOn <- Chain
    Background = {}
    Rerunnable = {2}
    Drivers = {d1, d2}
    Actors = {"requeue", "drain", "retry", "recover", "rearm", "unwritable"}
    Outcomes = {"passed", "transient", "waiting"}
    Workers = 1
    MaxAttempts = 1
    MaxReruns = 2
    MaxRefunds = 1
    MaxTime = 5
    MaxJobs = 1
    d1 = d1
    d2 = d2
SYMMETRY DriverSymmetry
CHECK_DEADLOCK FALSE
INVARIANT VerdictProvenance
INVARIANT OneRunning
