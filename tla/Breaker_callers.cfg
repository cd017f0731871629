SPECIFICATION FairSpec
CONSTANTS
    FailureThreshold = 2
    RecoveryTimeout = 2
    HalfOpenMaxCalls = 1
    MaxAttempts = 2
    Callers = {c1, c2}
    Ops = {"submit", "with_breaker", "request", "get_all_mids", "fresh_mark", "stale_price_probe"}
    Outcomes = {"ok", "error", "exempt"}
    c1 = c1
    c2 = c2
INVARIANT TypeOK
INVARIANT ClosedBelowThreshold
INVARIANT ProbeOutstanding
PROPERTY RecoversUnlessDropped
