SPECIFICATION FairSpec
CONSTANTS
    a1 = a1
    a2 = a2
    Trades = {t1, r1}
    Signals = {t1}
    Accounts = {a1}
    Route <- OneAccount
    Lot = 2
    Confirm = 2
    NoTrade = NoTrade
    NoAccount = NoAccount
    Emergency = Emergency
    MaxFaults = 1
    MaxTrips = 1
    MaxCrashes = 1
INVARIANT TypeOK
PROPERTIES OutcomeStays NakedProtected RowSettles KillFlattens
CHECK_DEADLOCK FALSE
