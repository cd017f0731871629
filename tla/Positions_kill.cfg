SPECIFICATION Spec
CONSTANTS
    a1 = a1
    a2 = a2
    Trades = {t1, t2}
    Signals = {t1, t2}
    Accounts = {a1, a2}
    Route <- TwoAccounts
    Lot = 1
    Confirm = 2
    NoTrade = NoTrade
    NoAccount = NoAccount
    Emergency = Emergency
    MaxFaults = 1
    MaxTrips = 1
    MaxCrashes = 0
PROPERTY KillClosesOnlyClosed
CHECK_DEADLOCK FALSE
