SPECIFICATION FairSpec
CONSTANTS
    u1 = u1
    t1 = t1
    t2 = t2
    s1 = s1
    s2 = s2
    p1 = p1
    p2 = p2
    Users = {u1}
    Trades = {t1, t2}
    Sessions = {s1}
    Settlers = {p1, p2}
    Tolerance = 10000
    HasAdmin = FALSE
    Funds <- MCFunds
    MaxSessions = 2
    MaxChanges = 0
    MaxFailures = 2
CHECK_DEADLOCK FALSE
PROPERTIES
    TradesComplete
