SPECIFICATION Spec
CONSTANTS
    u1 = u1
    t1 = t1
    t2 = t2
    s1 = s1
    s2 = s2
    p1 = p1
    p2 = p2
    Users = {u1}
    Trades = {t1, t2}
    Sessions = {s1, s2}
    Settlers = {p1, p2}
    Tolerance = 1
    HasAdmin = TRUE
    Funds <- MCFunds
    MaxSessions = 2
    MaxChanges = 2
    MaxFailures = 1
SYMMETRY MCSymmetry
CHECK_DEADLOCK FALSE
INVARIANTS
    BarredUsersAreNotTraded
    TradesArePaidOnce
    StakesAreTakenFromPrincipal

