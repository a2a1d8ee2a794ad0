SPECIFICATION FairSpec
CONSTANTS
    u1 = u1
    a1 = a1
    q1 = q1
    q2 = q2
    r1 = r1
    r2 = r2
    Users = {u1, a1}
    Admins = {a1}
    Requests = {q1, q2}
    Runs = {r1, r2}
    Amounts = {1, 2}
    Funds <- MCFunds
    MaxCalls = 4
    MaxFailures = 1
CHECK_DEADLOCK FALSE
INVARIANTS
    PayoutsAreTaken
    StatusTellsMoney
    OnePendingPerUser
PROPERTIES
    SettledOnce
    ApprovedIsExecuted
