SPECIFICATION Spec
CONSTANTS
    d1 = d1
    d2 = d2
    h1 = h1
    h2 = h2
    p1 = p1
    p2 = p2
    c1 = c1
    c2 = c2
    Deposits = {d1}
    Hashes = {h1}
    Requests = {p1, p2}
    Tasks = {}
    OnChain <- MCOneHash
    Amounts = {1}
    Sponsored = {}
    MaxRequests = 2
    MaxFailures = 0
CHECK_DEADLOCK FALSE
INVARIANTS
    CreditedAtMostOnce
