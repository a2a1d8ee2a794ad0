SPECIFICATION Spec
CONSTANTS
    d1 = d1
    d2 = d2
    h1 = h1
    h2 = h2
    p1 = p1
    p2 = p2
    c1 = c1
    c2 = c2
    Deposits = {d1, d2}
    Hashes = {h1, h2}
    Requests = {p1, p2}
    Tasks = {c1}
    OnChain <- MCOnChain
    Amounts = {1, 20}
    Sponsored = {d1}
    MaxRequests = 3
    MaxFailures = 1
SYMMETRY RequestSymmetry
CHECK_DEADLOCK FALSE
INVARIANTS
    ApprovedIsCredited
    HashVerifiesOneDeposit
    UndisturbedPaysExactly
PROPERTIES
    SettledOnce
