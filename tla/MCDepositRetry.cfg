SPECIFICATION FairSpec
CONSTANTS
    d1 = d1
    d2 = d2
    h1 = h1
    h2 = h2
    p1 = p1
    p2 = p2
    c1 = c1
    c2 = c2
    Deposits = {d1}
    Hashes = {h1, h2}
    Requests = {p1}
    Tasks = {c1, c2}
    OnChain <- MCOnChain
    Amounts = {1, 20}
    Sponsored = {d1}
    MaxRequests = 3
    MaxFailures = 1
CHECK_DEADLOCK FALSE
PROPERTIES
    RetryDecidesPayable
