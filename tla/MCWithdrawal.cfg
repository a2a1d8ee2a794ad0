SPECIFICATION Spec
CONSTANTS
    w1 = w1
    w2 = w2
    x1 = x1
    x2 = x2
    h1 = h1
    h2 = h2
    r1 = r1
    r2 = r2
    Withdrawals = {w1, w2}
    Wallets = {x1, x2}
    Principal = {x1}
    Funds <- MCFunds
    Hashes = {h1, h2}
    PaidTo <- MCPaidTo
    Runs = {r1, r2}
    Amounts = {10, 20}
    MaxRequests = 5
    MaxFailures = 1
SYMMETRY MCSymmetry
CHECK_DEADLOCK FALSE
INVARIANTS
    MoneyIsAccountedFor
    CompletedIsBacked
    RefundMatchesStatus
PROPERTIES
    SettledOnce
