SPECIFICATION Spec
CONSTANTS
    u1 = u1
    r1 = r1
    r2 = r2
    Users = {u1}
    Wallets <- MCPair
    Requests = {r1, r2}
    Amounts = {1, 2}
    MaxStarts = 4
SYMMETRY RequestSymmetry
CHECK_DEADLOCK FALSE
INVARIANTS
    RowsAccountForWrites
    EntriesTellBalances
PROPERTY
    BooksAreKept
