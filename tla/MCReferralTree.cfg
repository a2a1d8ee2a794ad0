SPECIFICATION Spec
CONSTANTS
    m1 = m1
    m2 = m2
    m3 = m3
    w1 = w1
    p1 = p1
    p2 = p2
    Members = {m1, m2, m3}
    Admin = admin
    WalletTypes = {w1}
    Requests = {p1, p2}
    Script = script
    MaxEvents = 2
SYMMETRY MCSymmetry
CHECK_DEADLOCK FALSE
INVARIANTS
    RowsFormTree
    TeamsAreCounted
    NobodyIsLost
PROPERTIES
    BackfillRepairs
