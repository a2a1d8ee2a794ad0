SPECIFICATION Spec
CONSTANTS
    u1 = u1
    u2 = u2
    c1 = c1
    c2 = c2
    c3 = c3
    n1 = n1
    n2 = n2
    p1 = p1
    p2 = p2
    Users = {u1}
    Codes = {c1, c2, c3}
    Tokens = {n1, n2}
    Requests = {p1, p2}
    MaxCalls = 7
    MaxDecisions = 1
    MaxFailures = 1
SYMMETRY MCSymmetry
CHECK_DEADLOCK FALSE
INVARIANTS
    SessionsEndWithPassword
    CodeUsedOnce
PROPERTIES
    SuspensionStands
