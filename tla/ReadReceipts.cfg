SPECIFICATION ReceiptSpec
CONSTANTS
    u1 = u1
    u12 = u12
    u3 = u3
    m1 = m1
    m2 = m2
    c1 = c1
    c2 = c2
    Users = {u1, u12, u3}
    Messages = {m1, m2}
    Calls = {c1, c2}
    Within <- Digits
    MaxAborts = 1
SYMMETRY Symmetry
INVARIANTS
    MarkingHolds
PROPERTIES
    ReceiptsLast
CHECK_DEADLOCK FALSE
