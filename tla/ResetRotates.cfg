SPECIFICATION Spec
CONSTANTS
    p1 = p1
    p2 = p2
    t1 = t1
    s1 = s1
    s2 = s2
    NoPassword = NoPassword
    Passwords = {p1, p2}
    Tokens = {t1}
    Kinds = {"change", "reset", "recover", "register"}
    Slots = {s1}
    PoolSizes = {3}
    MaxCalls = 3
    MaxFaults = 0
INVARIANTS
    ResetRotates
CHECK_DEADLOCK FALSE
