SPECIFICATION FairSpec
CONSTANTS
    p1 = p1
    p2 = p2
    t1 = t1
    s1 = s1
    s2 = s2
    NoPassword = NoPassword
    Passwords = {p1, p2}
    Tokens = {t1}
    Kinds = {"change", "reset", "recover", "register"}
    Slots = {s1, s2}
    PoolSizes = {2, 3}
    MaxCalls = 3
    MaxFaults = 1
INVARIANTS
    KeyOpensUnlessFault
PROPERTIES
    KeyFollowsPassword
    EveryCallEnds
CHECK_DEADLOCK FALSE
