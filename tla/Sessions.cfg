SPECIFICATION FairSpec
CONSTANTS
    t1 = t1
    s1 = s1
    s2 = s2
    None = None
    Ids = {1, 2}
    Tenants = {t1}
    Slots = {s1, s2}
    Limit = 2
    MaxTime = 1
    MaxCalls = 3
    MaxFaults = 1
INVARIANTS
    LoginSafe
PROPERTIES
    LimitLifts
    StoreImplemented
CHECK_DEADLOCK FALSE
