SPECIFICATION FairSpec
CONSTANTS
    t1 = t1
    p1 = p1
    p2 = p2
    m1 = m1
    m2 = m2
    s1 = s1
    s2 = s2
    None = None
    Tenants = {t1}
    Plans = {p1, p2}
    FreePlan = p1
    Methods = {m1, m2}
    Slots = {s1, s2}
    MaxCalls = 2
    MaxFaults = 2
INVARIANTS
    BillingConsistent
PROPERTIES
    SchedulerWorks
CHECK_DEADLOCK FALSE
