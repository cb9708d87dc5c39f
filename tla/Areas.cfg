SPECIFICATION AreasSpec
CONSTANTS
    i1 = i1
    i2 = i2
    c1 = c1
    c2 = c2
    s1 = s1
    s2 = s2
    u1 = u1
    u2 = u2
    u3 = u3
    None = None
    CodeIds = {i1, i2}
    Values = {c1, c2}
    Verifiers = {v1}
    Resets = {r1}
    Slots = {s1, s2}
    MaxAttempts = 2
    MaxCalls = 5
    MaxFaults = 2
    Families = {"keeps", "rotates", "drops"}
    MaxGrants = 3
    Offers = {o1}
    Plans = {p1, p2}
    Keys = {k1, k2, k3}
    Files = {f1, f2}
    MaxList = 1
    MaxLimit = 1
    MaxPeriods = 2
    Reactions = {e1}
    Typists = {u1}
    MaxDay = 2
    MaxFollowers = 1
    MaxViews = 1
    Members = {u2, u3}
    Admins = {u1}
    Creator = u1
    AreaCalls <- MCAreaCalls
    AreaFaults <- MCAreaFaults
SYMMETRY
    Symmetry
INVARIANTS
    GuessesBounded
    CodesSpentOnce
    PlatformsConsistent
    AllowancesConsistent
    FilesConsistent
    EventsConsistent
CHECK_DEADLOCK FALSE
