SPECIFICATION AccessSpec
CONSTANTS
    u1 = u1
    u2 = u2
    r1 = r1
    r2 = r2
    r3 = r3
    p1 = p1
    p2 = p2
    m1 = m1
    f1 = f1
    f2 = f2
    k1 = k1
    s1 = s1
    s2 = s2
    None = None
    Users = {u1, u2}
    Admins = {u1}
    RoleIds = {r1, r2, r3}
    Seed = {r1, r2}
    Perms = {p1, p2}
    SeedPerms = {p1}
    MaxLevel = 1
    Menus = {m1}
    Features = {f1, f2}
    SeedFeatures = {f1}
    Links = {k1}
    MaxViews = 1
    Slots = {s1, s2}
    MaxCalls = 3
    MaxEdits = 3
    MaxMixed = 2
    MaxFaults = 1
INVARIANTS
    AccessTypeOK
    RolesConsistent
    AccessConsistent
SYMMETRY
    Symmetry
PROPERTIES
    ClosedHolds
CHECK_DEADLOCK FALSE
