SPECIFICATION FairAreasSpec
CONSTANTS
    None = None
    Users = {u1, u2, u3}
    Senders = {u1}
    Admins = {u2}
    MessageIds = {m1, m2}
    Files = {f1}
    Named = {u2}
    NoticeIds = {m1}
    Tenants = {t1, t2}
    Providers = {p1, p2}
    UserIds = {i1, i2, i3}
    Slots = {s1, s2}
    PoolSize = 2
    AreaCalls <- MCAreaCalls
    AreaFaults <- MCAreaFaults
INVARIANTS
    ChatConsistent
    SignUpConsistent
PROPERTIES
    ChatSettles
    SignUpEnds
CHECK_DEADLOCK FALSE
