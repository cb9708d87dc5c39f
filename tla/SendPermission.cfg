SPECIFICATION FairSpec
CONSTANTS
    u1 = u1
    u2 = u2
    s1 = s1
    s2 = s2
    Users = {u1, u2}
    Sends = {s1, s2}
    TTL = 2
PROPERTIES
    NoResurrection
    ChangesTakeEffect
