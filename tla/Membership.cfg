SPECIFICATION Spec
CONSTANTS
    u1 = u1
    u2 = u2
    u3 = u3
    s1 = s1
    s2 = s2
    Users = {u1, u2, u3}
    Slots = {s1, s2}
    UserLists <- ListsUpTo2
    MaxRequests = 5
    MaxAborts = 1
SYMMETRY Symmetry
INVARIANTS
    CountSettled
    AtMostOneOwner
PROPERTIES
    OwnerLeavesLast
    AbandonedIsFrozen
    OwnerlessForever
CHECK_DEADLOCK FALSE
