SPECIFICATION FairSpec
CONSTANTS
    a1 = a1
    i1 = i1
    i2 = i2
    i3 = i3
    s1 = s1
    s2 = s2
    Invitees = {a1}
    Rows = {i1, i2, i3}
    Slots = {s1, s2}
    MaxAborts = 1
INVARIANTS
    OneAdmission
    OnePending
PROPERTIES
    AcceptedIsFinal
    CancelledHolds
    PersistentInviteeJoins
CHECK_DEADLOCK FALSE
