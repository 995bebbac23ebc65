CONSTANTS
    People = {a, b}
    Nobody = Nobody
    Sessions = {s1, s2}
    Invites = {i1, i2}
    NoInvite = NoInvite
    Calls = {c1, c2}
    MaxCalls = 4
    MaxFaults = 1
    Tls = TRUE
SPECIFICATION Spec
SYMMETRY Symmetry
INVARIANTS BansHold InvitationsSettle DomainsComeWithAccount DoorIsRight
PROPERTIES LastAdminStays
CHECK_DEADLOCK FALSE
