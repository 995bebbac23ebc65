CONSTANTS
    People = {a, b}
    Nobody = Nobody
    Sessions = {s1, s2}
    Invites = {i1, i2}
    NoInvite = NoInvite
    Calls = {c1}
    MaxCalls = 3
    MaxFaults = 0
    Tls = TRUE
SPECIFICATION Spec
INVARIANTS AnAdminCanSignIn
CHECK_DEADLOCK FALSE
