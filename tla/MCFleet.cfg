CONSTANTS
    Ids = {i1, i2}
    Slugs = {s1, s2}
    Owners = {o1, o2}
    Refs = {r1, r2}
    Calls = {c1, c2}
    None = None
    LastPort = 2
    Limit = 2
    MaxCalls = 6
    MaxFaults = 1
SPECIFICATION Spec
SYMMETRY Symmetry
INVARIANTS LeadsHome RoutesWhole
PROPERTIES DefaultKept
CHECK_DEADLOCK FALSE
