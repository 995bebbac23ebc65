SPECIFICATION Spec
CONSTANTS
    Images = {i1, i2}
    Quotas = {q1, q2}
    MaxWrites = 1
    Missing = missing
    Damaged = damaged
    None = none
    FaultKinds = {"node"}
    MaxFaults = 1
INVARIANT
    StopStops
