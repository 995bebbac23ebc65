SPECIFICATION FairSpec
CONSTANTS
    Images = {i1, i2}
    Quotas = {q1, q2}
    MaxWrites = 0
    Missing = missing
    Damaged = damaged
    None = none
    FaultKinds = {"node", "lost", "route", "crash", "late", "prune"}
    MaxFaults = 1
PROPERTIES
    EveryOperationEnds
    LeavesTransit
    DriftConverges
