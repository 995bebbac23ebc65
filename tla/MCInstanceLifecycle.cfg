SPECIFICATION Spec
CONSTANTS
    Images = {i1, i2}
    Quotas = {q1, q2}
    MaxWrites = 1
    Missing = missing
    Damaged = damaged
    None = none
    FaultKinds = {"node", "lost", "db", "route", "crash", "prune"}
    MaxFaults = 2
SYMMETRY Symmetry
INVARIANTS
    TypeOK
    ContainerHasData
    LatestRecoverable
    PairedSnapshot
    RunsWhatRowSays
    DeletedLeavesNothing
    QuietCopies
