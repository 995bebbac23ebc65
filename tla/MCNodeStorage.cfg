SPECIFICATION OutcomeSpec
CONSTANTS
    s1 = s1
    s2 = s2
    Spaces <- MCSpaces
    Upgraded <- MCUpgraded
    StorageKeys <- MCKeys
    MaxId = 5
    MaxFaults = 2
    FaultKinds = {"leave", "step", "crash", "power", "lose"}
    NoFile = nofile
    Missing = missing
    Damaged = damaged
    None = none
CHECK_DEADLOCK FALSE
INVARIANTS
    TypeOK
    AccountsApart
    UsageIsOwn
    UsableIsSound
    DataIsLimited
PROPERTY
    OutcomesAsAssumed
