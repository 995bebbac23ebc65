\* Four call sites against three places: refusal, a full line and a line that
\* empties all happen.
SPECIFICATION FairSpec
CONSTANTS
    Calls = {c1, c2, c3, c4}
    Capacity = 3
    Resolved = resolved
INVARIANTS
    MutualExclusion
    PendingIsExact
PROPERTIES
    AdmittedRuns
    ImplementsExecutor
