SPECIFICATION Spec
CONSTANTS
    Requests = {r1, r2}
    MaxAdmit = 1
    MaxRenew = 1
    Deadline = 1
    Interval = 5
    Sessions = {s, t}
    Mine = {s}
    Ports = {p}
    NoPort = NoPort
    NoSession = NoSession
    MaxRows = 2
    MaxGrants = 1
    MaxChanges = 2
INVARIANTS
    StreamsEndInTime
    SlotsAreWork
    CodeIsUsedOnce
    TokensHangOnOwner
PROPERTY EveryRequestAnswered
