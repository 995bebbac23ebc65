CONSTANTS
    NoData = NoData
    Malformed = Malformed
    Nobody = Nobody
    NoRow = NoRow
    NoPage = NoPage
    NoPanel = NoPanel
    alice = alice
    bob = bob
    carol = carol
    r1 = r1
    r2 = r2
    Domains = {d1, d2}
    People = {alice, bob, carol}
    Guest = carol
    Rows = {r1, r2}
    MaxStreams = 5
    Scenes <- MCScenes
SPECIFICATION Spec
INVARIANTS SetupSendsChecked InviteTellsTruth ShownIsOwn OwnChangeShown AsksOnce NoOrphanStream
PROPERTIES PollShowsTruth
CHECK_DEADLOCK FALSE
