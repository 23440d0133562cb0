SPECIFICATION FairSpec
CONSTANTS
    Clients = {c1, c2}
    Reqs = {r1, r2}
    None = None
    c1 = c1
    c2 = c2
    r1 = r1
    r2 = r2
    Methods = {"attach", "pushpull"}
    Faults = {}
    MaxFaults = 0
    MaxEdits = 1
    SnapshotThreshold = 10
    SnapshotInterval = 1
PROPERTIES
    Converges
INVARIANTS
    SyncedReplicasEqual
