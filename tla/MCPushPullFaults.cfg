SPECIFICATION Spec
CONSTANTS
    Clients = {c1, c2}
    Reqs = {r1, r2}
    None = None
    c1 = c1
    c2 = c2
    r1 = r1
    r2 = r2
    Methods = {"attach", "pushpull", "detach"}
    Faults = {"lost", "cancel", "dberror", "crash"}
    MaxFaults = 1
    MaxEdits = 1
    SnapshotThreshold = 2
    SnapshotInterval = 1
SYMMETRY Symmetry
INVARIANTS
    AckedChangesStored
    ReplicaComplete
    SyncedSeqSound
    SnapshotIsReplay
PROPERTIES
    LogStable
    ImplementsChangeLog
