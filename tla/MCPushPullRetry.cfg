SPECIFICATION Spec
CONSTANTS
    Clients = {c1, c2}
    Reqs = {r1, r2}
    None = None
    c1 = c1
    c2 = c2
    r1 = r1
    r2 = r2
    Methods = {"attach", "pushpull"}
    Faults = {"lost"}
    MaxFaults = 1
    MaxEdits = 2
    SnapshotThreshold = 2
    SnapshotInterval = 1
SYMMETRY Symmetry
INVARIANTS
    NoDuplicates
    IndInv
    DeliveryInv
