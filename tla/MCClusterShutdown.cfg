SPECIFICATION FairSpec
CONSTANTS
    a1 = a1
    a2 = a2
    a3 = a3
    p1 = p1
    p2 = p2
    s1 = s1
    s2 = s2
    None = None
    Agents = {a1, a2}
    Address <- OwnAddresses
    Jobs = {p1, p2, s2}
    Pushes = {p1, p2}
    Host <- PushesAndStream
    Initial = {a1, a2}
    Leaving = {a2}
    Late = {a2}
    MaxFaults = 2
CHECK_DEADLOCK FALSE
INVARIANTS
    NoJobAfterClose
PROPERTIES
    LockHandedOn
    ShutdownEnds
