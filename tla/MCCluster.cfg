SPECIFICATION AgentsFairSpec
CONSTANTS
    a1 = a1
    a2 = a2
    a3 = a3
    p1 = p1
    p2 = p2
    s1 = s1
    s2 = s2
    None = None
    Agents = {a1, a2, a3}
    Address <- SharedAddress
    Jobs = {s1}
    Pushes = {}
    Host <- OneStream
    Initial = {a1, a2}
    Leaving = {a2}
    Late = {a1}
    MaxFaults = 1
CHECK_DEADLOCK FALSE
INVARIANTS
    IndInv
    MapFollows
    PublishReaches
PROPERTIES
    AgentsMeet
