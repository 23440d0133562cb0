SPECIFICATION FairSpec
CONSTANTS
    c1 = c1
    c2 = c2
    c3 = c3
    s1 = s1
    s2 = s2
    s3 = s3
    p1 = p1
    p2 = p2
    Clients = {c1, c2}
    Streams = {s1, s2}
    Pushers = {p1, p2}
    Owner <- TwoOfEach
    Closable = {s2}
    None = None
CHECK_DEADLOCK FALSE
INVARIANTS
    TypeOK
    NoSendOnClosed
    PeersAgree
PROPERTIES
    ChangeDelivered
    PeersComplete
