SPECIFICATION MCSpec
CONSTANTS
    s1 = s1
    s2 = s2
    l1 = l1
    l2 = l2
    Streams = {s1, s2}
    ExchangeBound = 2
    ConnectionIdle = 2
    IdleBound = 3
    Grace = 1
    Lifetime = 3
    Versions = {1, 2, 3}
    Usable = {1, 2}
    Torn = 0
SYMMETRY Symmetry
INVARIANTS
    ClosesInTime
    WindowFunded
    CertificatesSound
    ConnectionsBounded
    AttemptsBounded
PROPERTIES
    WorkUncut
CHECK_DEADLOCK FALSE
