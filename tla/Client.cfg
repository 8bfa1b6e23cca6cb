SPECIFICATION MCSpec
CONSTANTS
    c1 = c1
    c2 = c2
    c3 = c3
    x1 = x1
    x2 = x2
    Clients = {c1, c2, c3}
    MaxOps = 2
    MaxEvents = 1
    Askers = 2
    Grace = 1
    ControlTimeout = 2
    DeleteTimeout = 1
SYMMETRY Symmetry
INVARIANTS
    NoLeaseOrphaned
    LanesSound
    ConsoleSettles
PROPERTIES
    KeepsPromise
    StaleIgnored
CHECK_DEADLOCK FALSE
