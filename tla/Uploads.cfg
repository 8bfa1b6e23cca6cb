SPECIFICATION MCSpec
CONSTANTS
    i1 = i1
    i2 = i2
    i3 = i3
    o1 = o1
    o2 = o2
    k1 = k1
    k2 = k2
    wide = wide
    s1 = s1
    c1 = c1
    d1 = d1
    f1 = f1
    Nobody = Nobody
    Ids <- MCIds
    NoOwner = NoOwner
    Owners <- MCOwners
    Keys <- MCKeys
    Charged <- MCCharged
    Share <- MCShare
    Sinks = {s1}
    Calls = {c1}
    MaxLive = 2
    Lifetime = 1
    SweepInterval = 1
    MaxTime = 2
INVARIANTS IdNamesOneAggregate CapacityAccounted LanesAreSinks TotalsExact
PROPERTIES LivesForward ObservationsFollow
CHECK_DEADLOCK FALSE

SYMMETRY Symmetry
