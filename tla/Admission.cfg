SPECIFICATION MCSpec
CONSTANTS
    Foci = {"quotas"}
    Leases = {l1, l2}
    Clients = {ca, cb}
    Owner <- MCOwner
    Work = {w1, w2}
    Asked <- MCAsked
    Total <- MCTotal
    Share <- MCShare
    Operators = {p1}
    Requests = {t1}
    l1 = l1
    l2 = l2
    ca = ca
    cb = cb
    d1 = d1
    f1 = f1
    f2 = f2
    c1 = c1
    Terminal = terminal
    Browser = browser
    Measurement = measurement
    Transaction = x
    Nobody = Nobody
    NoLease = NoLease
SYMMETRY Symmetry
INVARIANTS QuotasExact LeaseCovered
PROPERTIES DueOnlyUnused
CHECK_DEADLOCK FALSE
