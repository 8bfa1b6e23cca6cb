SPECIFICATION MCSpec
CONSTANTS
    Foci = {"logins", "approvals", "terminals"}
    Leases = {l1}
    Clients = {ca}
    Owner <- OneOwner
    Work = {w1}
    Asked <- OneAsked
    Total <- OneTotal
    Share <- MCShare
    Operators = {p1, p2}
    Requests = {t1, t2}
    l1 = l1
    l2 = l2
    ca = ca
    cb = cb
    d1 = d1
    f1 = f1
    f2 = f2
    c1 = c1
    Terminal = terminal
    Browser = browser
    Measurement = measurement
    Transaction = x
    Nobody = Nobody
    NoLease = NoLease
SYMMETRY Symmetry
INVARIANTS RevocationReaches
PROPERTIES GrantsApproved
CHECK_DEADLOCK FALSE
