SPECIFICATION Progress
CONSTANTS
    Foci = {"datagrams", "feeds", "leases"}
    Leases = {l1}
    Clients = {ca}
    Owner <- OneOwner
    Work = {w1, w2}
    Asked <- OneAsked
    Total <- OneTotal
    Share <- MCShare
    Operators = {p1}
    Requests = {t1}
    l1 = l1
    l2 = l2
    ca = ca
    cb = cb
    d1 = d1
    f1 = f1
    f2 = f2
    c1 = c1
    Terminal = terminal
    Browser = browser
    Measurement = measurement
    Transaction = x
    Nobody = Nobody
    NoLease = NoLease
PROPERTIES DatagramsLeave FeedsEnd LeasesEnd
CHECK_DEADLOCK FALSE
