SPECIFICATION MCSpec
CONSTANTS
    x1 = x1
    x2 = x2
    y1 = y1
    y2 = y2
    z1 = z1
    Conns = {x1, x2}
    Uploads = {y1, y2}
    Endpoints = {z1}
    Limit = 12
    Endpoint = 4
    Floor = 1
    NoqFloor = 1
    Credit = 2
    Most = 3
SYMMETRY Symmetry
INVARIANTS
    BudgetExact
    EndpointsFit
    QuietEnds
    SessionsSettle
PROPERTIES
    EndingsStand
CHECK_DEADLOCK FALSE
