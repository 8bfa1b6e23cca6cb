SPECIFICATION Spec
CONSTANTS
    Clients = {c1, c2}
    MaxOps = 3
    MaxEvents = 2
    Askers = 1
    Grace = 2
    ControlTimeout = 3
    DeleteTimeout = 1
PROPERTIES
    RunFinishesOnce
CHECK_DEADLOCK FALSE
