SPECIFICATION MCSpec
CONSTANTS
    Window = 2
    Schedules = {"Every", "ReplyDriven"}
    Spacing = 1
    Deadlines = {1, 3}
    LateReplies = 3
    RedialWindow = 6
    EarlyLoss = 1
    ReadyBound = 2
    SendTimeout = 1
    Span = 3
    Lag = 1
    Copies = 2
    MaxOpen = 1
    MaxTime = 11
INVARIANTS
    WorkMatchesEngine
    GapsExplained
    EndsInTime
    ResolvesOnce
PROPERTIES
    SilenceLeavesOne
