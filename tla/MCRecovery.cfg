SPECIFICATION FairSpec
CONSTANTS
    Sources = {u1, u2}
    Waiters = {w1}
    MaxSessions = 2
    MaxCommands = 2
    MaxVisits = 2
    AutoSteps = 2
    QueueSize = 1
INVARIANTS
    OneBrowser
    SavedUnaskedWhenStill
PROPERTIES
    TakeoverHolds
    SavedPageIsHandedOver
    SessionEnds
CHECK_DEADLOCK FALSE
