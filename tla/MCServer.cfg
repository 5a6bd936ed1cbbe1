SPECIFICATION ServerSpec
CONSTANTS
    Callers = {c1, c2}
    Requests = {r1}
    NoOne = NoOne
    MaxLogins = 2
    MaxRefreshes = 3
    MaxMishaps = 2
    Procs = {"new", "gap", "fork"}
    NoProc = "nobody"
    Versions = {1, 2, 3, 4}
    Names = {"a", "b"}
    MaxStarts = 4
    Local <- MCLocal
INVARIANTS
    DisconnectSticks
    StoredTokenIsAccepted
    HistoryAccounted
    ServingIsMigrated
PROPERTIES
    CancelReturns
CHECK_DEADLOCK FALSE
