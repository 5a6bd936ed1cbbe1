SPECIFICATION FairSpec
CONSTANTS
    MaxItems = 2
    Urls = {u1}
    Nodes = {}
    Tags = {t1}
    MaxTokens = 2
    MaxPages = 0
    MaxRestores = 1
    CaptureTicks = 1
    CaptureWait = 0
    Indexers = {s1, s2}
    MaxTasks = 20
    MaxChanges = 4
    Changes = {"save", "edit", "capture", "delete", "reindex", "transfer"}
    Faults = {"refuse", "timeout", "crash", "session"}
    MaxFaults = 1
INVARIANTS
    CleanMeansCurrent
    RemovedLeaveIndex
PROPERTIES
    IndexCatchesUp
