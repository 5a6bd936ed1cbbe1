SPECIFICATION FairSpec
CONSTANTS
    MaxItems = 1
    Urls = {u1}
    Nodes = {n1}
    Tags = {t1}
    MaxTokens = 8
    MaxPages = 1
    MaxRestores = 0
    CaptureTicks = 1
    CaptureWait = 1
    Capturers = {w1}
    Pages = {"page", "untitled", "blocked"}
    MaxCalls = 3
    Calls = {"save", "edit", "upload", "approve", "reclassify", "delete"}
    Mishaps = {"late", "crash", "commit"}
    MaxMishaps = 1
INVARIANTS
    OwnerEditsKept
    ClassifiedIsCurrent
PROPERTIES
    CaptureSettles
