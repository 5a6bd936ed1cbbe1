SPECIFICATION Spec
CONSTANTS
    MaxItems = 2
    Urls = {u1}
    Nodes = {n1}
    Tags = {}
    MaxTokens = 4
    MaxPages = 1
    MaxRestores = 1
    CaptureTicks = 1
    CaptureWait = 1
    Capturers = {w1, w2}
    Pages = {"page"}
    MaxCalls = 4
    Calls = {"save", "sync", "upload", "recover", "recapture", "delete", "transfer"}
    Mishaps = {"late"}
    MaxMishaps = 1
SYMMETRY Interchangeable
INVARIANTS
    ImportedPageKept
    CapturesReadable
    CaptureFilesAccounted
    RemovedStaysRemoved
