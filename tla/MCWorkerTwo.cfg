SPECIFICATION Spec
CONSTANTS
    MaxJobs = 1
    MaxTokens = 7
    MaxVersion = 30
    MaxLease = 3
    LeaseTicks = 2
    MailTicks = 1
    MaxWait = 6
    MailBackoff = 1
    FileNames = {a, b}
    Workers = {w1, w2}
    MaxAttempts = 2
    Backoff = 1
    MaxBeats = 1
    MaxSources = 1
    Adversity = {"late", "commit", "write"}
    MaxAdverse = 1
SYMMETRY Interchangeable
PROPERTIES
    ImplementsStore
INVARIANTS
    HeldLeaseIsAccurate
    FilesAccounted
