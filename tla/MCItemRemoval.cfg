SPECIFICATION RemovalSpec
CONSTANTS
    MaxJobs = 2
    MaxTokens = 20
    MaxVersion = 99
    MaxLease = 4
    LeaseTicks = 2
    MailTicks = 1
    MaxWait = 6
    MailBackoff = 1
    FileNames = {a}
    Workers = {w1}
    MaxAttempts = 2
    Backoff = 1
    MaxBeats = 1
    MaxSources = 1
    Adversity = {}
    MaxAdverse = 0
INVARIANTS
    FilesAccounted
