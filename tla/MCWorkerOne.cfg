SPECIFICATION FairSpec
CONSTANTS
    MaxJobs = 2
    MaxTokens = 20
    MaxVersion = 99
    MaxLease = 3
    LeaseTicks = 2
    MailTicks = 1
    MaxWait = 6
    MailBackoff = 1
    FileNames = {a}
    Workers = {w1}
    MaxAttempts = 1
    Backoff = 1
    MaxBeats = 1
    MaxSources = 0
    Adversity = {"late", "crash", "write", "disk"}
    MaxAdverse = 1
INVARIANTS
    PublishedReadable
PROPERTIES
    JobSettles
