SPECIFICATION BoundedStoreSpec
CONSTANTS
    MaxJobs = 2
    MaxTokens = 3
    MaxVersion = 7
    MaxLease = 2
    LeaseTicks = 1
    MailTicks = 1
    MaxWait = 1
    MailBackoff = 1
    FileNames = {a}
INVARIANTS
    SchemaNeverRejects
    LeasesAreExclusive
    PublishedIffArtifact
    RetriedMailIsNotPaused
PROPERTIES
    ImplementsLifecycle
