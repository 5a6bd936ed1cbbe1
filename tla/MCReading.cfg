SPECIFICATION ReadingSpec
CONSTANTS
    Submissions = {"page", "post", "mirrored", "wayback", "ph", "short"}
    Provider = "subscription"
    Languages = {"de"}
    Targets = {"", "de"}
    Tabs = {t1, t2}
    Resumers = {r1, r2}
    MaxAsks = 2
    MaxCaptures = 1
    MaxSaves = 2
SYMMETRY Interchangeable
INVARIANTS
    OnlyApprovedIsPublished
    CallsAreRecorded
    OriginalFailureKept
    OwnerReadingKept
    ResumesPerCapture
    MailOnlyWhenAsked
PROPERTIES
    EditsBuildOnShown
CHECK_DEADLOCK FALSE
