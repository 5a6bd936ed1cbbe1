SPECIFICATION FairSpec
CONSTANTS
    MaxJobs = 1
    MaxTokens = 14
    MaxVersion = 40
    MaxLease = 2
    LeaseTicks = 2
    MailTicks = 1
    MaxWait = 1
    MailBackoff = 1
    FileNames = {a}
    Items = {i1}
    ActionKeys = {k1, k2}
    Mailers = {m1, m2}
    MaxOwner = 3
INVARIANTS
    AtMostOneMailPerAsk
    AskedMailIsQueued
PROPERTIES
    WaitingMailSettles
