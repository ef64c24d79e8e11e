SPECIFICATION FairSpec
CONSTANTS
    t1 = t1  t2 = t2  t3 = t3  a1 = a1  n1 = n1
    None = None
    Messages <- Fewer
    KindOf <- FewerKind
    MinMessages = 3
    MaxFaults = 1
    MaxCrashes = 1
    RetentionDays = 2
    MaxDays = 3
    LastDay = 3
INVARIANTS
    SessionsInv
    NewStartsFresh
    PendingIsCurrent
    GivenFilesExist
    SummarizedOnce
PROPERTIES
    ArchivedIsFinal
    FilesAreRetained
    ArchivedIsSummarized
CHECK_DEADLOCK FALSE
