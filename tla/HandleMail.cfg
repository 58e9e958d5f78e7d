SPECIFICATION FairSpec
CONSTANTS
    m1 = m1
    m2 = m2
    Mails <- OneMail
    MaxAttempts = 2
    MaxCrashes = 1
INVARIANTS
    AcceptedIsKept
    BouncedIsGone
    OnlyCleanIsSent
    DuplicateHasCause
    RowTellsTheTruth
PROPERTIES
    EventuallyServing
CHECK_DEADLOCK FALSE
