SPECIFICATION LiveSpec
CONSTANTS
    i1 = i1
    i2 = i2
    r1 = r1
    r2 = r2
    u1 = u1
    u2 = u2
    NoRelease = NoRelease
    Releases <- OneRelease
    Replicas <- TwoReplicas
    Users <- OneUser
    MayAct <- Permitted
    MaxCopies = 2
    MaxCrashes = 1
    MaxSilent = 2
INVARIANTS
    AtMostOneConfirmed
    NoSilentLoss
    StatusTellsTheTruth
    OriginalComesFirst
PROPERTIES
    SettledIsFinal
    Promise
    EventuallySettled
CHECK_DEADLOCK FALSE
