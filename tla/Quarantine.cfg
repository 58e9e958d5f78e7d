SPECIFICATION Spec
CONSTANTS
    m1 = m1
    m2 = m2
    p1 = p1
    p2 = p2
    p3 = p3
    NoMail = NoMail
    Mails <- OneMail
    Requests <- ThreeRequests
    MayRelease <- Permitted
    MaxCopies = 2
    MaxCrashes = 1
INVARIANTS
    OneAtATimeIsSafe
PROPERTY
    HeldAsPromised
