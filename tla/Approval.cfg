SPECIFICATION FairSpec
CONSTANTS
    i1 = i1
    i2 = i2
    a1 = a1
    a2 = a2
    w1 = w1
    w2 = w2
    NoRequest = NoRequest
    Requests <- OneRequest
    Approvers <- TwoApprovers
    Workers <- TwoWorkers
    MayDecide <- Permitted
    MaxCopies = 2
    MaxCrashes = 1
INVARIANTS
    OneDecision
    NoSilentLoss
    MailStatusAgrees
PROPERTIES
    DecisionStands
    Promise
    EventuallyDecided
