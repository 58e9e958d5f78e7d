SPECIFICATION MCSpec
CONSTANTS
    a1 = a1
    a2 = a2
    n1 = n1
    n2 = n2
    Approvers <- TwoApprovers
    Notifiers <- TwoNotifiers
    MaxAttempts = 2
    MaxAssign = 1
    MaxFaults = 1
INVARIANTS
    SecondMailHasCause
    NobodyForgotten
PROPERTIES
    EverybodyKnows
