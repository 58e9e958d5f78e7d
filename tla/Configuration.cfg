SPECIFICATION Spec
CONSTANTS
    v = v
    w = w
    p = p
    r = r
    c1 = c1
    a1 = a1
    a2 = a2
    Absent = Absent
    NoKey = NoKey
    NoSnapshot = NoSnapshot
    NoProc = NoProc
    Keys <- All
    Kind <- KindOf
    Specs <- SpecsOf
    Files <- BundleFiles
    Bundles <- OneBundle
    Clients <- OneClient
    Replicas <- TwoReplicas
    MaxEvents = 2
SYMMETRY SymmetricReplicas
INVARIANTS
    ActiveIsValid
    ActiveIsCurrent
    FilesAreTruth
CHECK_DEADLOCK FALSE
