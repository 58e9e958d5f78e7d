SPECIFICATION FairSpec
CONSTANTS
    v1 = v1
    v2 = v2
    bad = bad
    r1 = r1
    r2 = r2
    d1 = d1
    d2 = d2
    unloadable = unloadable
    e1 = e1
    e2 = e2
    NoVersion = NoVersion
    NoDoc = NoDoc
    Versions <- TheVersions
    Buildable <- GoodVersions
    Routes <- TwoRoutes
    Docs <- TheDocs
    Loadable <- GoodDocs
    Installed = d1
    Editors <- TwoEditors
    MaxEvents = 3
INVARIANTS
    FilesAreRun
PROPERTIES
    GatewayCatchesUp
CHECK_DEADLOCK FALSE
