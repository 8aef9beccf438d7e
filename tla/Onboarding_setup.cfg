CONSTANTS
    c1 = c1
    c2 = c2
    main = main
    side = side
    books = books
    beside = beside
    deep = deep
    readme = readme
    Absent = Absent
    Outside = Outside
    Path <- Paths
    Ledger = {main, side, books, beside, deep}
    Hinted = {main, side, beside, deep}
    InSidecar = {side, beside, deep}
    DefaultEntry = main
    DefaultSidecar = side
    SidecarOf <- Sidecars
    Rank <- Ranks
    MaxValidations = 2
    MaxFiles = 3
    MaxBulky = 1
    Client = {c1, c2}
    Request <- Requests
    FirstTrees <- Trees
    ForeignEdits <- Edits
    MaxForeign = 2
SPECIFICATION Spec
SYMMETRY Clients
INVARIANTS
    TypeOK
    PublishedAsPreviewed
    SetupIsReady
    AnswersAreTrue
    
    DiscoveryIsSound
CHECK_DEADLOCK FALSE
