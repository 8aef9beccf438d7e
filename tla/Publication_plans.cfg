CONSTANTS
    r1 = r1
    r2 = r2
    p1 = p1
    p2 = p2
    cash = cash
    food = food
    NoFile = NoFile
    NoAction = NoAction
    User = User
    Worker = {r1}
    Action = {p1, p2}
    Account = {cash, food}
    LastMonth = 1
    MonthStarts = {1}
    TTL = 1
    MaxTime = 1
    MaxCommits = 3
    Plan <- MixedPlans
    InitialTree <- SeededTree
SPECIFICATION Spec
SYMMETRY ActionSymmetry
INVARIANTS
    TypeOK
    PublishedAsReviewed
    FailedReplayUndone
CHECK_DEADLOCK FALSE
