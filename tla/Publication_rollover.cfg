CONSTANTS
    r1 = r1
    r2 = r2
    p1 = p1
    p2 = p2
    cash = cash
    food = food
    NoFile = NoFile
    NoAction = NoAction
    User = User
    Worker = {r1}
    Action = {p1}
    Account = {cash}
    LastMonth = 1
    MonthStarts = {1}
    TTL = 2
    MaxTime = 1
    MaxCommits = 2
    Plan <- AppendPlans
    InitialTree <- BareTree
SPECIFICATION Spec
INVARIANTS
    PublishedLedgerValid
CHECK_DEADLOCK FALSE
