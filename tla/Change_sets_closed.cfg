CONSTANTS
    Path <- MCPath
    SidecarPath = {"main", "month"}
    MonthPath = "month"
    MainPath = "main"
    EntryPath = "entry"
    Account <- MCAccount
    Under <- MCUnder
    Scope <- MCScope
    Currency = {"EUR", "USD"}
    User = {u1, u2}
    Branch = {b1, b2}
    Layout = {y1, y2}
    MainBranch = b1
    Initial <- MCInitial
    Requests <- MCRequests
    NewText <- MCNewText
    Pushed <- MCPushed
    TTL = 1
    ManyTransactions = 2
    MaxOps = 2
    MaxPushes = 1
    MaxRevs = 3
SPECIFICATION Spec
SYMMETRY Symmetries
VIEW Seen
CHECK_DEADLOCK FALSE
INVARIANT ClosedEmpty
