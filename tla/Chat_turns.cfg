CONSTANTS
    Call = {c1, c2}
    c1 = c1
    c2 = c2
    MaxRound = 2
    MaxTexts <- TextFirst
    MaxTurns = 2
SPECIFICATION FairSpec
INVARIANTS
    TypeOK
    NothingLost
    HistoryIsLast
    HistoryIsWhole
    AsksForThisTurn
    AwaitingIffAsked
    ToolsHaveWorkspace
PROPERTIES
    StreamEnds
CHECK_DEADLOCK FALSE
