CONSTANTS
    ActionRoom = {"dm", "group", "thread"}
    TurnKind <- Turns
    DueView = {"all"}
    ActionLimit = 2
    ActionPage = 1
    SearchPages = 3
    FollowPage = 3
    StaleAfter = 1
    DayLength = 2
    MaxTurns = 3
SPECIFICATION ActionsSpec
INVARIANTS EveryOpenItemListed
CHECK_DEADLOCK FALSE
