CONSTANTS
    dm = dm
    chan = chan
    Conversations = {dm}
    DirectMessages = {dm}
    PriorityConversations = {}
    Joined0 = {dm}
    Unmarked0 = {}
    Kinds = {"top"}
    Phases = {"unread", "dm-window"}
    UseCounts = FALSE
    ShowAnswered = FALSE
    Capped = FALSE
    DMWindow = 3
    PageLimit = 2
    SecondTicks = 2
    JoinedTTL = 3
    MaxTime = 3
    MaxPulls = 1
SPECIFICATION Spec
PROPERTIES WindowSurvivesTheCut
CHECK_DEADLOCK FALSE
