CONSTANTS
    dm = dm
    chan = chan
    Conversations = {dm, chan}
    DirectMessages = {dm}
    PriorityConversations = {}
    Joined0 = {dm, chan}
    Unmarked0 = {dm}
    Kinds = {"top"}
    Phases = {"unread", "dm-window"}
    UseCounts = TRUE
    ShowAnswered = FALSE
    Capped = TRUE
    DMWindow = 1
    PageLimit = 2
    SecondTicks = 1
    JoinedTTL = 3
    MaxTime = 3
    MaxPulls = 2
SPECIFICATION Spec
PROPERTIES Delivers
CHECK_DEADLOCK FALSE
