CONSTANTS
    dm = dm
    chan = chan
    Conversations = {dm, chan}
    DirectMessages = {dm}
    PriorityConversations = {}
    Joined0 = {dm, chan}
    Unmarked0 = {}
    Kinds = {"top"}
    Phases = {"unread"}
    UseCounts = FALSE
    ShowAnswered = FALSE
    Capped = FALSE
    DMWindow = 0
    PageLimit = 2
    SecondTicks = 1
    JoinedTTL = 3
    MaxTime = 3
    MaxPulls = 1
SPECIFICATION Spec
PROPERTIES DeadlineHoldsTheCursor
CHECK_DEADLOCK FALSE
