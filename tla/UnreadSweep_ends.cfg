CONSTANTS
    dm = dm
    chan = chan
    Conversations = {dm}
    DirectMessages = {dm}
    PriorityConversations = {dm}
    Joined0 = {dm}
    Unmarked0 = {dm}
    Kinds = {"top", "answer"}
    Phases = {"unread", "priority", "thread-mentions", "own-threads", "canvases"}
    UseCounts = FALSE
    ShowAnswered = FALSE
    Capped = FALSE
    DMWindow = 1
    PageLimit = 2
    SecondTicks = 1
    JoinedTTL = 3
    MaxTime = 2
    MaxPulls = 1
SPECIFICATION FairSpec
PROPERTIES PullEnds
CHECK_DEADLOCK FALSE
