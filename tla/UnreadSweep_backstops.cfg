CONSTANTS
    dm = dm
    chan = chan
    Conversations = {chan}
    DirectMessages = {}
    PriorityConversations = {}
    Joined0 = {chan}
    Unmarked0 = {chan}
    Kinds = {"top", "mention", "reply", "answer"}
    Phases = {"unread", "thread-mentions", "own-threads"}
    UseCounts = FALSE
    ShowAnswered = FALSE
    Capped = FALSE
    DMWindow = 0
    PageLimit = 2
    SecondTicks = 1
    JoinedTTL = 3
    MaxTime = 3
    MaxPulls = 2
SPECIFICATION Spec
INVARIANTS NoLoss
CHECK_DEADLOCK FALSE
