CONSTANTS
    dm = dm
    chan = chan
    Conversations = {dm, chan}
    DirectMessages = {dm}
    PriorityConversations = {}
    Joined0 = {chan}
    Unmarked0 = {dm}
    Kinds = {"top", "mine"}
    Phases = {"unread"}
    UseCounts = FALSE
    ShowAnswered = FALSE
    Capped = FALSE
    DMWindow = 0
    PageLimit = 2
    SecondTicks = 2
    JoinedTTL = 3
    MaxTime = 4
    MaxPulls = 2
SPECIFICATION Spec
INVARIANTS TypeOK NoLoss HiddenIsAnswered
PROPERTIES CursorMonotone
CHECK_DEADLOCK FALSE
