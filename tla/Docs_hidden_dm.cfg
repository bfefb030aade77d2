CONSTANTS
    dm = dm
    chan = chan
    Conversations = {dm, chan}
    DirectMessages = {dm}
    PriorityConversations = {}
    Joined0 = {chan}
    Unmarked0 = {}
    Kinds = {"top"}
    Phases = {"unread"}
    UseCounts = FALSE
    ShowAnswered = FALSE
    Capped = FALSE
    DMWindow = 0
    PageLimit = 2
    SecondTicks = 1
    JoinedTTL = 3
    MaxTime = 5
    MaxPulls = 3
SPECIFICATION Spec
PROPERTIES HiddenAtMostAMinute
CHECK_DEADLOCK FALSE
ACTION_CONSTRAINT NothingFails
