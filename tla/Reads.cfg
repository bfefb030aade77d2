CONSTANTS
    w1 = w1
    w2 = w2
    w3 = w3
    dm1 = dm1
    ch1 = ch1
    u1 = u1
    u2 = u2
    me = me
    you = you
    MentionRoom = {dm1, ch1}
    MentionDMs = {dm1}
    MentionKinds = {"ask", "mine", "chat"}
    MentionCalls <- MentionOptions
    MentionLimit = 2
    ReplyPage = 1
    MaxFeed = 3
    Author = {me, you}
    NoteKind <- Attached
    FileAsk <- FileCalls
    ScanLimit = 2
    FilePage = 2
    ThreadScan = 1
    MaxNotes = 4
    RouteOrder <- Registered
    BotOnly = {w3}
    Elsewhere = elsewhere
    MaxLookups = 2
    Chan = {1, 2, 3}
    ChanName = {"a"}
    OtherName = "z"
    Resolver = {r1, r2}
    ChanPage = 2
    User = {u1, u2}
    HandleText = {"a", "b", "c"}
    PeerLookups = 1
    ActionRoom = {"dm", "group", "thread"}
    TurnKind <- Turns
    DueView = {"today"}
    ActionLimit = 2
    ActionPage = 1
    SearchPages = 2
    FollowPage = 3
    StaleAfter = 1
    DayLength = 2
    MaxTurns = 3
    DigestPage = 2
    Lookback = 2
    MaxShow = 1
    ReplyCap = 1
    TickSecond = 2
    DigestAsk <- DigestCalls
    MaxPosts = 5
    FeedPost <- BotPosts
    PatternsPerBand = 1
    MaxFeedPosts = 4
    Listed <- Conversations
    DMRoom = {"dm"}
    PriorityRoom = {"status"}
    FeedRoom = {"log"}
    StatusRoom = {"status"}
    Line <- Said
    AnswerCall <- SummaryCalls
    AnswerView <- SummaryViews
    LookbackTicks = 2
    AnsweredWindow = 2
    PreviewReplies = 1
    UrgencyWeight = 2
    MaxLines = 3
    MaxSent = 3
    MaxOpened = 1
SPECIFICATION Spec
INVARIANTS TypeOK EveryAskAccounted PendingIsUnanswered NothingPassedOver LinksAreFollowed NamesAreFound TheHandleItself PingsAreUnanswered WindowIsCovered BranchFollowsItsRequest CommonestShown HiddenIsSettled NothingReadIsUntold FeedsCrowdNobodyOut
CHECK_DEADLOCK FALSE
