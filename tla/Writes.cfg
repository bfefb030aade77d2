CONSTANTS
    k1 = k1
    k2 = k2
    Channel = {c1}
    Exporter = {e1, e2}
    MessageKind <- Posts
    PageCap = 2
    ThreadCap = 1
    Window = 1
    LastTick = 3
    MaxRuns = 3
    Caller = {a, b}
    Somebody = s
    PostPage = 2
    SkipWindow = 1
    PostRetries = 1
    PostTicks = 4
    MaxCalls = 2
    Canvas = {k1, k2}
    NoCanvas = none
    SectionsOf <- Sections
    Words = {"x"}
    Created <- CreatedAt
    Views <- WhatIsShown
    FilesPage = 2
    Document = {1, 2, 3}
    ListPage = 2
    DeltaLimit = 2
    SecondLength = 2
    LastInstant = 8
    FileCall = {p, q}
    Attachment = {f1, f2}
    FileNames = {"n"}
    NameOf <- SameName
    FileTool = {"download_audio", "transcribe_audio", "view_image"}
    MaxFileCalls = 2
    work = work
    side = side
    quiet = quiet
    bots = bots
    Registry <- Ordered
    LabelKey <- Distinct
    Splits = {}
    SweepExclude = {quiet}
    NoUserToken = {bots}
    LastPost = 3
    MaxPulls = 3
SPECIFICATION Spec
INVARIANTS TypeOK FoundIsKeptOnce NoSecondPost TheTabIsTheTarget EditsAreNotPassed FilesAreAccountedFor NothingBehind
PROPERTIES OnlyTheSectionAskedFor CursorsMonotone Delivers
CHECK_DEADLOCK FALSE
